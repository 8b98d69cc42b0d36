---------------------------- MODULE AnalysesProofs ----------------------------
(***************************************************************************)
(* Proofs about Analyses: that an answer is what its analysis finds of     *)
(* what it was given, and what that is worth, for every set of cases of    *)
(* the shape the code makes.  An analysis answers in one step, so the      *)
(* invariant says which function gave the answer, and the work is in the   *)
(* lemmas about these functions, one section for each.                     *)
(***************************************************************************)
EXTENDS Analyses, WellFoundedInduction, FiniteSetTheorems, TLAPS


(***************************************************************************)
(* Numbers and lists.                                                      *)
(***************************************************************************)

\* Induction on numbers, for a set of them.
LEMMA NatInductionOnSets ==
  ASSUME NEW Nums, 0 \in Nums, \A n \in Nat : n \in Nums => n + 1 \in Nums
  PROVE  Nat \subseteq Nums
<1> DEFINE U == Nat \ Nums
<1>1. SUFFICES ASSUME U # {} PROVE FALSE
  OBVIOUS
<1>2. PICK x \in U : \A y \in U : ~(<<y, x>> \in OpToRel(<, Nat))
  <2>1. IsWellFoundedOn(OpToRel(<, Nat), Nat)
    BY NatLessThanWellFounded
  <2>2. U \subseteq Nat
    OBVIOUS
  <2> HIDE DEF U
  <2> QED BY <1>1, <2>1, <2>2, WFMin
<1>3. x # 0 /\ x - 1 \in Nat
  OBVIOUS
<1>4. x - 1 \in U
  OBVIOUS
<1>5. <<x - 1, x>> \in OpToRel(<, Nat)
  BY <1>3 DEF OpToRel
<1> QED BY <1>2, <1>4, <1>5

\* Some number is least.
LEMMA LeastNumber ==
  ASSUME NEW U \in SUBSET Nat, U # {}
  PROVE  \E x \in U : \A y \in U : x <= y
<1> SUFFICES ASSUME \A x \in U : \E y \in U : ~(x <= y)
             PROVE  FALSE
  OBVIOUS
<1> DEFINE Nums == {m \in Nat : \A k \in 0..m : k \notin U}
<1>1. \A x \in U : \E y \in U : y < x
  OBVIOUS
<1>2. 0 \in Nums
  <2>1. \A k \in 0..0 : k = 0
    OBVIOUS
  <2>2. 0 \notin U
    BY <1>1
  <2> QED BY <2>1, <2>2
<1>3. ASSUME NEW m \in Nat, m \in Nums PROVE m + 1 \in Nums
  <2>1. \A k \in 0..m : k \notin U
    BY <1>3
  <2>2. m + 1 \notin U
    <3>1. SUFFICES ASSUME m + 1 \in U PROVE FALSE
      OBVIOUS
    <3>2. PICK y \in U : y < m + 1
      BY <3>1, <1>1
    <3>3. y \in 0..m
      BY <3>2
    <3> QED BY <3>3, <2>1
  <2>3. \A k \in 0..m + 1 : k \in 0..m \/ k = m + 1
    OBVIOUS
  <2> QED BY <2>1, <2>2, <2>3
<1>4. Nat \subseteq Nums
  <2> HIDE DEF Nums
  <2> QED BY <1>2, <1>3, NatInductionOnSets
<1>5. PICK x \in U : TRUE
  OBVIOUS
<1>6. x \in Nums /\ x \in 0..x
  BY <1>4
<1> QED BY <1>5, <1>6

\* The steps of FlattenSeq.
LEMMA FlattenUnfolds ==
  ASSUME NEW seqs, NEW n \in Nat, n # 0, DOMAIN seqs = 1..n, Len(seqs) = n
  PROVE  \E at : /\ at[1] = seqs[1]
                 /\ \A i \in 2..n : at[i] = at[i - 1] \o seqs[i]
                 /\ FlattenSeq(seqs) = at[n]
<1> DEFINE Rec(at, m) == at = [i \in 1..m |-> IF i = 1 THEN seqs[i] ELSE at[i - 1] \o seqs[i]]
           Nums == {m \in Nat : \E at : Rec(at, m)}
<1>1. 0 \in Nums
  <2>1. Rec([i \in 1..0 |-> {}], 0)
    OBVIOUS
  <2> QED BY <2>1
<1>2. ASSUME NEW m \in Nat, m \in Nums PROVE m + 1 \in Nums
  <2>1. PICK at : Rec(at, m)
    BY <1>2
  <2> DEFINE new == [i \in 1..m + 1 |-> IF i = m + 1
                                        THEN IF i = 1 THEN seqs[i] ELSE at[i - 1] \o seqs[i]
                                        ELSE at[i]]
  <2>2. ASSUME NEW i \in 1..m + 1
        PROVE  new[i] = IF i = 1 THEN seqs[i] ELSE new[i - 1] \o seqs[i]
    <3>1. CASE i = m + 1
      BY <3>1
    <3>2. CASE i \in 1..m
      <4>1. new[i] = at[i]
        BY <3>2
      <4>2. at[i] = IF i = 1 THEN seqs[i] ELSE at[i - 1] \o seqs[i]
        BY <2>1, <3>2
      <4>3. i # 1 => new[i - 1] = at[i - 1]
        BY <3>2
      <4> QED BY <4>1, <4>2, <4>3
    <3> QED BY <3>1, <3>2
  <2>3. new = [i \in 1..m + 1 |-> new[i]]
    OBVIOUS
  <2> HIDE DEF new
  <2>4. Rec(new, m + 1)
    BY <2>2, <2>3
  <2> HIDE DEF Rec
  <2> QED BY <2>4
<1>3. Nat \subseteq Nums
  <2> HIDE DEF Nums
  <2> QED BY <1>1, <1>2, NatInductionOnSets
<1>4. PICK any : Rec(any, n)
  BY <1>3
<1> DEFINE at == CHOOSE at : Rec(at, n)
<1>5. Rec(at, n)
  BY <1>4
<1>6. FlattenSeq(seqs) = at[n]
  BY DEF FlattenSeq
<1>7. \A i \in 1..n : at[i] = IF i = 1 THEN seqs[i] ELSE at[i - 1] \o seqs[i]
  BY <1>5
<1> HIDE DEF at
<1>8. at[1] = seqs[1]
  BY <1>7
<1>9. ASSUME NEW i \in 2..n PROVE at[i] = at[i - 1] \o seqs[i]
  <2>1. i \in 1..n /\ i # 1
    OBVIOUS
  <2> QED BY <1>7, <2>1
<1> QED BY <1>6, <1>8, <1>9

\* A function on 1..n is a list.
LEMMA ListOf ==
  ASSUME NEW n \in Nat, NEW s, s = [i \in 1..n |-> s[i]]
  PROVE  IsList(s) /\ Len(s) = n /\ DOMAIN s = 1..n
<1>1. \A i \in 1..n : s[i] \in Range(s)
  BY DEF Range
<1>2. s \in Seq(Range(s))
  BY <1>1
<1> QED BY <1>2 DEF IsList

\* What is in a list is in a range that it has.
LEMMA ListIn ==
  ASSUME NEW Vals, NEW s \in Seq(Vals)
  PROVE  IsList(s) /\ Range(s) \subseteq Vals /\ DOMAIN s = 1..Len(s) /\ Len(s) \in Nat
<1>1. \A i \in 1..Len(s) : s[i] \in Vals
  OBVIOUS
<1>2. Range(s) \subseteq Vals
  BY <1>1 DEF Range
<1> QED BY <1>2, ListOf

LEMMA RangeOfBoth ==
  ASSUME NEW Vals, NEW s \in Seq(Vals), NEW t \in Seq(Vals)
  PROVE  Range(s \o t) = Range(s) \cup Range(t)
<1>1. ASSUME NEW i \in DOMAIN (s \o t) PROVE (s \o t)[i] \in Range(s) \cup Range(t)
  <2>1. CASE i <= Len(s)
    <3>1. i \in DOMAIN s /\ (s \o t)[i] = s[i]
      BY <2>1
    <3> QED BY <3>1 DEF Range
  <2>2. CASE i > Len(s)
    <3>1. i - Len(s) \in DOMAIN t /\ (s \o t)[i] = t[i - Len(s)]
      BY <2>2
    <3> QED BY <3>1 DEF Range
  <2> QED BY <2>1, <2>2
<1>2. ASSUME NEW i \in DOMAIN s PROVE s[i] \in Range(s \o t)
  <2>1. i \in DOMAIN (s \o t) /\ (s \o t)[i] = s[i]
    OBVIOUS
  <2> QED BY <2>1 DEF Range
<1>3. ASSUME NEW i \in DOMAIN t PROVE t[i] \in Range(s \o t)
  <2>1. i + Len(s) \in DOMAIN (s \o t) /\ (s \o t)[i + Len(s)] = t[i]
    OBVIOUS
  <2> QED BY <2>1 DEF Range
<1> QED BY <1>1, <1>2, <1>3 DEF Range

\* FlattenSeq gives a sequence of what its parts hold.
LEMMA FlattenMembers ==
  ASSUME NEW Vals, NEW seqs \in Seq(Seq(Vals))
  PROVE  /\ FlattenSeq(seqs) \in Seq(Vals)
         /\ Range(FlattenSeq(seqs)) = UNION {Range(seqs[i]) : i \in DOMAIN seqs}
<1>1. CASE seqs = <<>>
  BY <1>1 DEF FlattenSeq, Range
<1>2. CASE seqs # <<>>
  <2> DEFINE n == Len(seqs)
  <2>1. n \in Nat /\ n # 0 /\ DOMAIN seqs = 1..n /\ \A i \in 1..n : seqs[i] \in Seq(Vals)
    BY <1>2
  <2> HIDE DEF n
  <2>2. PICK at : /\ at[1] = seqs[1]
                  /\ \A i \in 2..n : at[i] = at[i - 1] \o seqs[i]
                  /\ FlattenSeq(seqs) = at[n]
    BY <2>1, FlattenUnfolds DEF n
  <2> DEFINE Good(m) == at[m] \in Seq(Vals) /\ Range(at[m]) = UNION {Range(seqs[i]) : i \in 1..m}
             Nums == {m \in Nat : m \in 1..n => Good(m)}
  <2>3. 0 \in Nums
    BY <2>1
  <2>4. ASSUME NEW m \in Nat, m \in Nums PROVE m + 1 \in Nums
    <3>1. SUFFICES ASSUME m + 1 \in 1..n PROVE Good(m + 1)
      OBVIOUS
    <3>2. CASE m = 0
      <4>1. at[m + 1] = seqs[1] /\ 1..m + 1 = {1}
        BY <2>2, <3>2
      <4> QED BY <4>1, <2>1
    <3>3. CASE m # 0
      <4>1. Good(m) /\ m + 1 \in 2..n
        BY <2>4, <3>3, <3>1, <2>1
      <4>2. at[m + 1] = at[m] \o seqs[m + 1]
        <5>1. (m + 1) - 1 = m
          OBVIOUS
        <5> QED BY <4>1, <5>1, <2>2
      <4>3. seqs[m + 1] \in Seq(Vals)
        BY <3>1, <2>1
      <4>4. at[m + 1] \in Seq(Vals)
        BY <4>1, <4>2, <4>3
      <4>5. Range(at[m + 1]) = Range(at[m]) \cup Range(seqs[m + 1])
        <5> DEFINE s == at[m]
                   t == seqs[m + 1]
        <5>1. s \in Seq(Vals) /\ t \in Seq(Vals)
          BY <4>1, <4>3
        <5> HIDE DEF s, t
        <5>2. Range(s \o t) = Range(s) \cup Range(t)
          BY <5>1, RangeOfBoth
        <5> QED BY <5>2, <4>2 DEF s, t
      <4>6. 1..m + 1 = (1..m) \cup {m + 1}
        OBVIOUS
      <4> QED BY <4>1, <4>4, <4>5, <4>6
    <3> QED BY <3>2, <3>3
  <2>5. n \in Nums
    <3> HIDE DEF Nums
    <3> QED BY <2>1, <2>3, <2>4, NatInductionOnSets
  <2> QED BY <2>1, <2>2, <2>5
<1> QED BY <1>1, <1>2

\* That a list holds some of the things of a function on numbers, in their order.
InOrder(pos, list, keep, item) ==
  /\ pos \in [1..Len(list) -> keep]
  /\ \A i \in keep : \E k \in 1..Len(list) : pos[k] = i
  /\ \A k, l \in 1..Len(list) : k < l => pos[k] < pos[l]
  /\ \A k \in 1..Len(list) : list[k] = item[pos[k]]

\* Flattening one or none of each keeps what there is in its order.
LEMMA OptionsInOrder ==
  ASSUME NEW n \in Nat, NEW keep \in SUBSET (1..n), NEW item, NEW seqs,
         seqs = [i \in 1..n |-> IF i \in keep THEN <<item[i]>> ELSE <<>>]
  PROVE  IsList(FlattenSeq(seqs)) /\ \E pos : InOrder(pos, FlattenSeq(seqs), keep, item)
<1> DEFINE Vals == {item[i] : i \in keep}
           Done(list, m) == /\ list \in Seq(Vals)
                            /\ \E pos : InOrder(pos, list, keep \cap 1..m, item)
<1>1. DOMAIN seqs = 1..n /\ Len(seqs) = n /\ \A i \in 1..n : seqs[i] \in Seq(Vals)
  <2>1. \A i \in 1..n : seqs[i] = IF i \in keep THEN <<item[i]>> ELSE <<>>
    OBVIOUS
  <2>2. \A i \in keep : item[i] \in Vals
    OBVIOUS
  <2> HIDE DEF Vals
  <2> QED BY <2>1, <2>2
<1>2. Done(<<>>, 0)
  <2>1. InOrder(<<>>, <<>>, keep \cap 1..0, item)
    BY DEF InOrder
  <2> HIDE DEF Vals
  <2> QED BY <2>1
<1>3. ASSUME NEW m \in 0..n - 1, NEW list, Done(list, m)
      PROVE  Done(list \o seqs[m + 1], m + 1)
  <2>1. m + 1 \in 1..n /\ m \in Nat
    OBVIOUS
  <2>2. PICK pos : InOrder(pos, list, keep \cap 1..m, item)
    BY <1>3
  <2>3. list \in Seq(Vals) /\ Len(list) \in Nat
    BY <1>3
  <2>4. CASE m + 1 \notin keep
    <3>1. seqs[m + 1] = <<>> /\ keep \cap 1..m + 1 = keep \cap 1..m
      BY <2>1, <2>4
    <3>2. list \o seqs[m + 1] = list
      <4> HIDE DEF Vals
      <4> QED BY <2>3, <3>1
    <3> QED BY <1>3, <3>1, <3>2
  <2>5. CASE m + 1 \in keep
    <3> DEFINE Size == Len(list)
               x == item[m + 1]
               new == Append(list, x)
               npos == [k \in 1..Size + 1 |-> IF k = Size + 1 THEN m + 1 ELSE pos[k]]
    <3>1. seqs[m + 1] = <<x>> /\ x \in Vals
      BY <2>1, <2>5
    <3>2. list \o seqs[m + 1] = new /\ new \in Seq(Vals) /\ Len(new) = Size + 1
          /\ new[Size + 1] = x /\ \A k \in 1..Size : new[k] = list[k]
      <4> HIDE DEF Vals, x
      <4> QED BY <2>3, <3>1
    <3>3. keep \cap 1..m + 1 = (keep \cap 1..m) \cup {m + 1}
      BY <2>1, <2>5
    <3> HIDE DEF new, Vals
    <3>4. \A k \in 1..Size : pos[k] \in keep \cap 1..m /\ npos[k] = pos[k] /\ pos[k] < m + 1
      BY <2>2, <2>3 DEF InOrder
    <3>5. npos[Size + 1] = m + 1
      BY <2>3
    <3>6. npos \in [1..Size + 1 -> keep \cap 1..m + 1]
      <4>1. ASSUME NEW k \in 1..Size + 1 PROVE npos[k] \in keep \cap 1..m + 1
        <5>1. k \in 1..Size \/ k = Size + 1
          BY <2>3
        <5> HIDE DEF npos, Size
        <5> QED BY <5>1, <3>3, <3>4, <3>5
      <4>2. npos = [k \in 1..Size + 1 |-> npos[k]]
        OBVIOUS
      <4> HIDE DEF npos, Size
      <4> QED BY <4>1, <4>2
    <3>7. \A i \in keep \cap 1..m + 1 : \E k \in 1..Size + 1 : npos[k] = i
      <4>1. ASSUME NEW i \in keep \cap 1..m PROVE \E k \in 1..Size + 1 : npos[k] = i
        <5>1. PICK k \in 1..Size : pos[k] = i
          BY <2>2 DEF InOrder
        <5> QED BY <5>1, <3>4, <2>3
      <4>2. Size + 1 \in 1..Size + 1
        BY <2>3
      <4> HIDE DEF npos, Size
      <4> QED BY <4>1, <4>2, <3>3, <3>5
    <3>8. ASSUME NEW k \in 1..Size + 1, NEW l \in 1..Size + 1, k < l PROVE npos[k] < npos[l]
      <4>1. k \in 1..Size
        BY <3>8, <2>3
      <4>2. CASE l \in 1..Size
        BY <4>1, <4>2, <3>4, <3>8, <2>2 DEF InOrder
      <4>3. CASE l = Size + 1
        <5> HIDE DEF npos
        <5> QED BY <4>1, <4>3, <3>4, <3>5
      <4> QED BY <4>2, <4>3, <2>3
    <3>9. ASSUME NEW k \in 1..Size + 1 PROVE new[k] = item[npos[k]]
      <4>1. CASE k \in 1..Size
        BY <4>1, <3>2, <3>4, <2>2 DEF InOrder
      <4>2. CASE k = Size + 1
        BY <4>2, <3>2, <3>5
      <4> QED BY <4>1, <4>2, <2>3
    <3> HIDE DEF npos, Size
    <3>10. InOrder(npos, new, keep \cap 1..m + 1, item)
      BY <3>2, <3>6, <3>7, <3>8, <3>9 DEF InOrder
    <3> QED BY <3>2, <3>10
  <2> QED BY <2>4, <2>5
<1>4. CASE n = 0
  <2>1. FlattenSeq(seqs) = <<>>
    <3>1. seqs = <<>>
      BY <1>4
    <3> QED BY <3>1 DEF FlattenSeq
  <2>2. keep = keep \cap 1..0
    BY <1>4
  <2> HIDE DEF Vals
  <2> QED BY <2>1, <2>2, <1>2, ListIn
<1>5. CASE n # 0
  <2>1. PICK at : /\ at[1] = seqs[1]
                  /\ \A i \in 2..n : at[i] = at[i - 1] \o seqs[i]
                  /\ FlattenSeq(seqs) = at[n]
    <3>1. DOMAIN seqs = 1..n /\ Len(seqs) = n
      BY <1>1
    <3> HIDE DEF Done, Vals
    <3> QED BY ONLY <3>1, <1>5, n \in Nat, FlattenUnfolds
  <2> DEFINE Nums == {m \in Nat : m + 1 \in 1..n => Done(at[m + 1], m + 1)}
  <2> HIDE DEF Done
  <2>2. 0 \in Nums
    <3>1. 0 \in 0..n - 1 /\ 0 + 1 = 1
      BY <1>5
    <3>2. Done(<<>> \o seqs[1], 1)
      BY <3>1, <1>2, <1>3
    <3>3. <<>> \o seqs[1] = seqs[1]
      <4> HIDE DEF Vals
      <4> QED BY <1>1, <1>5
    <3> QED BY <3>1, <3>2, <3>3, <2>1
  <2>3. ASSUME NEW m \in Nat, m \in Nums PROVE m + 1 \in Nums
    <3>1. SUFFICES ASSUME (m + 1) + 1 \in 1..n PROVE Done(at[(m + 1) + 1], (m + 1) + 1)
      OBVIOUS
    <3>2. Done(at[m + 1], m + 1)
      BY <2>3, <3>1
    <3>3. (m + 1) + 1 \in 2..n /\ ((m + 1) + 1) - 1 = m + 1 /\ m + 1 \in 0..n - 1
      BY <3>1
    <3>4. at[(m + 1) + 1] = at[m + 1] \o seqs[(m + 1) + 1]
      <4> DEFINE j == (m + 1) + 1
      <4>1. j \in 2..n /\ j - 1 = m + 1
        BY <3>3
      <4>2. at[j] = at[j - 1] \o seqs[j]
        <5> HIDE DEF j
        <5> QED BY <4>1, <2>1
      <4> QED BY <4>1, <4>2
    <3> QED BY <3>2, <3>3, <3>4, <1>3
  <2>4. n - 1 \in Nums
    <3> HIDE DEF Nums
    <3>1. n - 1 \in Nat
      BY <1>5
    <3> QED BY <2>2, <2>3, <3>1, NatInductionOnSets
  <2>5. Done(at[n], n)
    <3>1. (n - 1) + 1 = n /\ n \in 1..n
      BY <1>5
    <3> QED BY <2>4, <3>1
  <2>6. keep = keep \cap 1..n
    OBVIOUS
  <2>7. FlattenSeq(seqs) \in Seq(Vals) /\ \E pos : InOrder(pos, FlattenSeq(seqs), keep, item)
    <3> HIDE DEF Vals
    <3> QED BY <2>1, <2>5, <2>6 DEF Done
  <2> HIDE DEF Vals
  <2> QED BY <2>7, ListIn
<1> QED BY <1>4, <1>5

(***************************************************************************)
(* What is asked and answered.                                             *)
(***************************************************************************)

\* What the analysis of that name finds.
ResultOf(of, in) ==
  CASE of = "assess" -> F!Assess(in.code, in.finding)
    [] of = "attack" -> AttackOn(in)
    [] of = "leverage" -> L!AnalyzeLeverage(in)
    [] of = "agent" -> L!AgentSurface(in, in.hidden)
    [] of = "parallax" -> Divergences(in)
    [] of = "audit" -> AuditOf(in)
    [] of = "devil" -> R!DevilsAdvocate(in.findings, in.limit, in.answer)
    [] of = "rules" -> R!ProposeRules(in.fixed, in.known, in.limit, in.answer)
    [] of = "canaries" -> Decoyed(in)
    [] of = "evidence" -> E!Check(in.file, in.finding, in.manifest)
    [] of = "store" -> Stored(in)
    [] of = "patch" -> W!TryPatch(in)
    [] of = "taint" -> FlowsIn(in)
    [] of = "dependencies" -> PackagesIn(in)

\* The inductive invariant: what is asked is a case of its analysis, and the answer is
\* what that analysis finds of it, for as long as it stands.
Asked == \/ asked = None
         \/ \E of \in DOMAIN Cases : \E in \in Cases[of] : asked = [of |-> of, in |-> in]
Replied == answer = None \/ (asked # None /\
                             answer = [of |-> asked.of, value |-> ResultOf(asked.of, asked.in)])
Inv == Asked /\ Replied

\* An analysis that answers gives what it finds.
LEMMA AnswerKeeps ==
  ASSUME Inv, NEW of, of # "none", asked.of = of, Answer(of, ResultOf(of, asked.in))
  PROVE  Inv'
<1>1. asked # None
  BY DEF None
<1>2. asked' = asked /\ answer' = [of |-> of, value |-> ResultOf(of, asked.in)]
  BY DEF Answer
<1>3. Asked'
  BY <1>2 DEF Inv, Asked
<1>4. Replied'
  <2>1. ResultOf(of, asked.in)' = ResultOf(of, asked.in)
    BY <1>2 DEF ResultOf
  <2> QED BY <1>1, <1>2 DEF Replied, None, ResultOf
<1> QED BY <1>3, <1>4 DEF Inv

\* Before anything is asked the invariant holds.
LEMMA InitEstablishes == Init => Inv
BY DEF Init, Inv, Asked, Replied

\* Every action keeps the invariant.
LEMMA NextKeeps ==
  ASSUME Inv, [Next]_vars
  PROVE  Inv'
<1>1. CASE UNCHANGED vars
  BY <1>1 DEF Inv, Asked, Replied, ResultOf, vars
<1>2. CASE Ask
  BY <1>2 DEF Ask, Inv, Asked, Replied, None
<1>3. CASE AssessFinding
  BY <1>3, AnswerKeeps DEF AssessFinding, ResultOf
<1>4. CASE ModelAttacker
  BY <1>4, AnswerKeeps DEF ModelAttacker, ResultOf
<1>5. CASE MapLeverage
  BY <1>5, AnswerKeeps DEF MapLeverage, ResultOf
<1>6. CASE MapAgentSurface
  BY <1>6, AnswerKeeps DEF MapAgentSurface, ResultOf
<1>7. CASE CompareViews
  BY <1>7, AnswerKeeps DEF CompareViews, ResultOf
<1>8. CASE AuditFiles
  BY <1>8, AnswerKeeps DEF AuditFiles, ResultOf
<1>9. CASE AskDevil
  BY <1>9, AnswerKeeps DEF AskDevil, ResultOf
<1>10. CASE AskRules
  BY <1>10, AnswerKeeps DEF AskRules, ResultOf
<1>11. CASE CheckCanaries
  BY <1>11, AnswerKeeps DEF CheckCanaries, ResultOf
<1>12. CASE CheckEvidence
  BY <1>12, AnswerKeeps DEF CheckEvidence, ResultOf
<1>13. CASE StoreAudit
  BY <1>13, AnswerKeeps DEF StoreAudit, ResultOf
<1>14. CASE TryPatch
  BY <1>14, AnswerKeeps DEF TryPatch, ResultOf
<1>15. CASE FollowInput
  BY <1>15, AnswerKeeps DEF FollowInput, ResultOf
<1>16. CASE TakeInventory
  BY <1>16, AnswerKeeps DEF TakeInventory, ResultOf
<1> QED BY <1>1, <1>2, <1>3, <1>4, <1>5, <1>6, <1>7, <1>8, <1>9, <1>10, <1>11, <1>12, <1>13,
           <1>14, <1>15, <1>16 DEF Next

\* An analysis answers in one step, so the invariant says no more than what it answers;
\* what that is worth is in the theorems about each.
LEMMA InvHolds == Spec => []Inv
<1>1. Inv /\ [Next]_vars => Inv'
  BY NextKeeps
<1> QED BY <1>1, InitEstablishes, PTL DEF Spec

\* What the invariant says of an answer.
LEMMA AnsweredAsFound ==
  ASSUME Inv, NEW of, of # "none", Answered(of)
  PROVE  asked.of = of /\ asked.in \in Given(of) /\ answer.value = ResultOf(of, asked.in)
<1>1. answer # None
  BY DEF Answered, None
<1>2. PICK of2 \in DOMAIN Cases : \E in \in Cases[of2] : asked = [of |-> of2, in |-> in]
  BY <1>1 DEF Inv, Asked, Replied
<1> QED BY <1>1, <1>2 DEF Inv, Replied, Answered, Given

(***************************************************************************)
(* Falsifiability: what is refuted is not so.                              *)
(***************************************************************************)

\* An index has a number of functions.
LEMMA CountsFunctions ==
  ASSUME NEW code, F!IsIndex(code)
  PROVE  /\ F!Cardinality(F!Functions(code)) = Cardinality(F!Functions(code))
         /\ Cardinality(F!Functions(code)) \in Nat
<1>1. F!Cardinality(F!Functions(code)) = Cardinality(F!Functions(code))
  BY DEF F!Cardinality, Cardinality
<1>2. IsFiniteSet(F!Functions(code))
  BY DEF F!IsIndex, F!IsFiniteSet, IsFiniteSet
<1>3. Cardinality(F!Functions(code)) \in Nat
  BY <1>2, FS_CardinalityType
<1> QED BY <1>1, <1>3

\* The search of After, step by step.
LEMMA AfterUnfolds ==
  ASSUME NEW n \in Nat, NEW next, NEW from
  PROVE  \E at : /\ at[0] = from
                 /\ \A k \in 1..n : at[k] = at[k - 1] \cup UNION {next[h] : h \in at[k - 1]}
                 /\ F!After(next, from, n) = at[n]
<1> DEFINE Rec(at, m) ==
        at = [k \in 0..m |-> IF k = 0 THEN from
                             ELSE at[k - 1] \cup UNION {next[h] : h \in at[k - 1]}]
           Nums == {m \in Nat : \E at : Rec(at, m)}
<1>1. 0 \in Nums
  <2>1. Rec([k \in 0..0 |-> from], 0)
    OBVIOUS
  <2> QED BY <2>1
<1>2. ASSUME NEW m \in Nat, m \in Nums PROVE m + 1 \in Nums
  <2>1. PICK at : Rec(at, m)
    BY <1>2
  <2> DEFINE new == [k \in 0..m + 1 |-> IF k = m + 1
                                        THEN at[m] \cup UNION {next[h] : h \in at[m]} ELSE at[k]]
  <2>2. \A k \in 0..m + 1 : new[k] = IF k = 0 THEN from
                                   ELSE new[k - 1] \cup UNION {next[h] : h \in new[k - 1]}
    <3>1. CASE m + 1 = 0
      BY <3>1
    <3>2. ASSUME NEW k \in 1..m PROVE new[k] = new[k - 1] \cup UNION {next[h] : h \in new[k - 1]}
      <4>1. k \in 0..m /\ k - 1 \in 0..m /\ k # 0 /\ k # m + 1 /\ k - 1 # m + 1
        BY <3>2
      <4>2. new[k] = at[k] /\ new[k - 1] = at[k - 1]
        BY <4>1
      <4>3. at[k] = at[k - 1] \cup UNION {next[h] : h \in at[k - 1]}
        BY <2>1, <4>1
      <4> HIDE DEF new
      <4> QED BY <4>2, <4>3
    <3>3. new[m + 1] = new[m] \cup UNION {next[h] : h \in new[m]}
      <4>1. new[m] = at[m]
        OBVIOUS
      <4>2. new[m + 1] = at[m] \cup UNION {next[h] : h \in at[m]}
        OBVIOUS
      <4> HIDE DEF new
      <4> QED BY <4>1, <4>2
    <3>4. new[0] = from
      <4>1. at[0] = from
        BY <2>1
      <4> QED BY <4>1
    <3> HIDE DEF new
    <3>5. ASSUME NEW k \in 0..m + 1
          PROVE  new[k] = IF k = 0 THEN from
                          ELSE new[k - 1] \cup UNION {next[h] : h \in new[k - 1]}
      <4>1. k = 0 \/ k \in 1..m \/ (k = m + 1 /\ k - 1 = m /\ k # 0)
        OBVIOUS
      <4>2. k \in 1..m => k # 0
        OBVIOUS
      <4> QED BY <3>2, <3>3, <3>4, <4>1, <4>2
    <3> QED BY <3>5
  <2>3. new = [k \in 0..m + 1 |-> new[k]]
    OBVIOUS
  <2> HIDE DEF new
  <2>4. Rec(new, m + 1)
    BY <2>2, <2>3
  <2> QED BY <2>4
<1>3. PICK at : Rec(at, n)
  <2> HIDE DEF Nums
  <2>1. n \in Nums
    BY <1>1, <1>2, NatInductionOnSets
  <2> QED BY <2>1 DEF Nums
<1> DEFINE search == CHOOSE a : Rec(a, n)
<1>4. Rec(search, n)
  BY <1>3
<1>5. F!After(next, from, n) = search[n]
  BY DEF F!After
<1> HIDE DEF search
<1>6. /\ search[0] = from
      /\ \A k \in 1..n : search[k] = search[k - 1] \cup UNION {next[h] : h \in search[k - 1]}
  <2>1. search[0] = from
    BY <1>4
  <2>2. ASSUME NEW k \in 1..n
        PROVE  search[k] = search[k - 1] \cup UNION {next[h] : h \in search[k - 1]}
    <3>1. k \in 0..n /\ k # 0
      OBVIOUS
    <3> QED BY <1>4, <3>1
  <2> QED BY <2>1, <2>2
<1> QED BY <1>5, <1>6

\* A search comes along every path that is no longer than it.
LEMMA SearchFollowsPaths ==
  ASSUME NEW n \in Nat, NEW next, NEW from, NEW m \in 1..n + 1, NEW path, path[1] \in from,
         \A i \in 1..m - 1 : path[i + 1] = path[i] \/ path[i + 1] \in next[path[i]]
  PROVE  path[m] \in F!After(next, from, n)
<1>1. PICK at : /\ at[0] = from
                /\ \A k \in 1..n : at[k] = at[k - 1] \cup UNION {next[h] : h \in at[k - 1]}
                /\ F!After(next, from, n) = at[n]
  BY AfterUnfolds
<1>2. \A k \in 0..n - 1 : at[k + 1] = at[k] \cup UNION {next[h] : h \in at[k]}
  <2> TAKE k \in 0..n - 1
  <2>1. k + 1 \in 1..n /\ (k + 1) - 1 = k
    OBVIOUS
  <2> QED BY <1>1, <2>1
<1> DEFINE Nums == {k \in Nat : k < m => path[k + 1] \in at[k]}
           U == {j \in Nat : m - 1 + j <= n => path[m] \in at[m - 1 + j]}
<1>3. Nat \subseteq Nums
  <2>1. 0 \in Nums
    BY <1>1
  <2>2. ASSUME NEW k \in Nat, k \in Nums PROVE k + 1 \in Nums
    <3>1. SUFFICES ASSUME k + 1 < m PROVE path[k + 1 + 1] \in at[k + 1]
      OBVIOUS
    <3>2. path[k + 1] \in at[k] /\ k \in 0..n - 1 /\ k + 1 \in 1..m - 1
      BY <2>2, <3>1
    <3> QED BY <1>2, <3>2
  <2> HIDE DEF Nums
  <2> QED BY <2>1, <2>2, NatInductionOnSets
<1>4. path[m] \in at[m - 1]
  <2>1. m - 1 \in Nat /\ m - 1 < m /\ (m - 1) + 1 = m
    OBVIOUS
  <2> QED BY <1>3, <2>1
<1>5. Nat \subseteq U
  <2>1. 0 \in U
    BY <1>4
  <2>2. ASSUME NEW j \in Nat, j \in U PROVE j + 1 \in U
    <3>1. SUFFICES ASSUME m - 1 + (j + 1) <= n PROVE path[m] \in at[m - 1 + (j + 1)]
      OBVIOUS
    <3>2. path[m] \in at[m - 1 + j] /\ m - 1 + j \in 0..n - 1 /\ m - 1 + (j + 1) = m - 1 + j + 1
      BY <2>2, <3>1
    <3> QED BY <1>2, <3>2
  <2> HIDE DEF U
  <2> QED BY <2>1, <2>2, NatInductionOnSets
<1>6. n - (m - 1) \in Nat /\ m - 1 + (n - (m - 1)) = n
  OBVIOUS
<1>7. n - (m - 1) \in U
  BY <1>5, <1>6
<1>8. path[m] \in at[m - 1 + (n - (m - 1))]
  BY <1>6, <1>7
<1> QED BY <1>1, <1>6, <1>8

\* A search stays in what its steps do not leave.
LEMMA SearchStaysWithin ==
  ASSUME NEW n \in Nat, NEW next, NEW from, NEW Within, from \subseteq Within,
         \A h \in Within : next[h] \subseteq Within
  PROVE  F!After(next, from, n) \subseteq Within
<1>1. PICK at : /\ at[0] = from
                /\ \A k \in 1..n : at[k] = at[k - 1] \cup UNION {next[h] : h \in at[k - 1]}
                /\ F!After(next, from, n) = at[n]
  BY AfterUnfolds
<1> DEFINE Nums == {k \in Nat : k <= n => at[k] \subseteq Within}
<1>2. 0 \in Nums
  BY <1>1
<1>3. ASSUME NEW k \in Nat, k \in Nums PROVE k + 1 \in Nums
  <2>1. SUFFICES ASSUME k + 1 <= n PROVE at[k + 1] \subseteq Within
    OBVIOUS
  <2>2. at[k] \subseteq Within /\ k + 1 \in 1..n /\ (k + 1) - 1 = k
    BY <1>3, <2>1
  <2>3. at[k + 1] = at[k] \cup UNION {next[h] : h \in at[k]}
    BY <1>1, <2>2
  <2> QED BY <2>2, <2>3
<1>4. n \in Nums
  <2> HIDE DEF Nums
  <2> QED BY <1>2, <1>3, NatInductionOnSets
<1> QED BY <1>1, <1>4

\* What a parameter can carry, by how far its callers are followed.
LEMMA ParameterUnfolds ==
  ASSUME NEW code
  PROVE  \E up :
           /\ \A f : F!Parameter(code, f) = up[F!MaxCallerDepth][f]
           /\ \A d \in 0..F!MaxCallerDepth : up[d] =
                [g \in F!Functions(code) |->
                    IF d = 0 \/ g \in F!Entries(code) \/ F!Passed(code, g) = {} THEN "tainted"
                    ELSE F!Worst({IF p.value = "parameter" THEN up[d - 1][p.by] ELSE p.value :
                                      p \in F!Passed(code, g)})]
<1> DEFINE Level(d, before) ==
        [g \in F!Functions(code) |->
            IF d = 0 \/ g \in F!Entries(code) \/ F!Passed(code, g) = {} THEN "tainted"
            ELSE F!Worst({IF p.value = "parameter" THEN before[p.by] ELSE p.value :
                              p \in F!Passed(code, g)})]
           l0 == Level(0, <<>>)
           l1 == Level(1, l0)
           l2 == Level(2, l1)
           levels == [d \in 0..2 |-> IF d = 0 THEN l0 ELSE IF d = 1 THEN l1 ELSE l2]
<1>1. \A d \in 0..2 : levels[d] = Level(d, levels[d - 1])
  <2>1. levels[0] = l0 /\ levels[1] = l1 /\ levels[2] = l2
    OBVIOUS
  <2>2. l0 = Level(0, levels[0 - 1])
    OBVIOUS
  <2>3. l1 = Level(1, levels[1 - 1]) /\ l2 = Level(2, levels[2 - 1])
    BY <2>1
  <2> HIDE DEF levels, Level, l0, l1, l2
  <2> QED BY <2>1, <2>2, <2>3
<1>2. levels = [d \in 0..2 |-> Level(d, levels[d - 1])]
  <2>1. levels = [d \in 0..2 |-> levels[d]]
    OBVIOUS
  <2> HIDE DEF levels, Level
  <2> QED BY <1>1, <2>1
<1> DEFINE up == CHOOSE x : x = [d \in 0..2 |-> Level(d, x[d - 1])]
<1>3. up = [d \in 0..2 |-> Level(d, up[d - 1])]
  <2> HIDE DEF levels, Level
  <2> QED BY <1>2
<1>4. \A f : F!Parameter(code, f) = up[2][f]
  BY DEF F!Parameter, F!MaxCallerDepth
<1> HIDE DEF up
<1>5. \A d \in 0..2 : up[d] = Level(d, up[d - 1])
  BY <1>3
<1> QED BY <1>4, <1>5 DEF F!MaxCallerDepth

\* The worst of some values is input if one of them is.
LEMMA InputIsWorst ==
  ASSUME NEW vs, vs \subseteq DOMAIN F!Rank
  PROVE  /\ vs # {} => F!Worst(vs) \in vs
         /\ F!Worst(vs) \in DOMAIN F!Rank
         /\ "tainted" \in vs => F!Worst(vs) = "tainted"
<1>1. DOMAIN F!Rank = {"constant", "sanitized", "tainted"}
  BY DEF F!Rank
<1>2. F!Rank["constant"] = 0 /\ F!Rank["sanitized"] = 1 /\ F!Rank["tainted"] = 2
  BY DEF F!Rank
<1>3. vs # {} => \E v \in vs : \A w \in vs : F!Rank[w] <= F!Rank[v]
  BY <1>1, <1>2
<1>4. vs # {} => F!Worst(vs) \in vs /\ \A w \in vs : F!Rank[w] <= F!Rank[F!Worst(vs)]
  BY <1>3 DEF F!Worst
<1>5. vs = {} => F!Worst(vs) = "constant"
  BY DEF F!Worst
<1> QED BY <1>1, <1>2, <1>4, <1>5

\* What a parameter is said to carry is one of the things a value can be.
LEMMA ParameterCarries ==
  ASSUME NEW code, F!IsIndex(code), NEW up,
         \A d \in 0..F!MaxCallerDepth : up[d] =
             [g \in F!Functions(code) |->
                 IF d = 0 \/ g \in F!Entries(code) \/ F!Passed(code, g) = {} THEN "tainted"
                 ELSE F!Worst({IF p.value = "parameter" THEN up[d - 1][p.by] ELSE p.value :
                                   p \in F!Passed(code, g)})],
         NEW d \in 0..F!MaxCallerDepth, NEW g \in F!Functions(code)
  PROVE  up[d][g] \in DOMAIN F!Rank
<1> DEFINE From(e, f) == {IF p.value = "parameter" THEN up[e - 1][p.by] ELSE p.value :
                             p \in F!Passed(code, f)}
           Nums == {e \in Nat : e <= F!MaxCallerDepth =>
                                \A f \in F!Functions(code) : up[e][f] \in DOMAIN F!Rank}
<1>1. F!MaxCallerDepth = 2 /\ "tainted" \in DOMAIN F!Rank
  BY DEF F!MaxCallerDepth, F!Rank
<1>2. ASSUME NEW e \in 0..F!MaxCallerDepth, NEW f \in F!Functions(code)
      PROVE  up[e][f] = IF e = 0 \/ f \in F!Entries(code) \/ F!Passed(code, f) = {}
                        THEN "tainted" ELSE F!Worst(From(e, f))
  OBVIOUS
<1>3. ASSUME NEW f \in F!Functions(code), NEW p \in F!Passed(code, f)
      PROVE  p.by \in F!Functions(code) /\ p.value \in DOMAIN F!Rank \cup {"parameter"}
  BY DEF F!Passed, F!IsIndex
<1> HIDE DEF From
<1>4. 0 \in Nums
  BY <1>1, <1>2
<1>5. ASSUME NEW e \in Nat, e \in Nums PROVE e + 1 \in Nums
  <2>1. SUFFICES ASSUME e + 1 <= F!MaxCallerDepth, NEW f \in F!Functions(code)
                 PROVE  up[e + 1][f] \in DOMAIN F!Rank
    OBVIOUS
  <2>2. From(e + 1, f) \subseteq DOMAIN F!Rank
    <3>1. \A h \in F!Functions(code) : up[(e + 1) - 1][h] \in DOMAIN F!Rank
      BY <1>1, <1>5, <2>1
    <3> QED BY <1>3, <2>1, <3>1 DEF From
  <2>3. F!Worst(From(e + 1, f)) \in DOMAIN F!Rank
    BY <2>2, InputIsWorst
  <2>4. e + 1 \in 0..F!MaxCallerDepth
    BY <1>1, <2>1
  <2> QED BY <1>1, <1>2, <2>1, <2>3, <2>4
<1>6. d \in Nums
  <2>1. d \in Nat
    BY <1>1
  <2> HIDE DEF Nums
  <2> QED BY <1>4, <1>5, <2>1, NatInductionOnSets
<1> QED BY <1>1, <1>6

\* A parameter that some caller fills with input is never said to carry less.
LEMMA FedCarriesInput ==
  ASSUME NEW code, F!IsIndex(code), code.outside = {}, NEW g \in F!Fed(code)
  PROVE  F!Parameter(code, g) = "tainted"
<1>1. PICK up : /\ \A f : F!Parameter(code, f) = up[F!MaxCallerDepth][f]
                /\ \A d \in 0..F!MaxCallerDepth : up[d] =
                     [h \in F!Functions(code) |->
                         IF d = 0 \/ h \in F!Entries(code) \/ F!Passed(code, h) = {} THEN "tainted"
                         ELSE F!Worst({IF p.value = "parameter" THEN up[d - 1][p.by] ELSE p.value :
                                           p \in F!Passed(code, h)})]
  BY ParameterUnfolds
<1> DEFINE From(e, f) == {IF p.value = "parameter" THEN up[e - 1][p.by] ELSE p.value :
                             p \in F!Passed(code, f)}
           Carriers == {f \in F!Functions(code) : \A d \in 0..F!MaxCallerDepth : up[d][f] = "tainted"}
           Direct == {f \in F!Functions(code) :
            \/ f \in F!Entries(code)
            \/ \E c \in code.outside : c.name = code.fn[f].name /\ c.value = "tainted"
            \/ \E h \in F!Functions(code) : \E c \in code.fn[h].passes :
                  c.name = code.fn[f].name /\ c.value = "tainted"}
           On == [h \in F!Functions(code) |->
                  {f \in F!Functions(code) : \E c \in code.fn[h].passes :
                      c.name = code.fn[f].name /\ c.value = "parameter"}]
<1>2. F!MaxCallerDepth = 2
  BY DEF F!MaxCallerDepth
<1>3. ASSUME NEW e \in 0..F!MaxCallerDepth, NEW f \in F!Functions(code)
      PROVE  up[e][f] = IF e = 0 \/ f \in F!Entries(code) \/ F!Passed(code, f) = {}
                        THEN "tainted" ELSE F!Worst(From(e, f))
  BY <1>1
<1>4. ASSUME NEW e \in 1..F!MaxCallerDepth, NEW f \in F!Functions(code)
      PROVE  From(e, f) \subseteq DOMAIN F!Rank
  <2>1. e - 1 \in 0..F!MaxCallerDepth
    BY <1>2
  <2>2. \A h \in F!Functions(code) : up[e - 1][h] \in DOMAIN F!Rank
    BY <1>1, <2>1, ParameterCarries
  <2>3. ASSUME NEW p \in F!Passed(code, f)
        PROVE  p.by \in F!Functions(code) /\ p.value \in DOMAIN F!Rank \cup {"parameter"}
    BY DEF F!Passed, F!IsIndex
  <2> QED BY <2>2, <2>3
<1>5. ASSUME NEW f \in F!Functions(code), NEW h \in F!Functions(code), NEW c \in code.fn[h].passes,
             c.name = code.fn[f].name
      PROVE  [by |-> h, value |-> c.value] \in F!Passed(code, f)
  BY <1>5 DEF F!Passed
<1> HIDE DEF From
<1>6. Direct \subseteq Carriers
  <2> SUFFICES ASSUME NEW f \in Direct, NEW d \in 0..F!MaxCallerDepth PROVE up[d][f] = "tainted"
    OBVIOUS
  <2>1. CASE d = 0 \/ f \in F!Entries(code) \/ F!Passed(code, f) = {}
    BY <1>3, <2>1
  <2>2. CASE d # 0 /\ f \notin F!Entries(code) /\ F!Passed(code, f) # {}
    <3>1. PICK h \in F!Functions(code) : \E c \in code.fn[h].passes :
                  c.name = code.fn[f].name /\ c.value = "tainted"
      BY <2>2
    <3>2. PICK c \in code.fn[h].passes : c.name = code.fn[f].name /\ c.value = "tainted"
      BY <3>1
    <3>3. [by |-> h, value |-> "tainted"] \in F!Passed(code, f)
      BY <1>5, <3>2
    <3>4. "tainted" \in From(d, f)
      <4> DEFINE p == [by |-> h, value |-> "tainted"]
      <4>1. p.value = "tainted" /\ p \in F!Passed(code, f)
        BY <3>3
      <4> QED BY <4>1 DEF From
    <3>5. d \in 1..F!MaxCallerDepth
      BY <1>2, <2>2
    <3>6. F!Worst(From(d, f)) = "tainted"
      BY <1>4, <3>4, <3>5, InputIsWorst
    <3> QED BY <1>3, <2>2, <3>6
  <2> QED BY <2>1, <2>2
<1>7. \A h \in Carriers : On[h] \subseteq Carriers
  <2> SUFFICES ASSUME NEW h \in Carriers, NEW f \in On[h], NEW d \in 0..F!MaxCallerDepth
               PROVE  f \in F!Functions(code) /\ up[d][f] = "tainted"
    OBVIOUS
  <2>1. f \in F!Functions(code)
    OBVIOUS
  <2>2. CASE d = 0 \/ f \in F!Entries(code) \/ F!Passed(code, f) = {}
    BY <1>3, <2>1, <2>2
  <2>3. CASE d # 0 /\ f \notin F!Entries(code) /\ F!Passed(code, f) # {}
    <3>1. PICK c \in code.fn[h].passes : c.name = code.fn[f].name /\ c.value = "parameter"
      OBVIOUS
    <3> DEFINE p == [by |-> h, value |-> "parameter"]
    <3>2. p \in F!Passed(code, f) /\ p.value = "parameter" /\ p.by = h
      BY <1>5, <2>1, <3>1
    <3>3. d \in 1..F!MaxCallerDepth /\ d - 1 \in 0..F!MaxCallerDepth
      BY <1>2, <2>3
    <3>4. up[d - 1][h] = "tainted"
      BY <3>3
    <3>5. "tainted" \in From(d, f)
      BY <3>2, <3>4 DEF From
    <3>6. F!Worst(From(d, f)) = "tainted"
      BY <1>4, <2>1, <3>3, <3>5, InputIsWorst
    <3> QED BY <1>3, <2>1, <2>3, <3>6
  <2> QED BY <2>1, <2>2, <2>3
<1>8. F!Cardinality(F!Functions(code)) \in Nat
  BY CountsFunctions
<1>9. F!Fed(code) = F!After(On, Direct, F!Cardinality(F!Functions(code)))
  BY DEF F!Fed
<1>10. F!Fed(code) \subseteq Carriers
  <2> HIDE DEF Carriers, On, Direct
  <2> QED BY <1>6, <1>7, <1>8, <1>9, SearchStaysWithin
<1> QED BY <1>1, <1>2, <1>10

\* Where code really runs from one function to another, the search comes too, in an
\* index without namesakes that call each other.
LEMMA RunsAreChains ==
  ASSUME NEW code, F!IsIndex(code), F!NoNamesakes(code),
         NEW f, NEW g, F!Runs(code, f, g)
  PROVE  F!Chain(code, f, g)
<1> DEFINE Count == Cardinality(F!Functions(code))
           next == [h \in F!Functions(code) |-> F!Callees(code, h)]
<1>1. Count \in Nat /\ F!Cardinality(F!Functions(code)) = Count
  BY CountsFunctions
<1>2. PICK n \in 1..Count : \E path \in [1..n -> F!Functions(code)] :
        /\ path[1] = f /\ path[n] = g
        /\ \A i \in 1..n - 1 : path[i + 1] \in code.fn[path[i]].runs
  BY <1>1 DEF F!Runs
<1>3. PICK path \in [1..n -> F!Functions(code)] :
        /\ path[1] = f /\ path[n] = g
        /\ \A i \in 1..n - 1 : path[i + 1] \in code.fn[path[i]].runs
  BY <1>2
<1>4. ASSUME NEW a \in F!Functions(code), NEW b \in F!Functions(code), b \in code.fn[a].runs
      PROVE  b = a \/ b \in next[a]
  <2>1. code.fn[b].name \in code.fn[a].bare \cup code.fn[a].attr
    BY <1>4 DEF F!IsIndex
  <2>2. CASE code.fn[b].name = code.fn[a].name /\ a # b
    <3>1. code.fn[b].name \in code.fn[a].attr
      BY <1>4, <2>2 DEF F!NoNamesakes
    <3> QED BY <3>1 DEF F!Callees, F!Refs
  <2>3. CASE code.fn[b].name # code.fn[a].name
    BY <2>1, <2>3 DEF F!Callees, F!Refs
  <2> QED BY <2>2, <2>3
<1>5. \A i \in 1..n - 1 : path[i + 1] = path[i] \/ path[i + 1] \in next[path[i]]
  <2> TAKE i \in 1..n - 1
  <2>1. i \in 1..n /\ i + 1 \in 1..n
    BY <1>1
  <2>2. path[i] \in F!Functions(code) /\ path[i + 1] \in F!Functions(code)
    BY <2>1
  <2> HIDE DEF next
  <2> QED BY <1>3, <1>4, <2>2
<1> HIDE DEF next, Count
<1>6. path[n] \in F!After(next, {f}, Count)
  <2>1. n \in 1..Count + 1 /\ path[1] \in {f}
    BY <1>1, <1>3
  <2> QED BY <1>1, <1>5, <2>1, SearchFollowsPaths
<1> QED BY <1>1, <1>3, <1>6 DEF F!Chain, next

\* What the attempts refute is not so.
LEMMA CallgraphSound ==
  ASSUME NEW code, F!IsIndex(code), F!NoNamesakes(code), NEW at \in F!Functions(code), NEW text,
         F!Callgraph(code, text, at) = "refuted"
  PROVE  LET source == F!Resolve(code, text, code.fn[at].file)
         IN source # 0 /\ ~F!Runs(code, source, at)
<1> DEFINE source == F!Resolve(code, text, code.fn[at].file)
           from == IF text.names = <<>> THEN at ELSE source
<1>1. from # 0 /\ ~F!Chain(code, from, at)
  BY DEF F!Callgraph
<1>2. text.names # <<>>
  <2>1. SUFFICES ASSUME text.names = <<>> PROVE F!Chain(code, at, at)
    BY <1>1
  <2>2. PICK n \in Nat : n = F!Cardinality(F!Functions(code))
    BY CountsFunctions
  <2> DEFINE next == [h \in F!Functions(code) |-> F!Callees(code, h)]
             path == [i \in 1..1 |-> at]
  <2>3. path[1] \in F!After(next, {at}, n)
    <3>1. 1 \in 1..n + 1 /\ path[1] \in {at}
      BY <2>2
    <3>2. \A i \in 1..1 - 1 : path[i + 1] = path[i] \/ path[i + 1] \in next[path[i]]
      OBVIOUS
    <3> HIDE DEF next, path
    <3> QED BY <2>2, <3>1, <3>2, SearchFollowsPaths
  <2> QED BY <2>2, <2>3 DEF F!Chain
<1> HIDE DEF source
<1> QED BY <1>1, <1>2, RunsAreChains DEF source

\* Code that is never used is not reached from an entry point.
LEMMA ReachabilitySound ==
  ASSUME NEW code, F!IsIndex(code), F!NoNamesakes(code), NEW at \in F!Functions(code),
         F!Reachability(code, at) = "refuted"
  PROVE  \A f \in F!Entries(code) : ~F!Runs(code, f, at)
<1>1. ~F!FromEntry(code, at)
  BY DEF F!Reachability
<1> QED BY <1>1, RunsAreChains DEF F!FromEntry

\* A parameter whose callers pass no input carries none.
LEMMA SanitizerSound ==
  ASSUME NEW code, F!IsIndex(code), code.outside = {}, NEW at \in F!Functions(code), NEW category,
         F!Sanitizer(code, category, at) = "refuted"
  PROVE  LET value == code.fn[at].body[F!SinkCall(code, at)].value
         IN value # "tainted" /\ (value = "parameter" => at \notin F!Fed(code))
<1> DEFINE value == code.fn[at].body[F!SinkCall(code, at)].value
<1>1. (IF value = "parameter" THEN F!Parameter(code, at) ELSE value) # "tainted"
  BY DEF F!Sanitizer
<1> HIDE DEF value
<1>2. value # "tainted" /\ (value = "parameter" => at \notin F!Fed(code))
  BY <1>1, FedCarriesInput
<1> QED BY <1>2 DEF value

\* An attempt is among a finding's only if it says so of the finding's function.
LEMMA AttemptsOfAssess ==
  ASSUME NEW code, NEW finding, finding.at # 0
  PROVE  LET a == F!Assess(code, finding).attempts
         IN /\ "callgraph" \in DOMAIN a /\ a["callgraph"] = "refuted" =>
                   F!Callgraph(code, finding.source, finding.at) = "refuted"
            /\ "sanitizer" \in DOMAIN a /\ a["sanitizer"] = "refuted" =>
                   F!Sanitizer(code, finding.category, finding.at) = "refuted"
            /\ "reachability" \in DOMAIN a /\ a["reachability"] = "refuted" =>
                   F!Reachability(code, finding.at) = "refuted"
<1> DEFINE a == F!Assess(code, finding).attempts
<1>1. CASE ~finding.verified
  <2>1. a = <<>>
    BY <1>1 DEF F!Assess
  <2>2. DOMAIN a = {}
    BY <2>1
  <2> QED BY <2>2
<1>2. CASE finding.verified /\ finding.complete
  <2> DEFINE own == IF ~finding.python THEN {} ELSE {"callgraph", "sanitizer", "reachability"}
             tried == own \cup IF finding.claim.verdict = "none" THEN {} ELSE {"devil"}
  <2>1. a = F!AssessComplete(code, finding).attempts
    BY <1>2 DEF F!Assess
  <2>2. a = [m \in tried |->
            CASE m = "devil" -> F!Devil(finding.claim)
              [] m # "devil" /\ finding.at = 0 -> "inconclusive"
              [] m = "callgraph" /\ finding.at # 0 -> F!Callgraph(code, finding.source, finding.at)
              [] m = "sanitizer" /\ finding.at # 0 -> F!Sanitizer(code, finding.category, finding.at)
              [] m = "reachability" /\ finding.at # 0 -> F!Reachability(code, finding.at)]
    BY <2>1 DEF F!AssessComplete
  <2> HIDE DEF a, tried
  <2>3. \A m \in DOMAIN a : m \in tried
    BY <2>2
  <2> QED BY <2>2, <2>3 DEF a
<1>3. CASE finding.verified /\ ~finding.complete
  <2> DEFINE Result(m) == IF m = "reachability" THEN F!Reachability(code, finding.at)
                          ELSE F!Sanitizer(code, finding.category, finding.at)
             tried == IF finding.at = 0 \/ ~finding.python \/ finding.category = "other" THEN {}
                      ELSE {"reachability", "sanitizer"}
  <2>1. a = F!AssessIncomplete(code, finding).attempts
    BY <1>3 DEF F!Assess
  <2>2. a = [m \in {x \in tried : Result(x) = "refuted"} |-> "refuted"]
    BY <2>1 DEF F!AssessIncomplete
  <2>3. \A m \in DOMAIN a : m \in {"reachability", "sanitizer"} /\ Result(m) = "refuted"
    BY <2>2
  <2> HIDE DEF a
  <2> QED BY <2>3 DEF a
<1> QED BY <1>1, <1>2, <1>3

\* A status that says something ran holds no refutation.
LEMMA StandingIsUnrefuted ==
  ASSUME NEW code, NEW finding,
         F!Assess(code, finding).status \in {"reachable", "corroborated"}
  PROVE  LET a == F!Assess(code, finding).attempts
         IN \A m \in DOMAIN a : a[m] # "refuted"
<1> DEFINE a == F!Assess(code, finding).attempts
<1>1. finding.verified /\ finding.complete
  BY DEF F!Assess, F!AssessIncomplete
<1>2. F!Assess(code, finding) = F!AssessComplete(code, finding)
  BY <1>1 DEF F!Assess
<1>3. F!Assess(code, finding).status = F!Decide(a, finding.python)
  BY <1>2 DEF F!AssessComplete
<1> HIDE DEF a
<1>4. "refuted" \notin {a[m] : m \in DOMAIN a}
  BY <1>3 DEF F!Decide
<1> QED BY <1>4 DEF a

\* An assessment of any index and finding is as NothingLiveIsRefuted asks.
LEMMA AssessmentSound ==
  ASSUME F!IsIndex(asked.in.code),
         asked.in.finding.at \in F!Functions(asked.in.code) \cup {0},
         answer.value = F!Assess(asked.in.code, asked.in.finding)
  PROVE  NothingLiveIsRefuted
<1> DEFINE code == asked.in.code
           finding == asked.in.finding
           at == finding.at
           a == F!Assess(code, finding).attempts
           source == F!Resolve(code, finding.source, code.fn[at].file)
           value == code.fn[at].body[F!SinkCall(code, at)].value
           Refuted(m) == m \in DOMAIN a /\ a[m] = "refuted"
<1>1. SUFFICES ASSUME F!NoNamesakes(code), code.outside = {}, at # 0
               PROVE  /\ Refuted("callgraph") => source # 0 /\ ~F!Runs(code, source, at)
                      /\ Refuted("reachability") => \A f \in F!Entries(code) : ~F!Runs(code, f, at)
                      /\ Refuted("sanitizer") =>
                             value # "tainted" /\ (value = "parameter" => at \notin F!Fed(code))
                      /\ F!Assess(code, finding).status \in {"reachable", "corroborated"} =>
                             \A m \in F!Methods : ~Refuted(m)
  <2>1. answer.value.attempts = a /\ answer.value.status = F!Assess(code, finding).status
    OBVIOUS
  <2> QED BY <2>1 DEF NothingLiveIsRefuted
<1>2. at \in F!Functions(code)
  BY <1>1
<1>3. Refuted("callgraph") => source # 0 /\ ~F!Runs(code, source, at)
  BY <1>1, <1>2, AttemptsOfAssess, CallgraphSound
<1>4. Refuted("reachability") => \A f \in F!Entries(code) : ~F!Runs(code, f, at)
  BY <1>1, <1>2, AttemptsOfAssess, ReachabilitySound
<1>5. Refuted("sanitizer") =>
          value # "tainted" /\ (value = "parameter" => at \notin F!Fed(code))
  BY <1>1, <1>2, AttemptsOfAssess, SanitizerSound
<1>6. F!Assess(code, finding).status \in {"reachable", "corroborated"} =>
          \A m \in F!Methods : ~Refuted(m)
  BY StandingIsUnrefuted
<1> QED BY <1>3, <1>4, <1>5, <1>6

\* No finding that some run of the code reaches, or that input reaches, is refuted by an
\* attempt that says it is not (falsify.assess).
THEOREM AssessmentsAreSound == Spec => []NothingLiveIsRefuted
<1>1. Inv => NothingLiveIsRefuted
  <2> SUFFICES ASSUME Inv, Answered("assess") PROVE NothingLiveIsRefuted
    BY DEF NothingLiveIsRefuted
  <2>1. asked.in \in Given("assess") /\ answer.value = F!Assess(asked.in.code, asked.in.finding)
    BY AnsweredAsFound DEF ResultOf
  <2> QED BY <2>1, AssessAssumption, AssessmentSound
<1> QED BY <1>1, InvHolds, PTL

(***************************************************************************)
(* What-if: a promising patch took the finding away and weakened nothing.  *)
(***************************************************************************)

\* What is drawn from one item or none of every position is empty only if there is none.
LEMMA FlattenEmpty ==
  ASSUME NEW Vals, NEW seqs \in Seq(Seq(Vals)), FlattenSeq(seqs) = <<>>
  PROVE  \A i \in DOMAIN seqs : seqs[i] = <<>>
<1> SUFFICES ASSUME NEW i \in DOMAIN seqs PROVE seqs[i] = <<>>
  OBVIOUS
<1>1. Range(FlattenSeq(seqs)) = UNION {Range(seqs[j]) : j \in DOMAIN seqs}
  BY FlattenMembers
<1>2. Range(FlattenSeq(seqs)) = {}
  BY DEF Range
<1>3. seqs[i] \in Seq(Vals)
  OBVIOUS
<1>4. \A x : x \notin Range(seqs[i])
  BY <1>1, <1>2
<1>5. DOMAIN seqs[i] = {}
  BY <1>4 DEF Range
<1> QED BY <1>3, <1>5

\* A change without drift has no line that weakens a control, unless it moves it.
LEMMA NoDriftNothingWeaker ==
  ASSUME NEW diff, IsList(diff), \A b \in Range(diff) : IsList(b.lines) /\ ~b.deleted,
         D!DriftOf(diff) = <<>>
  PROVE  \A b \in Range(diff) : \A l \in Range(b.lines) : D!Breaks(diff, b.file, l) = {}
<1> DEFINE First(rules) == CHOOSE i \in rules : \A j \in rules : i <= j
           Item(b, rules) == IF rules = {} THEN <<>>
                             ELSE <<[file |-> b.file, rule |-> D!Rules[First(rules)].rule]>>
           Items(b) == [i \in DOMAIN b.lines |-> Item(b, D!Breaks(diff, b.file, b.lines[i]))]
           all == [i \in DOMAIN diff |-> IF diff[i].deleted THEN <<>> ELSE FlattenSeq(Items(diff[i]))]
           Kinds == {[file |-> b.file, rule |-> D!Rules[First(rules)].rule] :
                         b \in Range(diff), rules \in SUBSET DOMAIN D!Rules}
<1>1. FlattenSeq(all) = <<>>
  BY DEF D!DriftOf, D!FlattenSeq, FlattenSeq
<1>2. ASSUME NEW b \in Range(diff)
      PROVE  /\ Items(b) \in Seq(Seq(Kinds))
             /\ FlattenSeq(Items(b)) \in Seq(Kinds)
  <2>1. ASSUME NEW i \in DOMAIN b.lines PROVE Items(b)[i] \in Seq(Kinds)
    <3> DEFINE rules == D!Breaks(diff, b.file, b.lines[i])
               item == [file |-> b.file, rule |-> D!Rules[First(rules)].rule]
    <3>1. rules \in SUBSET DOMAIN D!Rules
      BY DEF D!Breaks
    <3>2. item \in Kinds
      <4> HIDE DEF rules, First
      <4> QED BY <3>1
    <3>3. Items(b)[i] = IF rules = {} THEN <<>> ELSE <<item>>
      OBVIOUS
    <3> HIDE DEF Items, rules, item, Kinds
    <3> QED BY <3>2, <3>3
  <2>2. b.lines \in Seq(Range(b.lines))
    BY DEF IsList
  <2>3. Items(b) \in Seq(Seq(Kinds))
    <3>1. DOMAIN b.lines = 1..Len(b.lines) /\ Len(b.lines) \in Nat
      BY <2>2
    <3> DEFINE its == Items(b)
    <3>2. its = [i \in 1..Len(b.lines) |-> its[i]]
      BY <3>1
    <3>3. \A i \in 1..Len(b.lines) : its[i] \in Seq(Kinds)
      <4> HIDE DEF Items, Kinds
      <4> QED BY <2>1, <3>1
    <3> HIDE DEF its, Kinds
    <3>4. its \in Seq(Seq(Kinds))
      BY <3>1, <3>2, <3>3
    <3> QED BY <3>4 DEF its
  <2> HIDE DEF Items, Kinds
  <2> QED BY <2>3, FlattenMembers
<1>3. all \in Seq(Seq(Kinds))
  <2>1. ASSUME NEW i \in DOMAIN diff PROVE all[i] \in Seq(Kinds)
    <3>1. diff[i] \in Range(diff)
      BY DEF Range
    <3>2. all[i] = FlattenSeq(Items(diff[i]))
      BY <3>1
    <3> HIDE DEF all, Items, Kinds
    <3> QED BY <1>2, <3>1, <3>2
  <2>2. DOMAIN diff = 1..Len(diff) /\ Len(diff) \in Nat
    BY DEF IsList
  <2>3. all = [i \in 1..Len(diff) |-> all[i]]
    BY <2>2
  <2> HIDE DEF all, Items, Kinds
  <2> QED BY <2>1, <2>2, <2>3
<1>4. ASSUME NEW b \in Range(diff), NEW l \in Range(b.lines) PROVE D!Breaks(diff, b.file, l) = {}
  <2>1. PICK i \in DOMAIN diff : b = diff[i]
    BY DEF Range
  <2>2. PICK j \in DOMAIN b.lines : l = b.lines[j]
    BY DEF Range
  <2>3. all[i] = FlattenSeq(Items(b)) /\ i \in DOMAIN all
    BY <2>1
  <2>4. FlattenSeq(Items(b)) = <<>>
    <3> HIDE DEF all, Items, Kinds
    <3> QED BY <1>1, <1>3, <2>3, FlattenEmpty
  <2>5. j \in DOMAIN Items(b)
    OBVIOUS
  <2>6. Items(b)[j] = <<>>
    <3> HIDE DEF all, Items, Kinds
    <3> QED BY <1>2, <2>4, <2>5, FlattenEmpty
  <2>7. Items(b)[j] = Item(b, D!Breaks(diff, b.file, l))
    BY <2>2
  <2> HIDE DEF Items, all
  <2> QED BY <2>6, <2>7
<1> QED BY <1>4

\* What-if simulations and audits look for the same drift.
LEMMA SameDrift == ASSUME NEW diff PROVE W!D!DriftOf(diff) = D!DriftOf(diff)
BY DEF W!D!DriftOf, D!DriftOf, W!D!FlattenSeq, D!FlattenSeq, W!D!Breaks, D!Breaks,
   W!D!AddedTo, D!AddedTo, W!D!Range, D!Range, W!D!Rules, D!Rules

\* A patch that is tried is as PromisingMeansFixed asks.
LEMMA PatchSound ==
  ASSUME asked.in \in Given("patch"), answer.value = W!TryPatch(asked.in)
  PROVE  PromisingMeansFixed
<1> DEFINE in == asked.in
           v == answer.value
           before == W!Scanned(in.before)
           after == W!Scanned(in.after)
           matched == IF in.immune.semgrep /\ ~in.immune.fails THEN in.immune.matched ELSE {}
           target == IF in.finding.rule # "none"
                     THEN \E k \in before \ after : k.rule = in.finding.rule ELSE ~in.cited
           tests == IF in.sandbox.on /\ ~in.sandbox.fails THEN W!RunTests(in.sandbox) ELSE W!NoTests
           weaker == D!DriftOf(in.patch.diff)
<1>1. SUFFICES ASSUME Answered("patch"), v.status = "ok", v.verdict = "promising", Measured(in)
      PROVE  /\ ~in.cited
             /\ in.finding.key \notin in.after.there
             /\ in.after.there \subseteq in.before.there
             /\ in.immune.semgrep /\ ~in.immune.fails => in.immune.matched = {}
             /\ \A b \in Range(in.patch.diff) : \A l \in Range(b.lines) :
                    (\E r \in Range(D!Rules) : r.rule \in l.shows /\ r.side = l.side) =>
                        l.side = "-" /\ \E c \in Range(in.patch.diff) : \E m \in Range(c.lines) :
                                           c.file = b.file /\ m.side = "+" /\ m.text = l.text
             /\ in.sandbox.on /\ in.sandbox.runner /\ ~in.sandbox.fails =>
                    \A t \in DOMAIN in.sandbox.before.tests :
                        in.sandbox.before.tests[t] = "PASSED" => in.sandbox.after.tests[t] = "PASSED"
  BY DEF PromisingMeansFixed
<1>2. v.verdict = W!Verdict(target, in.cited, after \ before, weaker, matched, tests)
  <2>1. W!TryPatch(in).status = "ok"
    BY <1>1
  <2> DEFINE found == W!D!DriftOf(in.patch.diff)
             stops == ~in.cloned \/ ~in.patch.applies \/ in.before.stopped \/ in.after.stopped
             good == [status |-> "ok", gone |-> before \ after, appeared |-> after \ before,
                      weakened |-> found, tests |-> tests,
                      verdict |-> W!Verdict(target, in.cited, after \ before, found, matched, tests)]
  <2>2. W!TryPatch(in) = IF ~W!PatchAllowed(in.patch) THEN [status |-> "refused"]
                         ELSE IF stops THEN [status |-> "error"] ELSE good
    BY DEF W!TryPatch
  <2>3. v = good
    <3>1. v = W!TryPatch(in)
      OBVIOUS
    <3> HIDE DEF good, stops, in, v
    <3> QED BY <2>1, <2>2, <3>1
  <2>4. v.verdict = W!Verdict(target, in.cited, after \ before, found, matched, tests)
    <3> HIDE DEF before, after, found, tests, target, matched, v
    <3> QED BY <2>3
  <2> QED BY <2>4, SameDrift
<1>3. target /\ ~in.cited /\ after \subseteq before /\ weaker = <<>> /\ matched = {} /\ ~tests.regressed
  <2> HIDE DEF target, before, after, weaker, matched, tests
  <2> QED BY <1>1, <1>2 DEF W!Verdict
<1>4. before = in.before.there /\ after = in.after.there
  BY <1>1, PatchAssumption DEF Measured, W!Scanned
<1>5. in.finding.key \notin in.after.there
  <2>1. CASE in.finding.rule = "none"
    BY <2>1, PatchAssumption
  <2>2. CASE in.finding.rule # "none"
    <3>1. PICK k \in before \ after : k.rule = in.finding.rule
      BY <1>3, <2>2
    <3>2. k = in.finding.key
      BY <3>1, <1>4, <1>1 DEF Measured
    <3> QED BY <3>1, <3>2, <1>4
  <2> QED BY <2>1, <2>2
<1>6. ASSUME NEW b \in Range(in.patch.diff), NEW l \in Range(b.lines),
             NEW r \in Range(D!Rules), r.rule \in l.shows, r.side = l.side
      PROVE  l.side = "-" /\ \E c \in Range(in.patch.diff) : \E m \in Range(c.lines) :
                                c.file = b.file /\ m.side = "+" /\ m.text = l.text
  <2>1. D!Breaks(in.patch.diff, b.file, l) = {}
    BY <1>3, <1>1, PatchAssumption, NoDriftNothingWeaker DEF Measured
  <2>2. PICK i \in DOMAIN D!Rules : r = D!Rules[i]
    BY DEF Range
  <2>3. l.side = "-" /\ l.text \in D!AddedTo(in.patch.diff, b.file)
    BY <2>1, <2>2, <1>6 DEF D!Breaks
  <2> QED BY <2>3 DEF D!AddedTo, D!Range, Range
<1>7. ASSUME in.sandbox.on, in.sandbox.runner, ~in.sandbox.fails,
             NEW t \in DOMAIN in.sandbox.before.tests, in.sandbox.before.tests[t] = "PASSED"
      PROVE  in.sandbox.after.tests[t] = "PASSED"
  <2>1. ~W!RunTests(in.sandbox).regressed
    BY <1>3, <1>7
  <2>2. W!TestResults(in.sandbox.before).tests = in.sandbox.before.tests
        /\ W!TestResults(in.sandbox.after).tests = in.sandbox.after.tests
    BY <1>1 DEF W!TestResults, Measured
  <2>3. ~(in.sandbox.after.tests[t] \in {"FAILED", "ERROR"})
    <3>1. t \in DOMAIN in.sandbox.after.tests
      BY PatchAssumption
    <3> QED BY <2>1, <2>2, <1>7, <3>1 DEF W!RunTests
  <2>4. in.sandbox.after.tests[t] # "absent"
    BY <1>1, <1>7 DEF Measured
  <2>5. in.sandbox.after.tests[t] \in {"PASSED", "FAILED", "ERROR", "absent"}
    BY PatchAssumption DEF Range
  <2> QED BY <2>3, <2>4, <2>5
<1>8. in.immune.semgrep /\ ~in.immune.fails => in.immune.matched = {}
  BY <1>3
<1> HIDE DEF in, v, before, after
<1> QED BY <1>3, <1>4, <1>5, <1>6, <1>7, <1>8

\* A patch that is called promising took its finding away, brought no other, broke no
\* test and weakened no control (whatif.try_patch).
THEOREM PromisesAreKept == Spec => []PromisingMeansFixed
<1>1. Inv => PromisingMeansFixed
  <2> SUFFICES ASSUME Inv, Answered("patch") PROVE PromisingMeansFixed
    BY DEF PromisingMeansFixed
  <2>1. asked.in \in Given("patch") /\ answer.value = W!TryPatch(asked.in)
    BY AnsweredAsFound DEF ResultOf
  <2> QED BY <2>1, PatchAssumption, PatchSound
<1> QED BY <1>1, InvHolds, PTL

(***************************************************************************)
(* The audit that is stored: only what was seen counts.                    *)
(***************************************************************************)

\* A row that nothing speaks for is nothing, and one that is verified was seen.
SoundRow(in, r) ==
  /\ {"status", "on_path", "verified", "at", "line"} \subseteq DOMAIN r
  /\ r.verified \in BOOLEAN /\ r.on_path \in BOOLEAN
  /\ r.verified => in.checkout /\ r.at # 0 /\ r.line = r.at
  /\ ~r.verified => r.status = "none"
  /\ r.on_path => r.verified

\* A claim that may become a verified row was seen.
SoundClaim(in, f) ==
  /\ f.verified \in BOOLEAN /\ f.snippet \in BOOLEAN
  /\ f.verified /\ f.snippet => in.checkout /\ f.at # 0 /\ f.line = f.at

\* A claim is complete.
Complete(f) == /\ {"at", "line", "snippet", "verified"} \subseteq DOMAIN f
               /\ f.snippet \in BOOLEAN /\ f.verified \in BOOLEAN

\* A sound claim makes a sound row.
LEMMA SoundRowOfClaim ==
  ASSUME NEW in, NEW f, NEW source, SoundClaim(in, f)
  PROVE  SoundRow(in, S!FindingFromDict(f, source))
BY DEF SoundClaim, SoundRow, S!FindingFromDict

\* A claim that was looked up in the checkout is sound.
LEMMA CheckedIsSound ==
  ASSUME NEW in, in.checkout, NEW found, IsList(found), \A f \in Range(found) : Complete(f)
  PROVE  /\ S!CheckEvidence(found) \in Seq(Range(S!CheckEvidence(found)))
         /\ \A f \in Range(S!CheckEvidence(found)) : SoundClaim(in, f)
<1> DEFINE c == S!CheckEvidence(found)
<1>1. DOMAIN found = 1..Len(found) /\ Len(found) \in Nat
  BY DEF IsList
<1>2. c \in Seq(Range(c))
  <2>1. c = [i \in 1..Len(found) |-> c[i]]
    BY <1>1 DEF S!CheckEvidence
  <2> HIDE DEF c
  <2> QED BY <1>1, <2>1, ListOf DEF IsList
<1>3. ASSUME NEW i \in DOMAIN found PROVE SoundClaim(in, c[i])
  <2> DEFINE f == found[i]
  <2>1. Complete(f)
    BY DEF Range
  <2>2. c[i] = IF f.snippet THEN [f EXCEPT !.line = f.at, !.verified = f.verified /\ f.at # 0]
               ELSE [f EXCEPT !.line = 0]
    BY DEF S!CheckEvidence
  <2> HIDE DEF f, c
  <2> QED BY <2>1, <2>2 DEF Complete, SoundClaim
<1>4. DOMAIN c = DOMAIN found
  BY DEF S!CheckEvidence
<1> HIDE DEF c
<1>5. \A f \in Range(c) : SoundClaim(in, f)
  BY <1>3, <1>4 DEF Range
<1> QED BY <1>2, <1>5 DEF c

\* So is one that was not looked up for want of a checkout.
LEMMA UncheckableIsSound ==
  ASSUME NEW in, NEW found, IsList(found), \A f \in Range(found) : Complete(f)
  PROVE  /\ S!Uncheckable(found) \in Seq(Range(S!Uncheckable(found)))
         /\ \A f \in Range(S!Uncheckable(found)) : SoundClaim(in, f)
<1> DEFINE c == S!Uncheckable(found)
<1>1. DOMAIN found = 1..Len(found) /\ Len(found) \in Nat
  BY DEF IsList
<1>2. c \in Seq(Range(c))
  <2>1. c = [i \in 1..Len(found) |-> c[i]]
    BY <1>1 DEF S!Uncheckable
  <2> HIDE DEF c
  <2> QED BY <1>1, <2>1, ListOf DEF IsList
<1>3. ASSUME NEW i \in DOMAIN found PROVE SoundClaim(in, c[i])
  <2> DEFINE f == found[i]
  <2>1. Complete(f)
    BY DEF Range
  <2>2. c[i] = [f EXCEPT !.line = 0, !.verified = FALSE]
    BY DEF S!Uncheckable
  <2> HIDE DEF f, c
  <2> QED BY <2>1, <2>2 DEF Complete, SoundClaim
<1>4. DOMAIN c = DOMAIN found
  BY DEF S!Uncheckable
<1> HIDE DEF c
<1>5. \A f \in Range(c) : SoundClaim(in, f)
  BY <1>3, <1>4 DEF Range
<1> QED BY <1>2, <1>5 DEF c

\* What the scanners found is seen.
LEMMA ScannedIsSound ==
  ASSUME NEW in, NEW told, IsList(in.rules), \A f \in Range(in.rules) : Complete(f),
         in.checkout \in BOOLEAN, in.scan \in BOOLEAN
  PROVE  LET found == S!RunRuleScanners(in, told).found
         IN found \in Seq(Range(found)) /\ \A f \in Range(found) : SoundClaim(in, f)
<1> DEFINE Ran(s) == in.checkout /\ in.scan /\ s \notin in.fails
           Counts(s, f) == f.module = s /\ (s \in {"secrets", "taint"} => ~S!Duplicate(f, told))
           Parts(s) == [i \in DOMAIN in.rules |->
                           IF Counts(s, in.rules[i]) THEN <<in.rules[i]>> ELSE <<>>]
           Of(s) == FlattenSeq(Parts(s))
           all == [i \in DOMAIN S!Scanners |->
                      IF Ran(S!Scanners[i]) THEN S!CheckEvidence(Of(S!Scanners[i])) ELSE <<>>]
           found == S!RunRuleScanners(in, told).found
<1>1. found = FlattenSeq(all)
  BY DEF S!RunRuleScanners, S!FlattenSeq, FlattenSeq
<1>2. ASSUME NEW s PROVE Of(s) \in Seq(Range(in.rules)) /\ Range(Of(s)) \subseteq Range(in.rules)
  <2> DEFINE p == Parts(s)
             Vals == Range(in.rules)
  <2>1. DOMAIN in.rules = 1..Len(in.rules) /\ Len(in.rules) \in Nat
    BY DEF IsList
  <2>2. ASSUME NEW i \in DOMAIN in.rules PROVE p[i] \in Seq(Vals)
    <3>1. in.rules[i] \in Vals
      BY DEF Range
    <3>2. p[i] = IF Counts(s, in.rules[i]) THEN <<in.rules[i]>> ELSE <<>>
      OBVIOUS
    <3> HIDE DEF p, Vals, Counts
    <3> QED BY <3>1, <3>2
  <2>3. p = [i \in 1..Len(in.rules) |-> p[i]]
    BY <2>1
  <2>4. p \in Seq(Seq(Vals))
    <3> HIDE DEF p, Vals
    <3> QED BY <2>1, <2>2, <2>3
  <2>5. Of(s) = FlattenSeq(p)
    OBVIOUS
  <2>6. \A i \in DOMAIN p : Range(p[i]) \subseteq Vals
    <3>1. DOMAIN p = DOMAIN in.rules
      OBVIOUS
    <3> HIDE DEF p, Vals
    <3> QED BY <2>2, <3>1, ListIn
  <2> HIDE DEF p, Vals, Of
  <2>7. Of(s) \in Seq(Vals) /\ Range(Of(s)) = UNION {Range(p[i]) : i \in DOMAIN p}
    BY <2>4, <2>5, FlattenMembers
  <2> QED BY <2>6, <2>7 DEF Vals
<1> DEFINE Good == UNION {Range(all[i]) : i \in DOMAIN all}
<1>3. ASSUME NEW i \in DOMAIN S!Scanners
      PROVE  all[i] \in Seq(Range(all[i])) /\ \A f \in Range(all[i]) : SoundClaim(in, f)
  <2> DEFINE s == S!Scanners[i]
             o == Of(s)
  <2>1. CASE ~Ran(s)
    <3>1. all[i] = <<>>
      BY <2>1
    <3> HIDE DEF all
    <3> QED BY <3>1 DEF Range
  <2>2. CASE Ran(s)
    <3>1. all[i] = S!CheckEvidence(o)
      BY <2>2
    <3>2. IsList(o) /\ \A f \in Range(o) : Complete(f)
      <4>1. o \in Seq(Range(in.rules)) /\ Range(o) \subseteq Range(in.rules)
        BY <1>2
      <4> HIDE DEF o
      <4>2. o \in Seq(Range(o))
        BY <4>1 DEF Range
      <4> QED BY <4>1, <4>2 DEF IsList
    <3>3. in.checkout
      BY <2>2
    <3> HIDE DEF all, o
    <3> QED BY <3>1, <3>2, <3>3, CheckedIsSound
  <2> QED BY <2>1, <2>2
<1>4. DOMAIN S!Scanners = 1..7 /\ DOMAIN all = 1..7 /\ Len(S!Scanners) = 7
  BY DEF S!Scanners
<1>5. all \in Seq(Seq(Good))
  <2>1. all = [i \in 1..7 |-> all[i]]
    BY <1>4
  <2> HIDE DEF all
  <2>2. ASSUME NEW i \in 1..7 PROVE all[i] \in Seq(Good)
    <3>1. all[i] \in Seq(Range(all[i]))
      BY <1>3, <1>4
    <3>2. Range(all[i]) \subseteq Good
      BY <1>4
    <3> HIDE DEF Good
    <3> QED BY <3>1, <3>2
  <2> HIDE DEF Good
  <2> QED BY <2>1, <2>2
<1> HIDE DEF all, Of, Ran, found
<1>6. found \in Seq(Good) /\ Range(found) = Good
  BY <1>1, <1>5, FlattenMembers
<1>7. \A f \in Good : SoundClaim(in, f)
  BY <1>3, <1>4
<1> QED BY <1>6, <1>7 DEF found

\* What comes of claims is rows that are sound.
LEMMA StoredIsSound ==
  ASSUME NEW in, NEW told, NEW rules, IsList(told), IsList(rules),
         \A f \in Range(told) \cup Range(rules) : SoundClaim(in, f)
  PROVE  LET rows == S!StoreResult(told, rules)
         IN IsList(rows) /\ \A r \in Range(rows) : SoundRow(in, r)
<1> DEFINE a == [i \in DOMAIN told |-> S!FindingFromDict(told[i], "model")]
           b == [i \in DOMAIN rules |-> S!FindingFromDict(rules[i], "rule")]
           Good == Range(a) \cup Range(b)
<1>1. /\ DOMAIN told = 1..Len(told) /\ Len(told) \in Nat
      /\ DOMAIN rules = 1..Len(rules) /\ Len(rules) \in Nat
  BY DEF IsList
<1>2. IsList(a)
  <2>1. a = [i \in 1..Len(told) |-> a[i]]
    BY <1>1
  <2> HIDE DEF a
  <2> QED BY <1>1, <2>1, ListOf
<1>3. IsList(b)
  <2>1. b = [i \in 1..Len(rules) |-> b[i]]
    BY <1>1
  <2> HIDE DEF b
  <2> QED BY <1>1, <2>1, ListOf
<1>4. \A r \in Range(a) : SoundRow(in, r)
  <2>1. ASSUME NEW i \in DOMAIN told PROVE SoundRow(in, a[i])
    <3>1. told[i] \in Range(told)
      BY DEF Range
    <3>2. a[i] = S!FindingFromDict(told[i], "model")
      OBVIOUS
    <3> HIDE DEF a
    <3> QED BY <3>1, <3>2, SoundRowOfClaim
  <2>2. DOMAIN a = DOMAIN told
    OBVIOUS
  <2> HIDE DEF a
  <2> QED BY <2>1, <2>2 DEF Range
<1>5. \A r \in Range(b) : SoundRow(in, r)
  <2>1. ASSUME NEW i \in DOMAIN rules PROVE SoundRow(in, b[i])
    <3>1. rules[i] \in Range(rules)
      BY DEF Range
    <3>2. b[i] = S!FindingFromDict(rules[i], "rule")
      OBVIOUS
    <3> HIDE DEF b
    <3> QED BY <3>1, <3>2, SoundRowOfClaim
  <2>2. DOMAIN b = DOMAIN rules
    OBVIOUS
  <2> HIDE DEF b
  <2> QED BY <2>1, <2>2 DEF Range
<1>6. S!StoreResult(told, rules) = a \o b
  BY DEF S!StoreResult
<1> HIDE DEF a, b
<1>7. a \in Seq(Good) /\ b \in Seq(Good)
  BY <1>2, <1>3 DEF IsList
<1>8. a \o b \in Seq(Good)
  BY <1>7
<1> HIDE DEF Good
<1>9. IsList(a \o b) /\ Range(a \o b) \subseteq Good
  BY <1>8, ListIn
<1> QED BY <1>4, <1>5, <1>6, <1>9 DEF Good

\* What says how bad a row is leaves it sound.
LEMMA WeighedIsSound ==
  ASSUME NEW in, NEW rows, IsList(rows), \A r \in Range(rows) : SoundRow(in, r)
  PROVE  LET new == S!RecordFalsifiability(in, rows)
         IN IsList(new) /\ \A r \in Range(new) : SoundRow(in, r)
<1> DEFINE new == S!RecordFalsifiability(in, rows)
<1>1. DOMAIN rows = 1..Len(rows) /\ Len(rows) \in Nat
  BY DEF IsList
<1>2. DOMAIN new = DOMAIN rows /\ new = [i \in 1..Len(rows) |-> new[i]]
  BY <1>1 DEF S!RecordFalsifiability
<1>3. ASSUME NEW i \in DOMAIN rows PROVE SoundRow(in, new[i])
  <2>1. SoundRow(in, rows[i])
    BY DEF Range
  <2> DEFINE status == IF rows[i].verified THEN rows[i].weighed ELSE "none"
  <2>2. new[i] = rows[i] \/ new[i] = [rows[i] EXCEPT !.status = status]
    BY DEF S!RecordFalsifiability
  <2>3. ~rows[i].verified => status = "none"
    OBVIOUS
  <2> HIDE DEF new, status
  <2> QED BY <2>1, <2>2, <2>3 DEF SoundRow
<1> HIDE DEF new
<1>4. IsList(new)
  BY <1>1, <1>2, ListOf
<1>5. \A r \in Range(new) : SoundRow(in, r)
  BY <1>2, <1>3 DEF Range
<1> QED BY <1>4, <1>5 DEF new

\* So does what says which rows are on a path.
LEMMA AttackedIsSound ==
  ASSUME NEW in, NEW rows, IsList(rows), \A r \in Range(rows) : SoundRow(in, r)
  PROVE  LET new == S!RecordAttacker(in, rows)
         IN IsList(new) /\ \A r \in Range(new) : SoundRow(in, r)
<1> DEFINE new == S!RecordAttacker(in, rows)
<1>1. DOMAIN rows = 1..Len(rows) /\ Len(rows) \in Nat
  BY DEF IsList
<1>2. DOMAIN new = DOMAIN rows /\ new = [i \in 1..Len(rows) |-> new[i]]
  BY <1>1 DEF S!RecordAttacker
<1>3. ASSUME NEW i \in DOMAIN rows PROVE SoundRow(in, new[i])
  <2> DEFINE on == /\ rows[i].verified
                   /\ rows[i].status \in {"reachable", "corroborated", "inconclusive"}
                   /\ "attacker" \notin in.fails
  <2>1. SoundRow(in, rows[i])
    BY DEF Range
  <2>2. new[i] = [rows[i] EXCEPT !.on_path = on]
    BY DEF S!RecordAttacker
  <2>3. on \in BOOLEAN /\ (on => rows[i].verified)
    BY <2>1 DEF SoundRow
  <2> HIDE DEF new, on
  <2> QED BY <2>1, <2>2, <2>3 DEF SoundRow
<1> HIDE DEF new
<1>4. IsList(new)
  BY <1>1, <1>2, ListOf
<1>5. \A r \in Range(new) : SoundRow(in, r)
  BY <1>2, <1>3 DEF Range
<1> QED BY <1>4, <1>5 DEF new

\* Whether a row is where a rule matches, the row of a match, and what becomes of the
\* rows with it.
FoundAt(m, rows) == \E i \in DOMAIN rows : rows[i].file = m.file /\ rows[i].line = m.at
RowOfMatch(m) == S!FindingFromDict([m EXCEPT !.line = m.at, !.verified = TRUE], "immune")
WithMatch(rows, m) == IF m.snippet /\ ~FoundAt(m, rows) THEN Append(rows, RowOfMatch(m)) ELSE rows

\* The rows of what the rules match, match by match.
LEMMA MatchedUnfolds ==
  ASSUME NEW matched, NEW rows, IsList(matched)
  PROVE  \E all : /\ all[0] = rows
                  /\ \A i \in 1..Len(matched) : all[i] = WithMatch(all[i - 1], matched[i])
                  /\ S!Matched(matched, rows) = all[Len(matched)]
<1> DEFINE n == Len(matched)
           Found(m, all) == \E i \in DOMAIN all : all[i].file = m.file /\ all[i].line = m.at
           Row(m) == S!FindingFromDict([m EXCEPT !.line = m.at, !.verified = TRUE], "immune")
           Step(old, i) == WithMatch(old, matched[i])
           Rec(at, m) == at = [i \in 0..m |->
                IF i = 0 THEN rows
                ELSE IF matched[i].snippet /\ ~Found(matched[i], at[i - 1])
                     THEN Append(at[i - 1], Row(matched[i]))
                ELSE at[i - 1]]
           RecS(at, m) == at = [i \in 0..m |-> IF i = 0 THEN rows ELSE Step(at[i - 1], i)]
           Nums == {m \in Nat : \E at : RecS(at, m)}
<1>0. \A at, m : RecS(at, m) <=> Rec(at, m)
  BY DEF WithMatch, FoundAt, RowOfMatch
<1>n. n \in Nat
  BY DEF IsList
<1> HIDE DEF Rec, Step, n
<1>1. 0 \in Nums
  <2>1. RecS([i \in 0..0 |-> rows], 0)
    OBVIOUS
  <2> QED BY <2>1
<1>2. ASSUME NEW m \in Nat, m \in Nums PROVE m + 1 \in Nums
  <2>1. PICK at : RecS(at, m)
    BY <1>2
  <2> DEFINE new == [i \in 0..m + 1 |-> IF i = m + 1 THEN Step(at[m], m + 1) ELSE at[i]]
  <2>2. ASSUME NEW i \in 0..m + 1
        PROVE  new[i] = IF i = 0 THEN rows ELSE Step(new[i - 1], i)
    <3>1. CASE i = m + 1
      <4>1. i - 1 = m /\ new[i - 1] = at[m] /\ i # 0
        BY <3>1
      <4>2. new[i] = Step(at[m], i)
        BY <3>1
      <4> QED BY <4>1, <4>2
    <3>2. CASE i = 0
      <4>1. new[i] = at[i] /\ at[i] = rows
        BY <3>2, <2>1
      <4> QED BY <4>1, <3>2
    <3>3. CASE i \in 1..m
      <4>1. new[i] = at[i] /\ new[i - 1] = at[i - 1] /\ i # 0
        BY <3>3
      <4>2. at[i] = Step(at[i - 1], i)
        BY <2>1, <3>3
      <4> QED BY <4>1, <4>2
    <3> QED BY <3>1, <3>2, <3>3
  <2>3. new = [i \in 0..m + 1 |-> new[i]]
    OBVIOUS
  <2> HIDE DEF new
  <2>4. RecS(new, m + 1)
    BY <2>2, <2>3
  <2> HIDE DEF RecS
  <2> QED BY <2>4
<1>3. Nat \subseteq Nums
  <2> HIDE DEF Nums
  <2> QED BY <1>1, <1>2, NatInductionOnSets
<1>4. PICK any : Rec(any, n)
  BY <1>0, <1>3, <1>n
<1> DEFINE at == CHOOSE at : Rec(at, n)
<1>5. Rec(at, n)
  BY <1>4
<1>6. S!Matched(matched, rows) = at[n]
  BY DEF S!Matched, n, Rec
<1>7. RecS(at, n)
  BY <1>5, <1>0
<1> HIDE DEF at
<1>8. at[0] = rows
  BY <1>7, <1>n
<1>9. ASSUME NEW i \in 1..n PROVE at[i] = Step(at[i - 1], i)
  <2>1. i \in 0..n /\ i # 0
    BY <1>n
  <2> QED BY <1>7, <2>1
<1>10. \A i \in 1..n : at[i] = WithMatch(at[i - 1], matched[i])
  BY <1>9 DEF Step
<1> QED BY <1>6, <1>8, <1>10 DEF n

\* What the rules match adds rows that are sound.
LEMMA MatchedIsSound ==
  ASSUME NEW in, NEW matched, NEW rows, in.checkout, IsList(matched), IsList(rows),
         \A m \in Range(matched) : Complete(m) /\ m.at # 0,
         \A r \in Range(rows) : SoundRow(in, r)
  PROVE  LET new == S!Matched(matched, rows)
         IN IsList(new) /\ \A r \in Range(new) : SoundRow(in, r)
<1> DEFINE n == Len(matched)
           Sound(s) == IsList(s) /\ \A r \in Range(s) : SoundRow(in, r)
<1>n. n \in Nat /\ DOMAIN matched = 1..n
  BY DEF IsList
<1>1. PICK all : /\ all[0] = rows
                 /\ \A i \in 1..n : all[i] = WithMatch(all[i - 1], matched[i])
                 /\ S!Matched(matched, rows) = all[n]
  BY MatchedUnfolds
<1>2. ASSUME NEW i \in 1..n, matched[i].snippet PROVE SoundRow(in, RowOfMatch(matched[i]))
  <2> DEFINE m == matched[i]
             f == [m EXCEPT !.line = m.at, !.verified = TRUE]
  <2>1. m \in Range(matched)
    BY <1>n DEF Range
  <2>2. Complete(m) /\ m.at # 0
    BY <2>1
  <2> HIDE DEF m
  <2>3. SoundClaim(in, f)
    BY <2>2 DEF Complete, SoundClaim
  <2> HIDE DEF f
  <2>4. SoundRow(in, S!FindingFromDict(f, "immune"))
    BY <2>3, SoundRowOfClaim
  <2> QED BY <2>4 DEF f, m, RowOfMatch
<1> HIDE DEF n
<1>3. ASSUME NEW s, Sound(s), NEW r, SoundRow(in, r) PROVE Sound(Append(s, r))
  <2> DEFINE Vals == Range(s) \cup {r}
  <2>1. s \in Seq(Vals) /\ r \in Vals
    BY <1>3 DEF IsList
  <2>2. Append(s, r) \in Seq(Vals)
    <3> HIDE DEF Vals
    <3> QED BY <2>1
  <2>3. IsList(Append(s, r)) /\ Range(Append(s, r)) \subseteq Vals
    <3> HIDE DEF Vals
    <3> QED BY <2>2, ListIn
  <2> QED BY <2>3, <1>3
<1> DEFINE Nums == {i \in Nat : i \in 0..n => Sound(all[i])}
<1> HIDE DEF Sound
<1>4. 0 \in Nums
  BY <1>1 DEF Sound
<1>5. ASSUME NEW i \in Nat, i \in Nums PROVE i + 1 \in Nums
  <2>1. SUFFICES ASSUME i + 1 \in 1..n PROVE Sound(all[i + 1])
    OBVIOUS
  <2>2. Sound(all[i])
    BY <1>5, <2>1, <1>n
  <2>3. (i + 1) - 1 = i
    OBVIOUS
  <2>4. \/ all[i + 1] = Append(all[i], RowOfMatch(matched[i + 1])) /\ matched[i + 1].snippet
        \/ all[i + 1] = all[i]
    BY <1>1, <2>1, <2>3 DEF WithMatch
  <2> QED BY <2>1, <2>2, <2>4, <1>2, <1>3
<1>6. n \in Nums
  <2> HIDE DEF Nums
  <2> QED BY <1>4, <1>5, <1>n, NatInductionOnSets
<1> QED BY <1>1, <1>6, <1>n DEF Sound

\* The rows of an audit are sound, whatever was claimed and whatever fails.
LEMMA RowsAreSound ==
  ASSUME NEW in \in Given("store")
  PROVE  LET rows == S!Store(in).rows
         IN IsList(rows) /\ \A r \in Range(rows) : SoundRow(in, r)
<1> DEFINE told == IF in.checkout THEN S!CheckEvidence(in.found) ELSE S!Uncheckable(in.found)
           scanned == S!RunRuleScanners(in, told).found
           stored == S!StoreResult(told, scanned)
           weighed == S!RecordFalsifiability(in, stored)
           immune == S!RecordImmune(in, weighed).rows
           Sound(s) == IsList(s) /\ \A r \in Range(s) : SoundRow(in, r)
<1>1. /\ in.checkout \in BOOLEAN /\ in.scan \in BOOLEAN
      /\ IsList(in.found) /\ IsList(in.rules) /\ IsList(in.matched)
      /\ \A f \in Range(in.found) \cup Range(in.rules) \cup Range(in.matched) : Complete(f)
      /\ \A m \in Range(in.matched) : m.at # 0
  BY StoreAssumption DEF Complete
<1>2. IsList(told) /\ \A f \in Range(told) : SoundClaim(in, f)
  <2>1. CASE in.checkout
    <3>1. told = S!CheckEvidence(in.found)
      BY <2>1
    <3> HIDE DEF told
    <3> QED BY <1>1, <2>1, <3>1, CheckedIsSound DEF IsList
  <2>2. CASE ~in.checkout
    <3>1. told = S!Uncheckable(in.found)
      BY <2>2
    <3> HIDE DEF told
    <3> QED BY <1>1, <3>1, UncheckableIsSound DEF IsList
  <2> QED BY <1>1, <2>1, <2>2
<1> HIDE DEF told
<1>3. IsList(scanned) /\ \A f \in Range(scanned) : SoundClaim(in, f)
  BY <1>1, ScannedIsSound DEF IsList
<1> HIDE DEF scanned
<1>4. Sound(stored)
  BY <1>2, <1>3, StoredIsSound
<1> HIDE DEF stored
<1>5. Sound(weighed)
  BY <1>4, WeighedIsSound
<1> HIDE DEF weighed
<1>6. Sound(immune)
  <2>1. immune = IF in.checkout THEN S!Matched(in.matched, weighed) ELSE weighed
    BY DEF S!RecordImmune
  <2> HIDE DEF immune
  <2> QED BY <1>1, <1>5, <2>1, MatchedIsSound
<1>7. S!Store(in).rows = S!RecordAttacker(in, immune)
  BY DEF S!Store, told, scanned, stored, weighed
<1> HIDE DEF immune
<1> QED BY <1>6, <1>7, AttackedIsSound

\* Some of the places of a list, if there are any, have a last one.
LEMMA LastPlace ==
  ASSUME NEW n \in Nat, NEW U \in SUBSET (1..n), U # {}
  PROVE  \E i \in U : \A j \in U : j <= i
<1> DEFINE Nums == {m \in Nat : \A W1 \in SUBSET (1..m) : W1 # {} => \E i \in W1 : \A j \in W1 : j <= i}
<1>1. 0 \in Nums
  <2>1. 1..0 = {}
    OBVIOUS
  <2> QED BY <2>1
<1>2. ASSUME NEW m \in Nat, m \in Nums PROVE m + 1 \in Nums
  <2>1. ASSUME NEW W1 \in SUBSET (1..m + 1), W1 # {} PROVE \E i \in W1 : \A j \in W1 : j <= i
    <3>1. CASE m + 1 \in W1
      BY <3>1
    <3>2. CASE m + 1 \notin W1
      <4>1. W1 \in SUBSET (1..m)
        BY <3>2
      <4> QED BY <4>1, <2>1, <1>2
    <3> QED BY <3>1, <3>2
  <2> QED BY <2>1
<1>3. n \in Nums
  <2> HIDE DEF Nums
  <2> QED BY <1>1, <1>2, NatInductionOnSets
<1> QED BY <1>3

\* Where all runs of a module are one, its last run is that one.
LEMMA LimitsOfRuns ==
  ASSUME NEW runs, IsList(runs), \A r, r2 \in Range(runs) : r.module = r2.module => r = r2
  PROVE  T!Limits(runs) = {r.module : r \in {x \in Range(runs) : ~x.ok}}
<1> DEFINE LastOf(m) == CHOOSE i \in DOMAIN runs : /\ runs[i].module = m
                                                 /\ \A j \in DOMAIN runs : runs[j].module = m => j <= i
<1>1. ASSUME NEW i \in DOMAIN runs PROVE runs[LastOf(runs[i].module)] = runs[i]
  <2> DEFINE m == runs[i].module
             U == {j \in DOMAIN runs : runs[j].module = m}
  <2>1. DOMAIN runs = 1..Len(runs) /\ Len(runs) \in Nat
    BY DEF IsList
  <2>2. PICK k \in U : \A j \in U : j <= k
    BY <2>1, LastPlace
  <2>3. LastOf(m) \in DOMAIN runs /\ runs[LastOf(m)].module = m
    BY <2>2
  <2>4. runs[LastOf(m)] \in Range(runs) /\ runs[i] \in Range(runs)
    BY <2>3 DEF Range
  <2> HIDE DEF LastOf
  <2> QED BY <2>3, <2>4
<1>2. T!Limits(runs) = {m \in {runs[i].module : i \in DOMAIN runs} : ~runs[LastOf(m)].ok}
  BY DEF T!Limits
<1> HIDE DEF LastOf
<1> QED BY <1>1, <1>2 DEF Range

\* What is missing is said.
LEMMA LimitsAreMissing ==
  ASSUME NEW in \in Given("store")
  PROVE  T!Limits(S!Store(in).runs) = Missing(in)
<1> DEFINE Ran(s) == in.checkout /\ in.scan /\ s \notin in.fails
           Ok(module) == [module |-> module, ok |-> TRUE]
           first == (IF in.checkout THEN <<Ok("evidence")>> ELSE <<>>) \o <<Ok("audit")>>
           scans == [i \in DOMAIN S!Scanners |-> [module |-> S!Scanners[i], ok |-> Ran(S!Scanners[i])]]
           names == <<"falsifiability", "parallax", "immune", "leverage", "attacker", "drift">>
           rest == [i \in 1..6 |-> S!Record(in, names[i])]
           runs == S!Store(in).runs
           Fine == {Ok("evidence"), Ok("audit")}
           Scanned == {[module |-> s, ok |-> Ran(s)] : s \in Range(S!Scanners)}
           Others == {S!Record(in, m) : m \in Range(names)}
           All == Fine \cup Scanned \cup Others
<1>1. in.checkout \in BOOLEAN /\ in.scan \in BOOLEAN
      /\ in.fails \subseteq Range(S!Scanners) \cup
               {"falsifiability", "parallax", "immune", "leverage", "attacker", "drift"}
  BY StoreAssumption
<1>2. runs = (first \o scans) \o rest
  <2>1. runs = first \o scans \o rest
    BY DEF S!Store, S!RunRuleScanners
  <2> HIDE DEF first, scans, rest, runs
  <2> QED BY <2>1
<1>3. first \in Seq(All) /\ Range(first) \subseteq Fine
  <2> DEFINE e == IF in.checkout THEN <<Ok("evidence")>> ELSE <<>>
  <2>1. e \in Seq(Fine) /\ <<Ok("audit")>> \in Seq(Fine)
    <3>1. Ok("evidence") \in Fine /\ Ok("audit") \in Fine
      OBVIOUS
    <3> HIDE DEF Ok, Fine
    <3> QED BY <3>1
  <2>2. first = e \o <<Ok("audit")>>
    OBVIOUS
  <2> HIDE DEF Ok, Fine, e, first, Scanned, Others
  <2>3. first \in Seq(Fine)
    BY <2>1, <2>2
  <2>4. Range(first) \subseteq Fine /\ IsList(first)
    BY <2>3, ListIn
  <2> QED BY <2>4 DEF IsList
<1>4. scans \in Seq(All) /\ Range(scans) = Scanned
  <2>1. DOMAIN S!Scanners = 1..7
    BY DEF S!Scanners
  <2>2. Range(scans) = Scanned
    BY DEF Range
  <2>3. scans = [i \in 1..7 |-> scans[i]]
    BY <2>1
  <2> HIDE DEF scans
  <2>4. IsList(scans)
    BY <2>3, ListOf
  <2> HIDE DEF Scanned, Fine, Others
  <2> QED BY <2>2, <2>4 DEF IsList
<1>5. rest \in Seq(All) /\ Range(rest) = Others
  <2>1. DOMAIN names = 1..6
    OBVIOUS
  <2>2. Range(rest) = Others
    <3> HIDE DEF names
    <3> QED BY <2>1 DEF Range
  <2>3. rest = [i \in 1..6 |-> rest[i]]
    OBVIOUS
  <2> HIDE DEF rest
  <2>4. IsList(rest)
    BY <2>3, ListOf
  <2> HIDE DEF Scanned, Fine, Others
  <2> QED BY <2>2, <2>4 DEF IsList
<1>6. Range(runs) \subseteq All /\ Scanned \cup Others \subseteq Range(runs) /\ IsList(runs)
  <2> HIDE DEF first, scans, rest, All, runs
  <2>1. first \o scans \in Seq(All) /\ Range(first \o scans) = Range(first) \cup Range(scans)
    BY <1>3, <1>4, RangeOfBoth
  <2>2. runs \in Seq(All) /\ Range(runs) = Range(first) \cup Range(scans) \cup Range(rest)
    <3> DEFINE both == first \o scans
    <3>1. runs = both \o rest /\ both \in Seq(All) /\ rest \in Seq(All)
      BY <2>1, <1>2, <1>5
    <3> HIDE DEF both
    <3>2. runs \in Seq(All) /\ Range(runs) = Range(both) \cup Range(rest)
      BY <3>1, RangeOfBoth
    <3> QED BY <3>2, <2>1 DEF both
  <2>3. IsList(runs) /\ Range(runs) \subseteq All
    BY <2>2, ListIn
  <2> QED BY <2>2, <2>3, <1>4, <1>5
<1>7. Range(S!Scanners) = {"secrets", "dependencies", "mcp", "taint", "surface", "claims", "deadcode"}
  BY DEF S!Scanners, Range
<1>8. Range(names) = {"falsifiability", "parallax", "immune", "leverage", "attacker", "drift"}
  BY DEF Range
<1> DEFINE Val(m) == IF m \in Range(S!Scanners) THEN Ran(m)
                     ELSE IF m \in Range(names)
                     THEN m \notin in.fails /\ (in.checkout \/ m \in S!NeedNone) ELSE TRUE
<1>17. ASSUME NEW r \in All PROVE r = [module |-> r.module, ok |-> Val(r.module)]
  <2>1. CASE r \in Fine
    <3>1. r.module \notin Range(S!Scanners) /\ r.module \notin Range(names)
      <4> HIDE DEF names
      <4> QED BY <2>1, <1>7, <1>8
    <3> QED BY <2>1, <3>1
  <2>2. CASE r \in Scanned
    <3>1. PICK s \in Range(S!Scanners) : r = [module |-> s, ok |-> Ran(s)]
      BY <2>2
    <3>2. Val(s) = Ran(s)
      OBVIOUS
    <3> HIDE DEF Val, Ran
    <3> QED BY <3>1, <3>2
  <2>3. CASE r \in Others
    <3>1. PICK m \in Range(names) : r = S!Record(in, m)
      BY <2>3
    <3>2. m \notin Range(S!Scanners)
      <4> HIDE DEF names
      <4> QED BY <1>7, <1>8
    <3>3. r = [module |-> m, ok |-> Val(m)]
      <4> HIDE DEF names
      <4> QED BY <3>1, <3>2 DEF S!Record
    <3> HIDE DEF Val
    <3> QED BY <3>3
  <2> QED BY <2>1, <2>2, <2>3
<1>9. \A r, r2 \in All : r.module = r2.module => r = r2
  <2> HIDE DEF All, Val
  <2> QED BY <1>17
<1>10. T!Limits(runs) = {r.module : r \in {x \in Range(runs) : ~x.ok}}
  <2> HIDE DEF runs, All
  <2> QED BY <1>6, <1>9, LimitsOfRuns
<1>11. \A r \in Fine : r.ok
  OBVIOUS
<1>12. {r.module : r \in {x \in Range(runs) : ~x.ok}} = {r.module : r \in {x \in Scanned \cup Others : ~x.ok}}
  <2> HIDE DEF runs, Scanned, Others, Fine
  <2> QED BY <1>6, <1>11
<1>13. {r.module : r \in {x \in Scanned \cup Others : ~x.ok}} =
           {m \in Range(S!Scanners) \cup Range(names) : ~Val(m)}
  <2>1. ASSUME NEW r \in Scanned \cup Others, ~r.ok
        PROVE  r.module \in {m \in Range(S!Scanners) \cup Range(names) : ~Val(m)}
    <3>1. r \in All /\ r.module \in Range(S!Scanners) \cup Range(names)
      <4> HIDE DEF names
      <4> QED BY DEF S!Record
    <3>2. r.ok = Val(r.module)
      <4> HIDE DEF All, Val
      <4> QED BY <3>1, <1>17
    <3> HIDE DEF Val
    <3> QED BY <2>1, <3>1, <3>2
  <2>2. ASSUME NEW m \in Range(S!Scanners) \cup Range(names), ~Val(m)
        PROVE  \E r \in Scanned \cup Others : ~r.ok /\ m = r.module
    <3>1. PICK r \in Scanned \cup Others : r.module = m
      <4>1. CASE m \in Range(S!Scanners)
        <5> DEFINE r == [module |-> m, ok |-> Ran(m)]
        <5>1. r \in Scanned /\ r.module = m
          BY <4>1
        <5> HIDE DEF r, Scanned, Others
        <5> QED BY <5>1
      <4>2. CASE m \in Range(names)
        <5>1. S!Record(in, m) \in Others /\ S!Record(in, m).module = m
          BY <4>2 DEF S!Record
        <5> QED BY <5>1
      <4> QED BY <4>1, <4>2
    <3>2. r \in All
      OBVIOUS
    <3>3. r.ok = Val(m)
      <4> HIDE DEF All, Val
      <4> QED BY <3>1, <3>2, <1>17
    <3> HIDE DEF Val
    <3> QED BY <3>1, <3>3, <2>2
  <2> HIDE DEF Val, Scanned, Others, names
  <2> QED BY <2>1, <2>2
<1>14. {m \in Range(S!Scanners) \cup Range(names) : ~Val(m)} = Missing(in)
  <2> HIDE DEF names
  <2> QED BY <1>1, <1>7, <1>8 DEF Missing, S!NeedNone, S!Range, Range
<1> HIDE DEF Val, Scanned, Others, names, All, runs
<1> QED BY <1>10, <1>12, <1>13, <1>14 DEF runs

\* The row that stands for a fingerprint is one of the rows.
LEMMA RowOfIsRow ==
  ASSUME NEW rows, IsList(rows), NEW p \in N!Prints(rows)
  PROVE  N!RowOf(rows, p) \in Range(rows)
<1> DEFINE U == {i \in DOMAIN rows : rows[i].print = p}
<1>1. DOMAIN rows = 1..Len(rows) /\ Len(rows) \in Nat
  BY DEF IsList
<1>2. PICK k \in U : \A j \in U : j <= k
  BY <1>1, LastPlace DEF N!Prints
<1> DEFINE i == CHOOSE i \in DOMAIN rows : /\ rows[i].print = p
                                           /\ \A j \in DOMAIN rows : rows[j].print = p => j <= i
<1>3. i \in DOMAIN rows
  BY <1>2
<1>4. N!RowOf(rows, p) = rows[i]
  BY DEF N!RowOf
<1> HIDE DEF i
<1> QED BY <1>3, <1>4 DEF Range

\* What is positive, stands up or is on a path is seen.
LEMMA SoundRowCounts ==
  ASSUME NEW in, NEW r, SoundRow(in, r), T!Positive(r) \/ r.status # "none" \/ r.on_path
  PROVE  in.checkout /\ r.at # 0 /\ r.line = r.at
BY DEF SoundRow, T!Positive, T!AssessRow

\* A commit fails for a row that is there or for drift.
LEMMA FailureHasReason ==
  ASSUME NEW rows, IsList(rows), NEW before, NEW fixed, NEW drift,
         N!Report(rows, N!FindingDiff(before, rows, fixed), drift).state = "failure"
  PROVE  (\E r \in Range(rows) : r.severity = "high" /\ T!Positive(r)) \/ drift # <<>>
<1> DEFINE diff == N!FindingDiff(before, rows, fixed)
           new == {p \in diff.new : N!T!Positive(N!RowOf(rows, p))}
           blocking == {p \in new : N!RowOf(rows, p).severity = "high"}
<1>1. blocking # {} \/ drift # <<>>
  BY DEF N!Report
<1>2. ASSUME NEW p \in blocking PROVE \E r \in Range(rows) : r.severity = "high" /\ T!Positive(r)
  <2>1. p \in N!Prints(rows)
    BY DEF N!FindingDiff
  <2>2. N!RowOf(rows, p) \in Range(rows)
    BY <2>1, RowOfIsRow
  <2>3. N!T!Positive(N!RowOf(rows, p)) /\ N!RowOf(rows, p).severity = "high"
    OBVIOUS
  <2>4. T!Positive(N!RowOf(rows, p))
    BY <2>3 DEF N!T!Positive, T!Positive, N!T!AssessRow, T!AssessRow
  <2> QED BY <2>2, <2>3, <2>4
<1> QED BY <1>1, <1>2

\* What is stored of an audit is as NothingUnseenCounts asks.
LEMMA StoreSound ==
  ASSUME asked.in \in Given("store"), answer.value = Stored(asked.in)
  PROVE  NothingUnseenCounts
<1> DEFINE in == asked.in
           v == answer.value
           rows == v.stored.rows
<1>1. /\ v.stored = S!Store(in) /\ v.limits = T!Limits(S!Store(in).runs)
      /\ v.report = N!Report(rows, N!FindingDiff(in.before, rows, in.fixed), v.drift)
  BY DEF Stored
<1>2. IsList(rows) /\ \A r \in Range(rows) : SoundRow(in, r)
  BY <1>1, RowsAreSound
<1>3. v.limits = Missing(in)
  BY <1>1, LimitsAreMissing
<1>4. \A r \in Range(rows) : T!Positive(r) \/ r.status # "none" \/ r.on_path =>
          in.checkout /\ r.at # 0 /\ r.line = r.at
  <2> HIDE DEF rows, in
  <2> QED BY <1>2, SoundRowCounts
<1>5. v.report.state = "failure" =>
          (\E r \in Range(rows) : r.severity = "high" /\ T!Positive(r)) \/ v.drift # <<>>
  BY <1>1, <1>2, FailureHasReason
<1> QED BY <1>3, <1>4, <1>5 DEF NothingUnseenCounts

\* What the trust score, the limits and the commit's state rest on was seen, and what is
\* missing is said (record_falsifiability to assess_trust).
THEOREM OnlySeenCounts == Spec => []NothingUnseenCounts
<1>1. Inv => NothingUnseenCounts
  <2> SUFFICES ASSUME Inv, Answered("store") PROVE NothingUnseenCounts
    BY DEF NothingUnseenCounts
  <2>1. asked.in \in Given("store") /\ answer.value = Stored(asked.in)
    BY AnsweredAsFound DEF ResultOf
  <2> QED BY <2>1, StoreAssumption, StoreSound
<1> QED BY <1>1, InvHolds, PTL

(***************************************************************************)
(* Parallax: bytes in invisible characters are reported.                   *)
(***************************************************************************)

\* Two selectors that stand together begin or continue a run.
LEMMA SelectorsTogetherAreCovered ==
  ASSUME NEW t, IsList(t), NEW i \in 1..Len(t) - 1, {t[i], t[i + 1]} \subseteq P!Selectors
  PROVE  {i, i + 1} \subseteq P!InvisibleRuns(t)
<1>1. DOMAIN t = 1..Len(t) /\ Len(t) \in Nat
  BY DEF IsList
<1>2. i \in DOMAIN t /\ i + 1 \in DOMAIN t /\ i \in Int /\ i < Len(t)
  BY <1>1
<1>3. ~P!Benign(t, i)
  BY <1>2 DEF P!Benign, P!BenignJoiner, P!BenignSelector, P!Selectors
<1>4. t[i] \in P!Invisible /\ t[i + 1] \in P!Invisible
  BY DEF P!Selectors, P!Invisible
<1>5. i \in P!InvisibleRuns(t)
  <2>1. \A k \in i..i : k = i
    BY <1>2
  <2> QED BY <1>2, <1>3, <1>4, <2>1 DEF P!InvisibleRuns
<1>6. i + 1 \in P!InvisibleRuns(t)
  <2>1. (\A k \in i..i + 1 : k = i \/ k = i + 1) /\ i \in 1..i + 1
    BY <1>2
  <2>2. \A k \in i..i + 1 : t[k] \in P!Invisible
    BY <2>1, <1>4
  <2> QED BY <1>2, <1>3, <2>1, <2>2 DEF P!InvisibleRuns
<1> QED BY <1>5, <1>6

\* A character that is for bytes only is harmless nowhere.
LEMMA BytesAreCovered ==
  ASSUME NEW t, IsList(t), NEW k \in 1..Len(t), t[k] = "bytes"
  PROVE  k \in P!InvisibleRuns(t)
<1>1. DOMAIN t = 1..Len(t) /\ Len(t) \in Nat
  BY DEF IsList
<1>2. ~P!Benign(t, k)
  BY DEF P!Benign, P!BenignJoiner, P!BenignSelector
<1>3. \A m \in k..k : t[m] \in P!Invisible
  BY DEF P!Invisible
<1> QED BY <1>1, <1>2, <1>3 DEF P!InvisibleRuns

\* A comparison of views is as BytesAreSeen asks.
LEMMA ViewsSound ==
  ASSUME asked.in \in Given("parallax"), answer.value = Divergences(asked.in)
  PROVE  BytesAreSeen
<1>1. SUFFICES ASSUME asked.in.checkout, NEW f \in asked.in.files,
                      \A l \in asked.in.links : l.name # f.name, NEW i \in 1..Len(f.text) - 1,
                      {f.text[i], f.text[i + 1]} \subseteq P!Carriers, NEW k \in {i, i + 1},
                      f.text[k] = "bytes" \/ "presentation" \notin {f.text[i], f.text[i + 1]}
               PROVE  /\ k \in P!InvisibleRuns(f.text)
                      /\ \E d \in answer.value.all : d.file = f.name /\ d.about = "invisible_unicode"
  BY DEF BytesAreSeen
<1>2. IsList(f.text)
  BY ViewsAssumption
<1>3. k \in P!InvisibleRuns(f.text)
  <2>1. CASE f.text[k] = "bytes"
    <3>1. k \in 1..Len(f.text)
      BY <1>2 DEF IsList
    <3> QED BY <1>2, <2>1, <3>1, BytesAreCovered
  <2>2. CASE "presentation" \notin {f.text[i], f.text[i + 1]}
    <3>1. {f.text[i], f.text[i + 1]} \subseteq P!Selectors
      BY <1>1, <2>2 DEF P!Carriers
    <3> QED BY <1>2, <3>1, SelectorsTogetherAreCovered
  <2> QED BY <1>1, <2>1, <2>2
<1>4. \E d \in P!HiddenContent(f) : d.file = f.name /\ d.about = "invisible_unicode"
  <2>1. P!InvisibleRuns(f.text) # {}
    BY <1>3
  <2> DEFINE gravity == IF "tag" \in {f.text[m] : m \in P!InvisibleRuns(f.text)} \/ P!Decoded(f)
                        THEN IF f.agent THEN "critical" ELSE "high"
                        ELSE IF f.agent \/ ("bidi" \in {f.text[m] : m \in P!InvisibleRuns(f.text)}
                                            /\ f.form = "code") THEN "high"
                        ELSE "medium"
             d == P!Divergence(f.name, "hidden_content", gravity, "invisible_unicode")
  <2>2. d \in P!HiddenContent(f)
    BY <2>1 DEF P!HiddenContent
  <2>3. d.file = f.name /\ d.about = "invisible_unicode"
    BY DEF P!Divergence
  <2> HIDE DEF d
  <2> QED BY <2>2, <2>3
<1>5. P!HiddenContent(f) \subseteq P!AllDivergences(asked.in)
  <2>1. f \in {g \in asked.in.files : g.name \notin {l.name : l \in asked.in.links}}
    BY <1>1
  <2> QED BY <1>1, <2>1 DEF P!AllDivergences
<1>6. answer.value.all = P!AllDivergences(asked.in)
  BY DEF Divergences
<1> QED BY <1>3, <1>4, <1>5, <1>6

\* In every text, a character for bytes only, and one of two that can carry bytes and
\* stand together, is in a run that is reported, unless one of the two chooses a
\* presentation (parallax.invisible_runs, decode_hidden).
THEOREM BytesAreReported == Spec => []BytesAreSeen
<1>1. Inv => BytesAreSeen
  <2> SUFFICES ASSUME Inv, Answered("parallax") PROVE BytesAreSeen
    BY DEF BytesAreSeen
  <2>1. asked.in \in Given("parallax") /\ answer.value = Divergences(asked.in)
    BY AnsweredAsFound DEF ResultOf
  <2> QED BY <2>1, ViewsAssumption, ViewsSound
<1> QED BY <1>1, InvHolds, PTL

(***************************************************************************)
(* Evidence: what is quoted is where it is said to be.                     *)
(***************************************************************************)

\* The lines that are not blank are in their order.
LEMMA NonblankInOrder ==
  ASSUME NEW lines, IsList(lines), NEW made
  PROVE  /\ IsList(E!Nonblank(lines, made))
         /\ \E pos : InOrder(pos, E!Nonblank(lines, made), {i \in DOMAIN lines : lines[i] # <<>>}, made)
<1> DEFINE n == Len(lines)
           keep == {i \in DOMAIN lines : lines[i] # <<>>}
           seqs == [i \in DOMAIN lines |-> IF lines[i] = <<>> THEN <<>> ELSE <<made[i]>>]
<1>1. n \in Nat /\ DOMAIN lines = 1..n
  BY DEF IsList
<1>2. keep \in SUBSET (1..n)
  BY <1>1
<1>3. seqs = [i \in 1..n |-> IF i \in keep THEN <<made[i]>> ELSE <<>>]
  BY <1>1
<1>4. E!Nonblank(lines, made) = FlattenSeq(seqs)
  BY DEF E!Nonblank, E!FlattenSeq, FlattenSeq
<1> HIDE DEF n, keep, seqs
<1> QED BY <1>1, <1>2, <1>3, <1>4, OptionsInOrder DEF keep

\* A match holds the quote.
LEMMA MatchesHold ==
  ASSUME NEW quote, NEW line, IsList(quote), IsList(line),
         NEW mode \in {"inside", "prefix", "suffix", "equal"}, E!Matches(quote, line, mode)
  PROVE  Holds(quote, line)
<1> DEFINE Fits(q, t) == q = t \/ (q \in E!Masks /\ t \in E!Secrets)
           Is(q, t) == q = t \/ (t \in E!Secrets /\ q = E!Mask[t])
           last == Len(line) - Len(quote)
           places == CASE mode = "inside" -> 0..last
                       [] mode = "prefix" -> {0}
                       [] mode = "suffix" -> {last}
                       [] mode = "equal" -> IF last = 0 THEN {0} ELSE {}
           fit == {p \in places : 0 <= p /\ p <= last
                                  /\ \A i \in DOMAIN quote : Fits(quote[i], line[p + i])}
           masked == \E i \in DOMAIN quote : quote[i] \in E!Masks
           tried == IF masked THEN {p \in fit : \A r \in fit : p <= r} ELSE fit
<1>1. PICK p \in tried : \A i \in DOMAIN quote : Is(quote[i], line[p + i])
  BY DEF E!Matches
<1>2. p \in fit
  <2> HIDE DEF fit, masked
  <2> QED OBVIOUS
<1>3. p \in places /\ 0 <= p /\ p <= last
  <2> HIDE DEF places, last
  <2> QED BY <1>2
<1>4. last \in Int
  BY DEF IsList
<1>5. p \in Int
  <2> HIDE DEF last
  <2> QED BY <1>3, <1>4
<1>6. p \in 0..last
  <2> HIDE DEF places, last
  <2> QED BY <1>3, <1>4, <1>5
<1> QED BY <1>1, <1>6 DEF Holds

\* The lines of a snippet are lists of tokens.
LEMMA SnippetIsList ==
  ASSUME NEW snippet, IsList(snippet), \A l \in Range(snippet) : IsList(l.tokens)
  PROVE  IsList(E!SnippetLines(snippet)) /\ \A q \in Range(E!SnippetLines(snippet)) : IsList(q)
<1> DEFINE all == \A i \in DOMAIN snippet : snippet[i].numbered \/ snippet[i].tokens = <<>>
           Text(l) == IF l.numbered /\ ~all THEN <<"number">> \o l.tokens ELSE l.tokens
           texts == [i \in DOMAIN snippet |-> Text(snippet[i])]
           lines == E!SnippetLines(snippet)
<1>1. lines = E!Nonblank(texts, texts)
  BY DEF E!SnippetLines
<1>2. Len(snippet) \in Nat /\ DOMAIN snippet = 1..Len(snippet)
  BY DEF IsList
<1>3. IsList(texts)
  <2>1. texts = [i \in 1..Len(snippet) |-> texts[i]]
    BY <1>2
  <2> HIDE DEF texts
  <2> QED BY <1>2, <2>1, ListOf
<1>4. ASSUME NEW i \in DOMAIN texts PROVE IsList(texts[i])
  <2> DEFINE t == snippet[i].tokens
  <2>1. IsList(t)
    BY DEF Range
  <2>2. texts[i] = t \/ texts[i] = <<"number">> \o t
    OBVIOUS
  <2> HIDE DEF t, texts
  <2>3. <<"number">> \o t \in Seq(Range(t) \cup {"number"})
    <3> DEFINE Vals == Range(t) \cup {"number"}
           w == <<"number">>
    <3>1. t \in Seq(Vals) /\ w \in Seq(Vals)
      BY <2>1 DEF IsList
    <3> HIDE DEF Vals, w
    <3>2. w \o t \in Seq(Vals)
      BY <3>1
    <3> QED BY <3>2 DEF Vals, w
  <2>4. IsList(<<"number">> \o t)
    BY <2>3, ListIn
  <2> QED BY <2>1, <2>2, <2>4
<1> HIDE DEF texts, lines
<1>5. PICK pos : InOrder(pos, lines, {i \in DOMAIN texts : texts[i] # <<>>}, texts)
  BY <1>1, <1>3, NonblankInOrder
<1>6. IsList(lines)
  BY <1>1, <1>3, NonblankInOrder
<1>7. ASSUME NEW q \in Range(lines) PROVE IsList(q)
  <2>1. PICK k \in 1..Len(lines) : q = lines[k]
    BY <1>6 DEF IsList, Range
  <2> QED BY <2>1, <1>4, <1>5 DEF InOrder
<1> QED BY <1>6, <1>7 DEF lines

\* The lines of a place: as many as are quoted, with nothing but blank ones between.
Placed(at, quoted, lines, from, to) ==
  /\ at \in [DOMAIN quoted -> from..to]
  /\ \A k, l \in DOMAIN quoted : k < l => at[k] < at[l]
  /\ \A i \in from..to : lines[i] = <<>> \/ i \in Range(at)
  /\ \A k \in DOMAIN quoted : Holds(quoted[k], lines[at[k]])

\* What is located is there, whatever place is the nearest.
LEMMA LocateIsPlaced ==
  ASSUME NEW snippet, IsList(snippet), \A l \in Range(snippet) : IsList(l.tokens),
         NEW lines, IsList(lines), \A l \in Range(lines) : IsList(l),
         NEW hint \in Nat, NEW first \in Int,
         E!Locate(snippet, lines, hint, first) # <<>>
  PROVE  \E from, to \in 1..Len(lines) :
             /\ E!Locate(snippet, lines, hint, first) = <<first + from - 1, first + to - 1>>
             /\ \E at : Placed(at, E!SnippetLines(snippet), lines, from, to)
<1> DEFINE wanted == E!SnippetLines(snippet)
           n == Len(wanted)
           modes == E!Modes(wanted)
           item == [i \in DOMAIN lines |-> [at |-> first + i - 1, text |-> lines[i]]]
           kept == E!Kept(lines, first)
           keep == {i \in DOMAIN lines : lines[i] # <<>>}
           starts == E!Starts(wanted, kept)
           Far(s) == E!Far(s, kept, hint)
           best == E!Nearest(starts, kept, hint)
<1>1. /\ wanted # <<>> /\ starts # {}
      /\ E!Locate(snippet, lines, hint, first) = <<kept[best + 1].at, kept[best + Len(wanted)].at>>
  <2>1. E!Locate(snippet, lines, hint, first) =
          IF wanted = <<>> \/ starts = {} THEN <<>>
          ELSE <<kept[best + 1].at, kept[best + Len(wanted)].at>>
    BY DEF E!Locate
  <2> HIDE DEF wanted, starts, kept, best
  <2> QED BY <2>1
<1>2. IsList(wanted) /\ (\A q \in Range(wanted) : IsList(q)) /\ n \in Nat /\ DOMAIN wanted = 1..n
  BY SnippetIsList DEF IsList
<1> HIDE DEF wanted
<1>3. n # 0
  <2>1. wanted \in Seq(Range(wanted)) /\ wanted # <<>>
    BY <1>1, <1>2 DEF IsList
  <2> QED BY <2>1
<1>4. PICK pos : InOrder(pos, kept, keep, item)
  BY NonblankInOrder DEF E!Kept
<1>5. IsList(kept) /\ Len(kept) \in Nat /\ DOMAIN lines = 1..Len(lines) /\ Len(lines) \in Nat
  <2>1. IsList(kept)
    BY NonblankInOrder DEF E!Kept
  <2> HIDE DEF kept
  <2> QED BY <2>1 DEF IsList
<1> HIDE DEF wanted, modes, kept
<1>6. \A k \in 1..Len(kept) : /\ pos[k] \in 1..Len(lines) /\ lines[pos[k]] # <<>>
                              /\ kept[k].at = first + pos[k] - 1 /\ kept[k].text = lines[pos[k]]
  <2> SUFFICES ASSUME NEW k \in 1..Len(kept)
               PROVE  /\ pos[k] \in 1..Len(lines) /\ lines[pos[k]] # <<>>
                      /\ kept[k].at = first + pos[k] - 1 /\ kept[k].text = lines[pos[k]]
    OBVIOUS
  <2>1. pos[k] \in keep /\ kept[k] = item[pos[k]]
    BY <1>4 DEF InOrder
  <2>2. item[pos[k]] = [at |-> first + pos[k] - 1, text |-> lines[pos[k]]]
    BY <2>1
  <2> QED BY <2>1, <2>2, <1>5
<1>7. ASSUME NEW s \in starts PROVE s \in 0..Len(kept) - n /\ s + 1 \in 1..Len(kept)
                                     /\ s + n \in 1..Len(kept)
  BY <1>2, <1>3, <1>5 DEF E!Starts
<1>8. \A s \in starts : Far(s) \in Nat
  <2> SUFFICES ASSUME NEW s \in starts PROVE Far(s) \in Nat
    OBVIOUS
  <2>1. kept[s + 1].at \in Int
    BY <1>6, <1>7
  <2> HIDE DEF starts
  <2> QED BY <2>1 DEF E!Far
<1> HIDE DEF Far, starts
<1>9. \E s \in starts : \A r \in starts : Far(s) < Far(r) \/ (Far(s) = Far(r) /\ s <= r)
  <2>1. PICK d \in {Far(s) : s \in starts} : \A e \in {Far(s) : s \in starts} : d <= e
    <3>1. {Far(s) : s \in starts} \in SUBSET Nat /\ {Far(s) : s \in starts} # {}
      BY <1>1, <1>8
    <3> QED BY <3>1, LeastNumber
  <2>2. \A s \in starts : s \in Nat
    BY <1>7, <1>2, <1>5
  <2>3. PICK s \in {t \in starts : Far(t) = d} : \A r \in {t \in starts : Far(t) = d} : s <= r
    <3>1. {t \in starts : Far(t) = d} \in SUBSET Nat /\ {t \in starts : Far(t) = d} # {}
      BY <2>1, <2>2
    <3> QED BY <3>1, LeastNumber
  <2>4. ASSUME NEW r \in starts PROVE Far(s) < Far(r) \/ (Far(s) = Far(r) /\ s <= r)
    <3>1. Far(s) = d /\ d <= Far(r) /\ Far(s) \in Nat /\ Far(r) \in Nat
      BY <2>1, <2>3, <1>8
    <3>2. Far(r) = d => s <= r
      BY <2>3
    <3> QED BY <3>1, <3>2
  <2> QED BY <2>3, <2>4
<1>10. best \in starts
  BY <1>9 DEF E!Nearest, Far
<1> HIDE DEF best
<1> DEFINE from == pos[best + 1]
           to == pos[best + n]
           at == [k \in 1..n |-> pos[best + k]]
<1>11. best \in Int /\ \A k \in 1..n : best + k \in 1..Len(kept)
  BY <1>7, <1>10, <1>2, <1>5
<1>12. /\ from \in 1..Len(lines) /\ to \in 1..Len(lines)
       /\ kept[best + 1].at = first + from - 1 /\ kept[best + n].at = first + to - 1
  <2>1. 1 \in 1..n /\ n \in 1..n
    BY <1>2, <1>3
  <2> QED BY <2>1, <1>6, <1>11
<1>13. \A k, l \in 1..Len(kept) : k < l => pos[k] < pos[l]
  BY <1>4 DEF InOrder
<1>14. at \in [DOMAIN wanted -> from..to]
  <2>1. ASSUME NEW k \in 1..n PROVE pos[best + k] \in from..to
    <3>1. best + 1 <= best + k /\ best + k <= best + n /\ best + 1 \in 1..Len(kept)
          /\ best + k \in 1..Len(kept) /\ best + n \in 1..Len(kept)
      BY <1>11, <1>2, <1>3
    <3>2. pos[best + k] \in Int /\ from \in Int /\ to \in Int
      BY <3>1, <1>6, <1>12
    <3>3. from <= pos[best + k]
      BY <3>1, <3>2, <1>13
    <3>4. pos[best + k] <= to
      BY <3>1, <3>2, <1>13
    <3> QED BY <3>2, <3>3, <3>4
  <2> HIDE DEF from, to
  <2> QED BY <2>1, <1>2
<1>15. ASSUME NEW k \in 1..n, NEW l \in 1..n, k < l PROVE at[k] < at[l]
  <2>1. best + k \in 1..Len(kept) /\ best + l \in 1..Len(kept) /\ best + k < best + l
    BY <1>15, <1>11
  <2> QED BY <2>1, <1>13
<1>16. ASSUME NEW i \in from..to, lines[i] # <<>> PROVE i \in Range(at)
  <2>1. i \in keep
    BY <1>12, <1>16, <1>5
  <2>2. PICK j \in 1..Len(kept) : pos[j] = i
    BY <2>1, <1>4 DEF InOrder
  <2>3. best + 1 \in 1..Len(kept) /\ best + n \in 1..Len(kept)
    BY <1>11, <1>2, <1>3
  <2>4. from \in Int /\ to \in Int /\ i \in Int
    BY <1>12
  <2>5. best + 1 <= j
    <3>1. ~(j < best + 1)
      BY <2>2, <2>3, <2>4, <1>13
    <3> QED BY <3>1, <1>11
  <2>6. j <= best + n
    <3>1. ~(best + n < j)
      BY <2>2, <2>3, <2>4, <1>13
    <3> QED BY <3>1, <1>11, <1>2
  <2>7. j - best \in 1..n /\ best + (j - best) = j
    BY <2>5, <2>6, <1>11, <1>2
  <2>8. at[j - best] = i
    BY <2>7, <2>2
  <2> HIDE DEF from, to
  <2>9. DOMAIN at = 1..n
    OBVIOUS
  <2> HIDE DEF at
  <2> QED BY <2>7, <2>8, <2>9 DEF Range
<1>17. ASSUME NEW k \in 1..n PROVE Holds(wanted[k], lines[at[k]])
  <2>1. E!Matches(wanted[k], kept[best + k].text, modes[k])
    BY <1>10, <1>2 DEF starts, E!Starts, modes
  <2>2. kept[best + k].text = lines[at[k]] /\ at[k] \in 1..Len(lines)
    BY <1>6, <1>11
  <2>3. modes[k] \in {"inside", "prefix", "suffix", "equal"}
    <3>1. n = 1 => k = 1
      BY <1>2
    <3> QED BY <3>1, <1>2 DEF modes, E!Modes, n
  <2>4. IsList(wanted[k]) /\ IsList(lines[at[k]])
    BY <1>2, <2>2, <1>5 DEF Range
  <2> HIDE DEF at
  <2> QED BY <2>1, <2>2, <2>3, <2>4, MatchesHold
<1>18. Placed(at, wanted, lines, from, to)
  <2> HIDE DEF at, from, to, n
  <2> QED BY <1>2, <1>14, <1>15, <1>16, <1>17 DEF Placed
<1>19. E!Locate(snippet, lines, hint, first) = <<first + from - 1, first + to - 1>>
  BY <1>1, <1>12
<1> HIDE DEF at, from, to
<1> QED BY <1>12, <1>18, <1>19 DEF wanted

\* What a range of the file holds is the file's lines from its first on.
LEMMA CutIsOfTheFile ==
  ASSUME NEW file, IsList(file.lines), \A l \in Range(file.lines) : IsList(l),
         NEW r, r[1] \in Nat \ {0}, r[2] \in Nat
  PROVE  LET cut == E!Cut(file, r)
         IN /\ IsList(cut) /\ \A l \in Range(cut) : IsList(l)
            /\ \A i \in 1..Len(cut) :
                   /\ r[1] + i - 1 \in 1..Len(file.lines) /\ r[1] + i - 1 <= r[2]
                   /\ cut[i] = file.lines[r[1] + i - 1]
<1> DEFINE Vals == Range(file.lines)
           lines == file.lines
           a == r[1]
           b == IF r[2] < Len(lines) THEN r[2] ELSE Len(lines)
           cut == SubSeq(lines, a, b)
<1>1. lines \in Seq(Vals) /\ Len(lines) \in Nat /\ DOMAIN lines = 1..Len(lines)
  BY DEF IsList
<1>2. a \in Nat \ {0} /\ b \in Nat /\ b <= Len(lines) /\ b <= r[2]
  BY <1>1
<1>3. cut = E!Cut(file, r)
  BY DEF E!Cut
<1> HIDE DEF Vals, lines, a, b
<1>4. \A i \in a..b : lines[i] \in Vals
  BY <1>1, <1>2
<1>5. cut \in Seq(Vals) /\ \A i \in 1..Len(cut) : a + i - 1 \in a..b /\ cut[i] = lines[a + i - 1]
  BY <1>1, <1>2, <1>4
<1> HIDE DEF cut
<1>6. IsList(cut) /\ Range(cut) \subseteq Vals
  BY <1>5, ListIn
<1>7. \A i \in 1..Len(cut) : a + i - 1 \in 1..Len(lines) /\ a + i - 1 <= r[2]
                             /\ cut[i] = lines[a + i - 1]
  BY <1>1, <1>2, <1>5
<1>8. \A l \in Range(cut) : IsList(l)
  BY <1>6 DEF Vals
<1> QED BY <1>3, <1>6, <1>7, <1>8 DEF a, lines

\* What a range of the file shows of a snippet is there, at the lines that are given.
ShownAt(file, finding, r, value) ==
  \E from, to \in 1..Len(file.lines) :
      /\ value = <<from, to>> /\ r[1] <= from /\ to <= r[2]
      /\ \E at : Placed(at, E!SnippetLines(finding.snippet), file.lines, from, to)

\* A snippet that is found in a range is in the file at the lines that are said.
LEMMA InRangeIsShown ==
  ASSUME NEW file, IsList(file.lines), \A l \in Range(file.lines) : IsList(l),
         NEW finding, IsList(finding.snippet), \A l \in Range(finding.snippet) : IsList(l.tokens),
         finding.line \in Nat,
         NEW r, r[1] \in Nat \ {0}, r[2] \in Nat,
         E!InRange(file, finding, r) # <<>>
  PROVE  ShownAt(file, finding, r, E!InRange(file, finding, r))
<1> DEFINE cut == E!Cut(file, r)
           lines == file.lines
           wanted == E!SnippetLines(finding.snippet)
           value == E!InRange(file, finding, r)
           a == r[1]
<1>1. IsList(cut) /\ \A l \in Range(cut) : IsList(l)
  BY CutIsOfTheFile
<1>2. \A i \in 1..Len(cut) : a + i - 1 \in 1..Len(lines) /\ a + i - 1 <= r[2]
                             /\ cut[i] = lines[a + i - 1]
  BY CutIsOfTheFile
<1>3. value = E!Locate(finding.snippet, cut, finding.line, a)
  BY DEF E!InRange
<1>4. a \in Int /\ a \in Nat
  OBVIOUS
<1> HIDE DEF cut, a
<1>5. PICK f, t \in 1..Len(cut) : /\ value = <<a + f - 1, a + t - 1>>
                                  /\ \E at : Placed(at, wanted, cut, f, t)
  BY <1>1, <1>3, <1>4, LocateIsPlaced
<1>6. PICK at : Placed(at, wanted, cut, f, t)
  BY <1>5
<1> HIDE DEF wanted, value, lines
<1> DEFINE from == a + f - 1
           to == a + t - 1
           there == [k \in DOMAIN wanted |-> a + at[k] - 1]
<1>7. Len(cut) \in Nat /\ f \in Int /\ t \in Int
  BY <1>1 DEF IsList
<1>8. from \in 1..Len(lines) /\ to \in 1..Len(lines) /\ a <= from /\ to <= r[2]
  BY <1>2, <1>4, <1>5, <1>7
<1>9. \A k \in DOMAIN wanted : at[k] \in f..t
  BY <1>6 DEF Placed
<1>10. f..t \subseteq 1..Len(cut)
  BY <1>5, <1>7
<1>11. there \in [DOMAIN wanted -> from..to]
  <2>1. \A k \in DOMAIN wanted : a + at[k] - 1 \in from..to
    BY <1>4, <1>7, <1>9
  <2> HIDE DEF from, to
  <2> QED BY <2>1
<1>12. \A k, l \in DOMAIN wanted : k < l => there[k] < there[l]
  <2> SUFFICES ASSUME NEW k \in DOMAIN wanted, NEW l \in DOMAIN wanted, k < l
               PROVE  there[k] < there[l]
    OBVIOUS
  <2>1. at[k] < at[l]
    BY <1>6 DEF Placed
  <2>2. at[k] \in Int /\ at[l] \in Int
    BY <1>9
  <2> QED BY <2>1, <2>2, <1>4
<1>13. ASSUME NEW i \in from..to, lines[i] # <<>> PROVE i \in Range(there)
  <2> DEFINE j == i - a + 1
  <2>1. j \in f..t /\ a + j - 1 = i
    BY <1>4, <1>7
  <2>2. cut[j] = lines[i]
    <3> HIDE DEF j
    <3> QED BY <2>1, <1>2, <1>10
  <2>3. j \in Range(at)
    <3> HIDE DEF j
    <3> QED BY <2>1, <2>2, <1>6, <1>13 DEF Placed
  <2>4. DOMAIN at = DOMAIN wanted
    BY <1>6 DEF Placed
  <2>5. PICK k \in DOMAIN wanted : at[k] = j
    <3> HIDE DEF j
    <3> QED BY <2>3, <2>4 DEF Range
  <2>6. there[k] = i
    <3> HIDE DEF j
    <3> QED BY <2>1, <2>5
  <2>7. DOMAIN there = DOMAIN wanted
    OBVIOUS
  <2> HIDE DEF there
  <2> QED BY <2>6, <2>7 DEF Range
<1>14. ASSUME NEW k \in DOMAIN wanted PROVE Holds(wanted[k], lines[there[k]])
  <2>1. Holds(wanted[k], cut[at[k]])
    BY <1>6 DEF Placed
  <2>2. cut[at[k]] = lines[a + at[k] - 1]
    BY <1>2, <1>9, <1>10
  <2> QED BY <2>1, <2>2
<1> HIDE DEF there, from, to
<1>15. Placed(there, wanted, lines, from, to)
  BY <1>11, <1>12, <1>13, <1>14 DEF Placed
<1>16. value = <<from, to>>
  BY <1>5 DEF from, to
<1> HIDE DEF ShownAt
<1> QED
  <2>1. \E x, y \in 1..Len(lines) : /\ value = <<x, y>> /\ a <= x /\ y <= r[2]
                                    /\ \E p : Placed(p, wanted, lines, x, y)
    BY <1>8, <1>15, <1>16
  <2> QED BY <2>1 DEF ShownAt, value, wanted, lines, a

\* A range that was sent is of a part of the finding's request, of any if it names none.
LEMMA SentRangesAreOfItsParts ==
  ASSUME NEW manifest, IsList(manifest.parts),
         \A part \in Range(manifest.parts) : IsList(part.ranges),
         NEW chunk
  PROVE  /\ IsList(E!SentRanges(manifest, chunk))
         /\ \A i \in DOMAIN E!SentRanges(manifest, chunk) :
                \E k \in DOMAIN manifest.parts :
                    /\ chunk \in {0, manifest.parts[k].index}
                    /\ E!SentRanges(manifest, chunk)[i] \in Range(manifest.parts[k].ranges)
<1> DEFINE parts == manifest.parts
           n == Len(parts)
           seqs == [k \in DOMAIN parts |->
                      LET p == parts[k]
                      IN IF chunk # 0 /\ p.index # chunk THEN <<>> ELSE p.ranges]
           Vals == UNION {Range(parts[k].ranges) : k \in DOMAIN parts}
           flat == E!SentRanges(manifest, chunk)
<1>1. n \in Nat /\ DOMAIN parts = 1..n
  BY DEF IsList
<1>2. flat = FlattenSeq(seqs)
  BY DEF E!SentRanges, E!FlattenSeq, FlattenSeq
<1>3. ASSUME NEW k \in DOMAIN parts PROVE IsList(parts[k].ranges) /\ Range(parts[k].ranges) \subseteq Vals
  BY DEF Range
<1>4. ASSUME NEW k \in DOMAIN parts
      PROVE  /\ seqs[k] = <<>> \/ (chunk \in {0, parts[k].index} /\ seqs[k] = parts[k].ranges)
             /\ seqs[k] \in Seq(Vals)
  <2>1. seqs[k] = <<>> \/ (chunk \in {0, parts[k].index} /\ seqs[k] = parts[k].ranges)
    OBVIOUS
  <2> DEFINE q == parts[k].ranges
  <2>2. q \in Seq(Range(q)) /\ Range(q) \subseteq Vals
    BY <1>3 DEF IsList
  <2> HIDE DEF Vals, seqs, q
  <2>3. q \in Seq(Vals)
    BY <2>2
  <2>4. <<>> \in Seq(Vals)
    OBVIOUS
  <2> QED BY <2>1, <2>3, <2>4 DEF q
<1>5. seqs = [k \in 1..n |-> seqs[k]]
  BY <1>1
<1> HIDE DEF Vals, flat
<1>6. seqs \in Seq(Seq(Vals))
  <2> HIDE DEF seqs, n
  <2> DEFINE Z == Seq(Vals)
  <2>1. \A k \in 1..n : seqs[k] \in Z
    BY <1>1, <1>4
  <2> HIDE DEF Z
  <2>2. seqs \in Seq(Z)
    BY <2>1, <1>1, <1>5
  <2> QED BY <2>2 DEF Z
<1>7. DOMAIN seqs = DOMAIN parts
  OBVIOUS
<1> HIDE DEF seqs
<1>8. Range(flat) = UNION {Range(seqs[k]) : k \in DOMAIN seqs}
  BY <1>2, <1>6, FlattenMembers
<1>9. IsList(flat)
  BY <1>2, <1>6, FlattenMembers, ListIn
<1>10. ASSUME NEW i \in DOMAIN flat
       PROVE  \E k \in DOMAIN parts : chunk \in {0, parts[k].index} /\ flat[i] \in Range(parts[k].ranges)
  <2>1. flat[i] \in Range(flat)
    BY DEF Range
  <2>2. PICK k \in DOMAIN seqs : flat[i] \in Range(seqs[k])
    BY <1>8, <2>1
  <2>3. seqs[k] # <<>>
    <3>1. Range(<<>>) = {}
      BY DEF Range
    <3> QED BY <3>1, <2>2
  <2> QED BY <1>4, <1>7, <2>2, <2>3
<1> QED BY <1>9, <1>10 DEF flat

\* A check is as EvidenceIsThere asks.
LEMMA EvidenceSound ==
  ASSUME asked.in \in Given("evidence"),
         answer.value = E!Check(asked.in.file, asked.in.finding, asked.in.manifest)
  PROVE  EvidenceIsThere
<1> DEFINE in == asked.in
           value == answer.value
           ranges == E!Ranges(in.file, in.finding, in.manifest)
           Where(i) == E!InRange(in.file, in.finding, ranges[i])
           hits == IF in.file.readable THEN {i \in DOMAIN ranges : Where(i) # <<>>} ELSE {}
           first == CHOOSE i \in hits : \A j \in hits : i <= j
<1>1. value = IF in.finding.snippet = <<>> THEN [lines |-> <<>>, verified |-> in.finding.verified]
              ELSE IF hits = {} THEN [lines |-> <<>>, verified |-> FALSE]
              ELSE [lines |-> Where(first), verified |-> in.finding.verified]
  BY DEF E!Check
<1>2. /\ IsList(in.file.lines) /\ \A l \in Range(in.file.lines) : IsList(l)
      /\ IsList(in.finding.snippet) /\ \A l \in Range(in.finding.snippet) : IsList(l.tokens)
      /\ in.finding.line \in Nat
      /\ in.manifest.known =>
             /\ IsList(in.manifest.parts)
             /\ \A part \in Range(in.manifest.parts) :
                    /\ IsList(part.ranges)
                    /\ \A r \in Range(part.ranges) : r[1] \in Nat \ {0} /\ r[2] \in Nat
  BY EvidenceAssumption
<1>3. ASSUME NEW i \in DOMAIN ranges
      PROVE  /\ ranges[i][1] \in Nat \ {0} /\ ranges[i][2] \in Nat
             /\ in.manifest.known =>
                    \E k \in DOMAIN in.manifest.parts :
                        /\ in.finding.chunk \in {0, in.manifest.parts[k].index}
                        /\ ranges[i] \in Range(in.manifest.parts[k].ranges)
  <2>1. CASE ~in.manifest.known
    <3>1. ranges = <<<<1, Len(in.file.lines)>>>>
      BY <2>1 DEF E!Ranges
    <3>2. i = 1 /\ ranges[1] = <<1, Len(in.file.lines)>>
      <4> HIDE DEF ranges
      <4> QED BY <3>1
    <3>3. Len(in.file.lines) \in Nat
      BY <1>2 DEF IsList
    <3> HIDE DEF ranges, in
    <3> QED BY <2>1, <3>2, <3>3
  <2>2. CASE in.manifest.known
    <3>1. ranges = E!SentRanges(in.manifest, in.finding.chunk)
      BY <2>2 DEF E!Ranges
    <3> HIDE DEF ranges, in
    <3>2. PICK k \in DOMAIN in.manifest.parts :
              /\ in.finding.chunk \in {0, in.manifest.parts[k].index}
              /\ ranges[i] \in Range(in.manifest.parts[k].ranges)
      BY <2>2, <3>1, <1>2, SentRangesAreOfItsParts
    <3>3. in.manifest.parts[k] \in Range(in.manifest.parts)
      BY DEF Range
    <3> QED BY <2>2, <3>2, <3>3, <1>2
  <2> QED BY <2>1, <2>2
<1>4. value.verified => in.finding.verified
  <2> HIDE DEF hits, first, Where, value, in
  <2> QED BY <1>1
<1>5. DOMAIN ranges \subseteq Nat
  <2>1. CASE ~in.manifest.known
    <3>1. ranges = <<<<1, Len(in.file.lines)>>>>
      BY <2>1 DEF E!Ranges
    <3> HIDE DEF ranges
    <3> QED BY <3>1
  <2>2. CASE in.manifest.known
    <3>1. ranges = E!SentRanges(in.manifest, in.finding.chunk)
      BY <2>2 DEF E!Ranges
    <3>2. IsList(ranges)
      BY <2>2, <3>1, <1>2, SentRangesAreOfItsParts
    <3> HIDE DEF ranges
    <3> QED BY <3>2 DEF IsList
  <2> QED BY <2>1, <2>2
<1>6. ASSUME hits # {} PROVE first \in hits /\ first \in DOMAIN ranges /\ Where(first) # <<>>
  <2>1. hits \in SUBSET Nat /\ \A i \in hits : i \in DOMAIN ranges /\ Where(i) # <<>>
    <3> HIDE DEF ranges, Where, in
    <3> QED BY <1>5
  <2> HIDE DEF hits, Where, ranges, in
  <2>2. \E i \in hits : \A j \in hits : i <= j
    BY <1>6, <2>1, LeastNumber
  <2>3. first \in hits
    BY <2>2
  <2> HIDE DEF first
  <2> QED BY <2>1, <2>3
<1> HIDE DEF hits, first
<1>7. value.verified /\ in.finding.snippet # <<>> => value.lines # <<>>
  <2> HIDE DEF Where, value, in
  <2> QED BY <1>1, <1>6
<1>8. ASSUME value.lines # <<>>
      PROVE  hits # {} /\ value.lines = Where(first)
  <2> HIDE DEF Where, value, in
  <2> QED BY <1>1, <1>8
<1>9. ASSUME value.lines # <<>>
      PROVE  ShownAt(in.file, in.finding, ranges[first], value.lines)
  <2> DEFINE r == ranges[first]
  <2>1. first \in DOMAIN ranges /\ E!InRange(in.file, in.finding, r) # <<>>
        /\ value.lines = E!InRange(in.file, in.finding, r)
    BY <1>6, <1>8, <1>9
  <2>2. r[1] \in Nat \ {0} /\ r[2] \in Nat
    BY <1>3, <2>1
  <2> HIDE DEF r, value, in, ranges, ShownAt
  <2>3. ShownAt(in.file, in.finding, r, E!InRange(in.file, in.finding, r))
    BY <1>2, <2>1, <2>2, InRangeIsShown
  <2> QED BY <2>1, <2>3 DEF r
<1> DEFINE quoted == E!SnippetLines(in.finding.snippet)
           from == value.lines[1]
           to == value.lines[2]
<1>10. ASSUME value.lines # <<>>
       PROVE  /\ ranges[first][1] <= from /\ to <= ranges[first][2]
              /\ \E at : Placed(at, quoted, in.file.lines, from, to)
  <2>1. PICK x, y \in 1..Len(in.file.lines) :
           /\ value.lines = <<x, y>> /\ ranges[first][1] <= x /\ y <= ranges[first][2]
           /\ \E at : Placed(at, quoted, in.file.lines, x, y)
    BY <1>9, <1>10 DEF ShownAt
  <2> HIDE DEF value, ranges, in, quoted, Placed
  <2>2. from = x /\ to = y
    BY <2>1
  <2> QED BY <2>1, <2>2
<1>11. ASSUME value.lines # <<>>
       PROVE  /\ \E at \in [DOMAIN quoted -> from..to] :
                     /\ \A k, l \in DOMAIN quoted : k < l => at[k] < at[l]
                     /\ \A i \in from..to : in.file.lines[i] = <<>> \/ i \in Range(at)
                     /\ \A k \in DOMAIN quoted : Holds(quoted[k], in.file.lines[at[k]])
              /\ in.manifest.known =>
                     \E k \in DOMAIN in.manifest.parts :
                         /\ in.finding.chunk \in {0, in.manifest.parts[k].index}
                         /\ \E r \in Range(in.manifest.parts[k].ranges) : r[1] <= from /\ to <= r[2]
  <2> HIDE DEF value, ranges, in, quoted, from, to
  <2>1. PICK at : Placed(at, quoted, in.file.lines, from, to)
    BY <1>10, <1>11
  <2>2. first \in DOMAIN ranges
    BY <1>6, <1>8, <1>11
  <2>3. in.manifest.known =>
            \E k \in DOMAIN in.manifest.parts :
                /\ in.finding.chunk \in {0, in.manifest.parts[k].index}
                /\ ranges[first] \in Range(in.manifest.parts[k].ranges)
    BY <2>2, <1>3
  <2>4. ranges[first][1] <= from /\ to <= ranges[first][2]
    BY <1>10, <1>11
  <2> QED BY <2>1, <2>3, <2>4 DEF Placed
<1> QED BY <1>4, <1>7, <1>11 DEF EvidenceIsThere

\* The lines that are stored of a finding hold its snippet, and its own request carried
\* them (evidence.check).
THEOREM EvidenceStands == Spec => []EvidenceIsThere
<1>1. Inv => EvidenceIsThere
  <2> SUFFICES ASSUME Inv, Answered("evidence") PROVE EvidenceIsThere
    BY DEF EvidenceIsThere
  <2>1. asked.in \in Given("evidence") /\ answer.value = E!Check(asked.in.file, asked.in.finding, asked.in.manifest)
    BY AnsweredAsFound DEF ResultOf
  <2> QED BY <2>1, EvidenceAssumption, EvidenceSound
<1> QED BY <1>1, InvHolds, PTL

===============================================================================
