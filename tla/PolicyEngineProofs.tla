-------------------------- MODULE PolicyEngineProofs --------------------------
(***************************************************************************)
(* Proofs about PolicyEngine.tla for any rules, requests and namespaces.   *)
(*                                                                         *)
(* The heart is lemma EvaluateIs: whatever sort.Slice does with rules of   *)
(* equal priority, the decisions Evaluate may return depend only on the    *)
(* set of matching rules, and are the effects of those that come first in  *)
(* priority.  That every such rule may come first, and that there is a     *)
(* sorted arrangement at all, rests on the ranks of OrderLemmas.tla.       *)
(***************************************************************************)
EXTENDS PolicyEngine, OrderLemmas, SequenceTheorems

-----------------------------------------------------------------------------
(* Sorting *)

(* A non-empty finite set of numbers has a least element.                  *)
LEMMA LeastNumber ==
    ASSUME NEW S \in SUBSET Nat, S # {}, IsFiniteSet(S)
    PROVE  Min(S) \in S /\ \A i \in S : Min(S) <= i
  <1> DEFINE R == Ascending(S)
             rank == Rank(R, S)
             n == Cardinality(S)
  <1>1. /\ rank \in Bijection(S, 1 .. n)
        /\ \A i, j \in S : <<i, j>> \in R /\ i # j => rank[i] < rank[j]
    BY AscendingOrder, RankIsBijection
  <1>2. n \in Nat /\ n # 0
    BY FS_CardinalityType, FS_EmptySet
  <1>3. \A i, j \in S : <<i, j>> \in R <=> i <= j
    BY AscendingOrder
  <1> HIDE DEF R, rank, n
  <1>4. rank \in [S -> 1 .. n] /\ \A k \in 1 .. n : \E i \in S : rank[i] = k
    BY <1>1 DEF Bijection, Injection, Surjection
  <1>5. PICK x \in S : rank[x] = 1
    BY <1>2, <1>4
  <1>6. ASSUME NEW y \in S PROVE x <= y
    <2>1. ~(y < x)
      <3>1. rank[y] >= 1 /\ rank[y] \in Nat
        BY <1>2, <1>4
      <3>2. y < x => <<y, x>> \in R /\ y # x
        BY <1>3
      <3>3. ~(rank[y] < rank[x])
        BY <1>5, <3>1
      <3> QED BY <1>1, <3>2, <3>3
    <2> QED BY <2>1
  <1> QED BY <1>6 DEF Min

-----------------------------------------------------------------------------
(* Evaluate *)

(* What Evaluate is given: finitely many rules at numbered places.         *)
RuleList(rs) ==
    /\ IsFiniteSet(DOMAIN rs)
    /\ DOMAIN rs \subseteq Nat
    /\ \A i \in DOMAIN rs : rs[i].priority \in Int

MatchingOf(rs, r) == {rs[i] : i \in {j \in DOMAIN rs : Matches(rs[j], r)}}

FirstOf(M) == {m \in M : \A o \in M : m.priority <= o.priority}

(* The place of the first matching rule of a list.                         *)
Match(s, r) == {i \in DOMAIN s : Matches(s[i], r)}

(* A sorted list has the rules of the original one.                        *)
LEMMA SortedRules ==
    ASSUME NEW rs, NEW s \in SortedByPriority(rs)
    PROVE  /\ DOMAIN s = DOMAIN rs
           /\ \A i \in DOMAIN s : \E j \in DOMAIN rs : s[i] = rs[j]
           /\ \A j \in DOMAIN rs : \E i \in DOMAIN s : s[i] = rs[j]
           /\ \A i, j \in DOMAIN s : i < j => s[i].priority <= s[j].priority
  <1>1. PICK f \in Bijection(DOMAIN rs, DOMAIN rs) : s = [i \in DOMAIN rs |-> rs[f[i]]]
    BY DEF SortedByPriority
  <1>2. \A i, j \in DOMAIN s : i < j => s[i].priority <= s[j].priority
    BY DEF SortedByPriority
  <1>3. /\ f \in [DOMAIN rs -> DOMAIN rs]
        /\ \A j \in DOMAIN rs : \E i \in DOMAIN rs : f[i] = j
    BY DEF Bijection, Injection, Surjection
  <1> QED BY <1>1, <1>2, <1>3

(* In a sorted list, the first rule that matches comes first in priority   *)
(* among all that match.                                                   *)
LEMMA FirstMatch ==
    ASSUME NEW rs, RuleList(rs), NEW r, NEW s \in SortedByPriority(rs)
    PROVE  /\ Match(s, r) = {} <=> MatchingOf(rs, r) = {}
           /\ Match(s, r) # {} => /\ Min(Match(s, r)) \in Match(s, r)
                                  /\ \A i \in Match(s, r) : Min(Match(s, r)) <= i
                                  /\ s[Min(Match(s, r))] \in FirstOf(MatchingOf(rs, r))
  <1> DEFINE S == Match(s, r)
             M == MatchingOf(rs, r)
  <1>1. /\ DOMAIN s = DOMAIN rs
        /\ \A i \in DOMAIN s : \E j \in DOMAIN rs : s[i] = rs[j]
        /\ \A j \in DOMAIN rs : \E i \in DOMAIN s : s[i] = rs[j]
        /\ \A i, j \in DOMAIN s : i < j => s[i].priority <= s[j].priority
    BY SortedRules
  <1>2. \A i \in S : s[i] \in M
    BY <1>1 DEF Match, MatchingOf
  <1>3. \A m \in M : \E i \in S : s[i] = m
    BY <1>1 DEF Match, MatchingOf
  <1>4. S \in SUBSET DOMAIN rs /\ S \in SUBSET Nat /\ IsFiniteSet(S)
    BY <1>1, FS_Subset DEF RuleList, Match
  <1>5. \A i \in S : s[i].priority \in Int
    BY <1>1, <1>4 DEF RuleList
  <1> HIDE DEF S, M
  <1>6. ASSUME S # {}
        PROVE  /\ Min(S) \in S /\ \A i \in S : Min(S) <= i
               /\ s[Min(S)] \in FirstOf(M)
    <2>1. Min(S) \in S /\ \A i \in S : Min(S) <= i
      BY <1>4, <1>6, LeastNumber
    <2>2. ASSUME NEW o \in M PROVE s[Min(S)].priority <= o.priority
      <3>1. PICK i \in S : s[i] = o
        BY <1>3
      <3>2. CASE i = Min(S)
        BY <1>5, <3>1, <3>2
      <3>3. CASE Min(S) < i
        BY <1>1, <1>4, <2>1, <3>1, <3>3
      <3> QED BY <1>4, <2>1, <3>2, <3>3
    <2> QED BY <1>2, <2>1, <2>2 DEF FirstOf
  <1> QED BY <1>2, <1>3, <1>6 DEF S, M

(* By priority, and rule t before the others of its priority.              *)
Precedes(rs, t, i, j) ==
    \/ rs[i].priority < rs[j].priority
    \/ /\ rs[i].priority = rs[j].priority
       /\ i = t \/ (j # t /\ i <= j)

ByPriority(rs, t) == {x \in (DOMAIN rs) \X (DOMAIN rs) : Precedes(rs, t, x[1], x[2])}

(* The pairs of that order.                                                *)
LEMMA ByPriorityPairs ==
    ASSUME NEW rs, NEW t, NEW i \in DOMAIN rs, NEW j \in DOMAIN rs
    PROVE  <<i, j>> \in ByPriority(rs, t) <=> Precedes(rs, t, i, j)
  BY DEF ByPriority

(* It is a total order of the places of a list.                            *)
LEMMA PriorityOrder ==
    ASSUME NEW rs, RuleList(rs), NEW t \in DOMAIN rs
    PROVE  /\ TotalOrder(ByPriority(rs, t), DOMAIN rs)
           /\ \A i, j \in DOMAIN rs : <<i, j>> \in ByPriority(rs, t) =>
                /\ rs[i].priority <= rs[j].priority
                /\ (j = t /\ i # t) => rs[i].priority < rs[j].priority
  <1> DEFINE D == DOMAIN rs
             R == ByPriority(rs, t)
  <1>1. \A i, j \in D : <<i, j>> \in R <=>
            \/ rs[i].priority < rs[j].priority
            \/ /\ rs[i].priority = rs[j].priority
               /\ i = t \/ (j # t /\ i <= j)
    <2>1. \A i, j \in D : <<i, j>> \in R <=> Precedes(rs, t, i, j)
      BY ByPriorityPairs
    <2> QED BY <2>1 DEF Precedes
  <1>2. \A i \in D : rs[i].priority \in Int /\ i \in Nat
    BY DEF RuleList
  <1> HIDE DEF R
  <1>3. \A i \in D : <<i, i>> \in R
    BY <1>1, <1>2
  <1>4. \A i, j \in D : <<i, j>> \in R /\ <<j, i>> \in R => i = j
    BY <1>1, <1>2
  <1>5. \A i, j, k \in D : <<i, j>> \in R /\ <<j, k>> \in R => <<i, k>> \in R
    BY <1>1, <1>2
  <1>6. ASSUME NEW i \in D, NEW j \in D PROVE <<i, j>> \in R \/ <<j, i>> \in R
    <2>1. CASE rs[i].priority = rs[j].priority
      <3>1. i <= j \/ j <= i
        BY <1>2
      <3> QED BY <1>1, <2>1, <3>1
    <2>2. CASE rs[i].priority # rs[j].priority
      <3>1. rs[i].priority < rs[j].priority \/ rs[j].priority < rs[i].priority
        BY <1>2, <2>2
      <3> QED BY <1>1, <3>1
    <2> QED BY <2>1, <2>2
  <1>7. \A i, j \in D : <<i, j>> \in R =>
            /\ rs[i].priority <= rs[j].priority
            /\ (j = t /\ i # t) => rs[i].priority < rs[j].priority
    BY <1>1, <1>2
  <1> QED BY <1>3, <1>4, <1>5, <1>6, <1>7 DEF TotalOrder, R

(* Any rule may come before all others of its priority.                    *)
LEMMA SortedExists ==
    ASSUME NEW rs, RuleList(rs), NEW t \in DOMAIN rs
    PROVE  \E s \in SortedByPriority(rs) : \E i \in DOMAIN s :
                s[i] = rs[t] /\ \A j \in DOMAIN s : j < i => s[j].priority < rs[t].priority
  <1> DEFINE D == DOMAIN rs
             n == Cardinality(D)
             P == ByPriority(rs, t)
             a == Rank(Ascending(D), D)
             b == Rank(P, D)
             f == [i \in D |-> CHOOSE j \in D : b[j] = a[i]]
             s == [i \in D |-> rs[f[i]]]
  <1>0. IsFiniteSet(D) /\ D \in SUBSET Nat /\ \A i \in D : i \in Nat
    BY DEF RuleList
  <1>1. /\ a \in [D -> 1 .. n] /\ \A k \in 1 .. n : \E i \in D : a[i] = k
        /\ \A i, j \in D : a[i] = a[j] => i = j
        /\ \A i, j \in D : i < j => a[i] < a[j]
    <2>1. /\ a \in Bijection(D, 1 .. n)
          /\ \A i, j \in D : <<i, j>> \in Ascending(D) /\ i # j => a[i] < a[j]
          /\ \A i, j \in D : <<i, j>> \in Ascending(D) <=> i <= j
      BY <1>0, AscendingOrder, RankIsBijection
    <2> HIDE DEF a, D, n
    <2>2. \A i, j \in D : i < j => i <= j /\ i # j
      BY <1>0
    <2>3. /\ a \in [D -> 1 .. n] /\ \A k \in 1 .. n : \E i \in D : a[i] = k
          /\ \A i, j \in D : a[i] = a[j] => i = j
      BY <2>1 DEF Bijection, Injection, Surjection, IsInjective
    <2> QED BY <2>1, <2>2, <2>3
  <1>2. /\ b \in [D -> 1 .. n] /\ \A k \in 1 .. n : \E i \in D : b[i] = k
        /\ \A i, j \in D : b[i] = b[j] => i = j
        /\ \A i, j \in D : <<i, j>> \in P /\ i # j => b[i] < b[j]
    <2>1. /\ b \in Bijection(D, 1 .. n)
          /\ \A i, j \in D : <<i, j>> \in P /\ i # j => b[i] < b[j]
      BY <1>0, PriorityOrder, RankIsBijection
    <2> HIDE DEF b, D, n
    <2>2. /\ b \in [D -> 1 .. n] /\ \A k \in 1 .. n : \E i \in D : b[i] = k
          /\ \A i, j \in D : b[i] = b[j] => i = j
      BY <2>1 DEF Bijection, Injection, Surjection, IsInjective
    <2> QED BY <2>1, <2>2
  <1>3. /\ \A i, j \in D : <<i, j>> \in P \/ <<j, i>> \in P
        /\ \A i, j \in D : <<i, j>> \in P =>
                /\ rs[i].priority <= rs[j].priority
                /\ (j = t /\ i # t) => rs[i].priority < rs[j].priority
    BY PriorityOrder DEF TotalOrder
  <1>d. t \in D
    OBVIOUS
  <1> HIDE DEF a, b, n, P
  <1>4. ASSUME NEW i \in D PROVE f[i] \in D /\ b[f[i]] = a[i]
    <2>1. \E j \in D : b[j] = a[i]
      BY <1>1, <1>2
    <2> QED BY <2>1
  <1>5. f \in [D -> D]
    BY <1>4
  <1> HIDE DEF f
  <1>6. \A i, j \in D : f[i] = f[j] => i = j
    BY <1>1, <1>4
  <1>7. ASSUME NEW j \in D PROVE \E i \in D : f[i] = j
    <2>1. PICK i \in D : a[i] = b[j]
      BY <1>1, <1>2
    <2>2. b[f[i]] = b[j] /\ f[i] \in D
      BY <1>4, <2>1
    <2> QED BY <1>2, <2>2
  <1>8. f \in Bijection(D, D)
    BY <1>5, <1>6, <1>7, Fun_IsBij
  <1>9. ASSUME NEW i \in D, NEW j \in D, i < j
        PROVE  <<f[i], f[j]>> \in P /\ f[i] # f[j]
    <2>1. b[f[i]] < b[f[j]]
      BY <1>1, <1>4, <1>9
    <2>2. f[i] \in D /\ f[j] \in D /\ b[f[i]] \in Int /\ b[f[j]] \in Int
      BY <1>2, <1>5
    <2>3. f[i] # f[j]
      BY <2>1, <2>2
    <2>4. ~(<<f[j], f[i]>> \in P)
      BY <1>2, <2>1, <2>2, <2>3
    <2> QED BY <1>3, <2>2, <2>3, <2>4
  <1>10. \A i, j \in D : i < j => s[i].priority <= s[j].priority
    BY <1>3, <1>5, <1>9
  <1>11. s \in SortedByPriority(rs) /\ DOMAIN s = D
    BY <1>8, <1>10 DEF SortedByPriority
  <1>12. PICK i \in D : f[i] = t
    BY <1>7, <1>d
  <1>13. ASSUME NEW j \in D, j < i PROVE s[j].priority < rs[t].priority
    BY <1>3, <1>5, <1>9, <1>12, <1>13
  <1>14. s[i] = rs[t]
    BY <1>12
  <1> QED BY <1>11, <1>12, <1>13, <1>14

(* There is a sorted list.                                                 *)
LEMMA SomeSorted ==
    ASSUME NEW rs, RuleList(rs)
    PROVE  \E s : s \in SortedByPriority(rs)
  <1>1. CASE DOMAIN rs = {}
    <2> DEFINE s == [i \in DOMAIN rs |-> rs[[k \in DOMAIN rs |-> k][i]]]
    <2>1. [k \in DOMAIN rs |-> k] \in Bijection(DOMAIN rs, DOMAIN rs)
      BY DEF Bijection, Injection, Surjection, IsInjective
    <2>2. \A i, j \in DOMAIN s : i < j => s[i].priority <= s[j].priority
      BY <1>1
    <2>3. s \in SortedByPriority(rs)
      BY <2>1, <2>2 DEF SortedByPriority
    <2> QED BY <2>3
  <1>2. CASE DOMAIN rs # {}
    <2>1. PICK t : t \in DOMAIN rs
      BY <1>2
    <2> QED BY <2>1, SortedExists
  <1> QED BY <1>1, <1>2

(* The decision on a sorted list. *)
Decision(s, r) == IF Match(s, r) = {} THEN "allow" ELSE s[Min(Match(s, r))].effect

(* What Evaluate may return, whatever the sort does with equal priorities: *)
(* the effects of the matching rules that are first in priority.           *)
LEMMA EvaluateIs ==
    ASSUME NEW rs, RuleList(rs), NEW r
    PROVE  Evaluate(rs, r) =
                IF FirstOf(MatchingOf(rs, r)) = {} THEN {"allow"}
                ELSE {m.effect : m \in FirstOf(MatchingOf(rs, r))}
  <1> DEFINE M == MatchingOf(rs, r)
             F == FirstOf(M)
  <1>1. Evaluate(rs, r) = {Decision(s, r) : s \in SortedByPriority(rs)}
    BY DEF Evaluate, Decision, Match
  <1>2. PICK s0 : s0 \in SortedByPriority(rs)
    BY SomeSorted
  <1>3. CASE M = {}
    <2>1. F = {}
      BY <1>3 DEF FirstOf
    <2>2. \A s \in SortedByPriority(rs) : Decision(s, r) = "allow"
      BY <1>3, FirstMatch DEF Decision
    <2> QED BY <1>1, <1>2, <2>1, <2>2
  <1>4. CASE M # {}
    <2>1. ASSUME NEW s \in SortedByPriority(rs)
          PROVE  /\ s[Min(Match(s, r))] \in F
                 /\ Decision(s, r) = s[Min(Match(s, r))].effect
      BY <1>4, FirstMatch DEF Decision
    <2>2. F # {}
      BY <1>2, <2>1
    <2>3. ASSUME NEW m \in F
          PROVE  \E s \in SortedByPriority(rs) : Decision(s, r) = m.effect
      <3>1. m \in M /\ \A o \in M : m.priority <= o.priority
        BY DEF FirstOf
      <3>2. PICK t \in DOMAIN rs : m = rs[t] /\ Matches(rs[t], r)
        BY <3>1 DEF MatchingOf
      <3>3. PICK s \in SortedByPriority(rs) : \E i \in DOMAIN s :
                s[i] = rs[t] /\ \A j \in DOMAIN s : j < i => s[j].priority < rs[t].priority
        BY SortedExists
      <3>4. PICK i \in DOMAIN s :
                s[i] = rs[t] /\ \A j \in DOMAIN s : j < i => s[j].priority < rs[t].priority
        BY <3>3
      <3>5. i \in Match(s, r)
        BY <3>2, <3>4 DEF Match
      <3>6. PICK k : k = Min(Match(s, r))
        OBVIOUS
      <3>7. k \in Match(s, r) /\ k <= i
        BY <1>4, <3>5, <3>6, FirstMatch
      <3>8. /\ DOMAIN s = DOMAIN rs /\ DOMAIN rs \subseteq Nat
            /\ \A j \in DOMAIN s : \E l \in DOMAIN rs : s[j] = rs[l]
        BY SortedRules DEF RuleList
      <3>9. k \in DOMAIN s /\ Matches(s[k], r) /\ k \in Nat /\ i \in Nat
        BY <3>7, <3>8 DEF Match
      <3>10. s[k] \in M
        BY <3>8, <3>9 DEF MatchingOf
      <3>11. s[k].priority \in Int /\ rs[t].priority \in Int
        BY <3>8, <3>9 DEF RuleList
      <3>12. ~(s[k].priority < rs[t].priority)
        BY <3>1, <3>2, <3>10, <3>11
      <3>13. k = i
        BY <3>4, <3>7, <3>9, <3>12
      <3> QED BY <2>1, <3>2, <3>4, <3>6, <3>13
    <2>4. ASSUME NEW s \in SortedByPriority(rs)
          PROVE  \E m \in F : Decision(s, r) = m.effect
      BY <2>1
    <2> HIDE DEF F
    <2>5. Evaluate(rs, r) = {m.effect : m \in F}
      BY <1>1, <2>3, <2>4
    <2> QED BY <2>2, <2>5 DEF F
  <1> QED BY <1>3, <1>4

-----------------------------------------------------------------------------
(* The rules of the engine *)

RuleSet == {Rule(id, body) : id \in RuleIDs, body \in RuleBodies}

Elems(rs) == {rs[i] : i \in DOMAIN rs}

UniqueIDs(rs) == \A i, j \in DOMAIN rs : rs[i].id = rs[j].id => i = j

(* Rules have the fields that the handlers decode.                         *)
LEMMA RuleFields ==
    ASSUME NEW m \in RuleSet
    PROVE  m.id \in RuleIDs /\ m.id # NoName /\ m.priority \in Int
  <1>1. PICK id \in RuleIDs, body \in RuleBodies : m = Rule(id, body)
    BY DEF RuleSet
  <1>2. body \in RuleBody /\ id # NoName
    BY PolicyAssumption
  <1> QED BY <1>1, <1>2 DEF Rule, RuleBody

(* Evaluate can be given the rules of the engine.                          *)
LEMMA RulesAreList ==
    ASSUME NEW rs \in Seq(RuleSet)
    PROVE  RuleList(rs)
  <1>1. DOMAIN rs = 1 .. Len(rs) /\ Len(rs) \in Nat /\ \A i \in DOMAIN rs : rs[i] \in RuleSet
    OBVIOUS
  <1>2. IsFiniteSet(DOMAIN rs) /\ DOMAIN rs \subseteq Nat
    BY <1>1, FS_Interval
  <1> QED BY <1>1, <1>2, RuleFields DEF RuleList

(* A rule with a new ID at the end: AddRule.                               *)
LEMMA Added ==
    ASSUME NEW rs \in Seq(RuleSet), UniqueIDs(rs), NEW x \in RuleSet,
           \A i \in DOMAIN rs : rs[i].id # x.id
    PROVE  /\ Append(rs, x) \in Seq(RuleSet)
           /\ UniqueIDs(Append(rs, x))
           /\ Elems(Append(rs, x)) = Elems(rs) \cup {x}
  <1> DEFINE new == Append(rs, x)
             n == Len(rs)
  <1>1. /\ new \in Seq(RuleSet) /\ n \in Nat /\ DOMAIN rs = 1 .. n /\ DOMAIN new = 1 .. n + 1
        /\ new[n + 1] = x /\ \A i \in DOMAIN rs : new[i] = rs[i]
    BY AppendProperties
  <1> HIDE DEF new, n
  <1>2. \A i \in DOMAIN new : i \in DOMAIN rs \/ i = n + 1
    BY <1>1
  <1>3. UniqueIDs(new)
    BY <1>1, <1>2 DEF UniqueIDs
  <1>4. n + 1 \in DOMAIN new /\ DOMAIN rs \subseteq DOMAIN new
    BY <1>1
  <1>5. Elems(new) = Elems(rs) \cup {x}
    BY <1>1, <1>2, <1>4 DEF Elems
  <1> QED BY <1>1, <1>3, <1>5 DEF new

(* A rule in the place of the one with its ID: UpdateRule.                 *)
LEMMA Updated ==
    ASSUME NEW rs \in Seq(RuleSet), UniqueIDs(rs), NEW x \in RuleSet,
           NEW k \in DOMAIN rs, rs[k].id = x.id
    PROVE  /\ [rs EXCEPT ![k] = x] \in Seq(RuleSet)
           /\ UniqueIDs([rs EXCEPT ![k] = x])
           /\ Elems([rs EXCEPT ![k] = x]) = (Elems(rs) \ {rs[k]}) \cup {x}
  <1> DEFINE new == [rs EXCEPT ![k] = x]
  <1>1. new \in Seq(RuleSet)
    BY ExceptSeq
  <1>2. /\ DOMAIN new = DOMAIN rs /\ new[k] = x
        /\ \A i \in DOMAIN rs : i # k => new[i] = rs[i]
    OBVIOUS
  <1> HIDE DEF new
  <1>3. UniqueIDs(new)
    BY <1>2 DEF UniqueIDs
  <1>4. \A i \in DOMAIN rs : i # k => rs[i] # rs[k]
    BY DEF UniqueIDs
  <1>5. Elems(new) = (Elems(rs) \ {rs[k]}) \cup {x}
    BY <1>2, <1>4 DEF Elems
  <1> QED BY <1>1, <1>3, <1>5 DEF new

(* The rules without one, the others in their order: RemoveRule.           *)
LEMMA Removed ==
    ASSUME NEW rs \in Seq(RuleSet), UniqueIDs(rs), NEW k \in DOMAIN rs
    PROVE  /\ RemoveAt(rs, k) \in Seq(RuleSet)
           /\ UniqueIDs(RemoveAt(rs, k))
           /\ Elems(RemoveAt(rs, k)) = Elems(rs) \ {rs[k]}
  <1> DEFINE n == Len(rs)
             a == SubSeq(rs, 1, k - 1)
             b == SubSeq(rs, k + 1, n)
             new == a \o b
  <1>1. n \in Nat /\ DOMAIN rs = 1 .. n /\ k \in 1 .. n /\ \A i \in 1 .. n : rs[i] \in RuleSet
    OBVIOUS
  <1>2. /\ a \in Seq(RuleSet) /\ Len(a) = k - 1
        /\ \A i \in 1 .. k - 1 : a[i] = rs[i]
    BY <1>1
  <1>3. /\ b \in Seq(RuleSet) /\ Len(b) = n - k
        /\ \A i \in 1 .. n - k : b[i] = rs[k + i]
    <2>1. /\ b \in Seq(RuleSet) /\ Len(b) = IF k + 1 <= n THEN n - (k + 1) + 1 ELSE 0
          /\ \A i \in 1 .. n - (k + 1) + 1 : b[i] = rs[(k + 1) + i - 1]
      BY <1>1, SubSeqProperties
    <2>2. Len(b) = n - k
      BY <1>1, <2>1
    <2>3. ASSUME NEW i \in 1 .. n - k PROVE b[i] = rs[k + i]
      <3>1. i \in 1 .. n - (k + 1) + 1 /\ (k + 1) + i - 1 = k + i
        BY <1>1
      <3> QED BY <2>1, <3>1
    <2> QED BY <2>1, <2>2, <2>3
  <1> HIDE DEF a, b, n
  <1>4. /\ new \in Seq(RuleSet) /\ DOMAIN new = 1 .. n - 1
        /\ \A i \in 1 .. k - 1 : new[i] = rs[i]
        /\ \A i \in k .. n - 1 : new[i] = rs[i + 1]
    <2>1. /\ new \in Seq(RuleSet) /\ Len(new) = Len(a) + Len(b)
          /\ \A i \in 1 .. Len(a) + Len(b) :
                new[i] = IF i <= Len(a) THEN a[i] ELSE b[i - Len(a)]
      BY <1>2, <1>3, ConcatProperties
    <2>2. Len(a) + Len(b) = n - 1
      BY <1>1, <1>2, <1>3
    <2>3. DOMAIN new = 1 .. n - 1
      BY <2>1, <2>2
    <2>4. ASSUME NEW i \in 1 .. k - 1 PROVE new[i] = rs[i]
      BY <1>1, <1>2, <2>1, <2>2
    <2>5. ASSUME NEW i \in k .. n - 1 PROVE new[i] = rs[i + 1]
      <3>1. i \in 1 .. n - 1 /\ ~(i <= k - 1)
        BY <1>1
      <3>2. i - (k - 1) \in 1 .. n - k /\ k + (i - (k - 1)) = i + 1
        BY <1>1
      <3>3. new[i] = b[i - (k - 1)]
        BY <1>2, <2>1, <2>2, <3>1
      <3>4. b[i - (k - 1)] = rs[k + (i - (k - 1))]
        BY <1>3, <3>2
      <3> QED BY <3>2, <3>3, <3>4
    <2> QED BY <2>1, <2>3, <2>4, <2>5
  <1> HIDE DEF new
  <1>5. UniqueIDs(new)
    <2> DEFINE old == [i \in 1 .. n - 1 |-> IF i < k THEN i ELSE i + 1]
    <2>1. ASSUME NEW i \in 1 .. n - 1 PROVE old[i] \in DOMAIN rs /\ new[i] = rs[old[i]]
      BY <1>1, <1>4
    <2>2. \A i, j \in 1 .. n - 1 : old[i] = old[j] => i = j
      BY <1>1
    <2> HIDE DEF old
    <2> QED BY <1>4, <2>1, <2>2 DEF UniqueIDs
  <1>6. \A i \in DOMAIN rs : i # k => rs[i] # rs[k]
    BY DEF UniqueIDs
  <1>7. \A i \in DOMAIN new : \E j \in DOMAIN rs : j # k /\ new[i] = rs[j]
    <2> TAKE i \in DOMAIN new
    <2>1. CASE i < k
      BY <1>1, <1>4, <2>1
    <2>2. CASE i >= k
      <3>1. i + 1 \in 1 .. n /\ i + 1 # k /\ new[i] = rs[i + 1]
        BY <1>1, <1>4, <2>2
      <3> QED BY <1>1, <3>1
    <2> QED BY <1>1, <1>4, <2>1, <2>2
  <1>8. \A j \in DOMAIN rs : j # k => \E i \in DOMAIN new : new[i] = rs[j]
    <2> SUFFICES ASSUME NEW j \in DOMAIN rs, j # k PROVE \E i \in DOMAIN new : new[i] = rs[j]
      OBVIOUS
    <2>1. CASE j < k
      BY <1>1, <1>4, <2>1
    <2>2. CASE j > k
      <3>1. j - 1 \in k .. n - 1 /\ j - 1 \in 1 .. n - 1 /\ (j - 1) + 1 = j
        BY <1>1, <2>2
      <3>2. new[j - 1] = rs[j]
        BY <1>4, <3>1
      <3> QED BY <1>4, <3>1, <3>2
    <2> QED BY <1>1, <2>1, <2>2
  <1>9. Elems(new) = Elems(rs) \ {rs[k]}
    BY <1>6, <1>7, <1>8 DEF Elems
  <1>10. RemoveAt(rs, k) = new
    BY DEF RemoveAt, new, a, b, n
  <1> QED BY <1>4, <1>5, <1>9, <1>10

-----------------------------------------------------------------------------
(* The inductive invariant *)

RulesInv ==
    /\ rules \in Seq(RuleSet)
    /\ UniqueIDs(rules)

NamespacesInv ==
    /\ "default" \in namespaces
    /\ namespaces \subseteq Namespaces \cup {"default"}

(* Only a rule that was edited may lack an effect; the IDs of removed      *)
(* rules are not taken for edited when they are used again.                *)
EditedInv ==
    /\ edited \subseteq {m.id : m \in Elems(rules)}
    /\ \A m \in Elems(rules) : m.effect = NoName => m.id \in edited

PInv == RulesInv /\ NamespacesInv /\ EditedInv

(* The rules but for those with one ID are the same.                       *)
OnlyChanged(id, rs, new) ==
    \A m : m.id # id => (m \in Elems(rs) <=> m \in Elems(new))

(* Initially there are no rules.                                           *)
LEMMA InitPInv == Init => PInv
  <1> SUFFICES ASSUME Init PROVE PInv
    OBVIOUS
  <1>1. rules = <<>> /\ DOMAIN rules = {}
    BY DEF Init
  <1>2. RulesInv
    BY <1>1 DEF RulesInv, UniqueIDs
  <1>3. EditedInv
    BY <1>1 DEF Init, EditedInv, Elems
  <1> QED BY <1>2, <1>3 DEF Init, PInv, NamespacesInv

(* Creating a rule keeps the invariant, for a new rule has an effect.      *)
LEMMA CreateStep ==
    ASSUME PInv, NEW id \in RuleIDs, NEW body \in RuleBodies, handleCreatePolicy(id, body)
    PROVE  PInv' /\ OnlyChanged(id, rules, rules')
  <1> DEFINE x == Rule(id, body)
  <1>1. x \in RuleSet /\ x.id = id /\ x.effect = body.effect
    BY DEF RuleSet, Rule
  <1>2. /\ \A i \in DOMAIN rules : rules[i].id # x.id
        /\ rules' = Append(rules, x) /\ body.effect # NoName
        /\ namespaces' = namespaces /\ edited' = edited
    BY DEF handleCreatePolicy, AddRule, WithID
  <1> HIDE DEF x
  <1>3. RulesInv' /\ Elems(rules') = Elems(rules) \cup {x}
    BY <1>1, <1>2, Added DEF PInv, RulesInv
  <1>4. EditedInv'
    <2>1. Elems(rules)' = Elems(rules) \cup {x}
      BY <1>3 DEF Elems
    <2> HIDE DEF Elems
    <2> QED BY <1>1, <1>2, <2>1 DEF PInv, EditedInv
  <1>5. OnlyChanged(id, rules, rules')
    BY <1>1, <1>3 DEF OnlyChanged
  <1> QED BY <1>2, <1>3, <1>4, <1>5 DEF PInv, NamespacesInv

(* Updating keeps the invariant and marks the rule as edited.              *)
LEMMA UpdateStep ==
    ASSUME PInv, NEW id \in RuleIDs, NEW body \in RuleBodies, handleUpdatePolicy(id, body)
    PROVE  PInv' /\ OnlyChanged(id, rules, rules')
  <1> DEFINE x == Rule(id, body)
  <1>1. x \in RuleSet /\ x.id = id
    BY DEF RuleSet, Rule
  <1>2. PICK k \in DOMAIN rules : rules[k].id = x.id /\ rules' = [rules EXCEPT ![k] = x]
    BY DEF handleUpdatePolicy, UpdateRule, WithID
  <1>3. namespaces' = namespaces /\ edited' = edited \cup {id}
    BY DEF handleUpdatePolicy
  <1> HIDE DEF x
  <1>4. RulesInv' /\ Elems(rules') = (Elems(rules) \ {rules[k]}) \cup {x}
    BY <1>1, <1>2, Updated DEF PInv, RulesInv
  <1>5. EditedInv'
    <2>1. Elems(rules)' = (Elems(rules) \ {rules[k]}) \cup {x}
      BY <1>4 DEF Elems
    <2> HIDE DEF Elems
    <2> QED BY <1>1, <1>2, <1>3, <2>1 DEF PInv, EditedInv
  <1>6. OnlyChanged(id, rules, rules')
    BY <1>1, <1>2, <1>4 DEF OnlyChanged
  <1> QED BY <1>3, <1>4, <1>5, <1>6 DEF PInv, NamespacesInv

(* Removing keeps the invariant and forgets the mark.                      *)
LEMMA DeleteStep ==
    ASSUME PInv, NEW id \in RuleIDs, handleDeletePolicy(id)
    PROVE  PInv' /\ OnlyChanged(id, rules, rules')
  <1>1. PICK k \in DOMAIN rules : rules[k].id = id /\ rules' = RemoveAt(rules, k)
    BY DEF handleDeletePolicy, RemoveRule, WithID
  <1>2. namespaces' = namespaces /\ edited' = edited \ {id}
    BY DEF handleDeletePolicy
  <1>3. RulesInv' /\ Elems(rules') = Elems(rules) \ {rules[k]}
    BY <1>1, Removed DEF PInv, RulesInv
  <1>4. EditedInv'
    <2>1. Elems(rules)' = Elems(rules) \ {rules[k]}
      BY <1>3 DEF Elems
    <2>2. \A m \in Elems(rules) : m # rules[k] => m.id # id
      BY <1>1 DEF PInv, RulesInv, UniqueIDs, Elems
    <2> HIDE DEF Elems
    <2> QED BY <1>1, <1>2, <2>1, <2>2 DEF PInv, EditedInv
  <1>5. OnlyChanged(id, rules, rules')
    BY <1>1, <1>3 DEF OnlyChanged
  <1> QED BY <1>2, <1>3, <1>4, <1>5 DEF PInv, NamespacesInv

(* Creating and deleting a namespace.                                      *)
LEMMA NamespaceStep ==
    ASSUME PInv, NEW n \in Namespaces \cup {"default", NoName},
           handleCreateNamespace(n) \/ handleDeleteNamespace(n)
    PROVE  PInv' /\ rules' = rules
  <1>1. rules' = rules /\ edited' = edited
    BY DEF handleCreateNamespace, handleDeleteNamespace
  <1>2. NamespacesInv'
    BY DEF PInv, NamespacesInv, handleCreateNamespace, handleDeleteNamespace, Create, Delete
  <1>3. RulesInv' /\ EditedInv'
    BY <1>1 DEF PInv, RulesInv, EditedInv, UniqueIDs, Elems
  <1> QED BY <1>1, <1>2, <1>3 DEF PInv

(* Every step keeps the invariant and touches the rules of at most one ID. *)
LEMMA NextStep ==
    ASSUME PInv, [Next]_vars
    PROVE  PInv' /\ \E id \in RuleIDs : OnlyChanged(id, rules, rules')
  <1> DEFINE Good == PInv' /\ \E id \in RuleIDs : OnlyChanged(id, rules, rules')
  <1> SUFFICES Good
    OBVIOUS
  <1>0. PICK any : any \in RuleIDs
    BY PolicyAssumption
  <1>1. rules' = rules => OnlyChanged(any, rules, rules')
    BY DEF OnlyChanged
  <1>2. CASE UNCHANGED vars
    <2>1. PInv'
      BY <1>2 DEF vars, PInv, RulesInv, NamespacesInv, EditedInv, UniqueIDs, Elems
    <2> QED BY <1>0, <1>1, <1>2, <2>1 DEF vars
  <1>3. ASSUME NEW id \in RuleIDs \cup {NoName}, NEW body \in RuleBodies,
               handleCreatePolicy(id, body) \/ handleUpdatePolicy(id, body)
        PROVE  Good
    <2>1. id \in RuleIDs
      BY <1>3 DEF handleCreatePolicy, handleUpdatePolicy
    <2> QED BY <1>3, <2>1, CreateStep, UpdateStep
  <1>4. ASSUME NEW id \in RuleIDs \cup {NoName}, handleDeletePolicy(id)
        PROVE  Good
    <2>1. id \in RuleIDs
      BY <1>4 DEF handleDeletePolicy
    <2> QED BY <1>4, <2>1, DeleteStep
  <1>5. ASSUME NEW n \in Namespaces \cup {"default", NoName},
               handleCreateNamespace(n) \/ handleDeleteNamespace(n)
        PROVE  Good
    BY <1>0, <1>1, <1>5, NamespaceStep
  <1> HIDE DEF Good
  <1> QED BY <1>2, <1>3, <1>4, <1>5 DEF Next

(* The inductive invariant holds in every state.                           *)
THEOREM PolicyInvariance == Spec => []PInv
  <1>1. Init => PInv
    BY InitPInv
  <1>2. PInv /\ [Next]_vars => PInv'
    BY NextStep
  <1> QED BY <1>1, <1>2, PTL DEF Spec

-----------------------------------------------------------------------------
(* The theorems *)

(* No two rules share an ID, every rule is one that some operator sent,    *)
(* and the default namespace cannot be deleted (Engine.AddRule,            *)
(* Manager.Delete).                                                        *)
THEOREM PolicyTypeCorrect == Spec => []TypeOK
  <1>1. PInv => TypeOK
    <2> SUFFICES ASSUME PInv PROVE TypeOK
      OBVIOUS
    <2>1. \A i \in DOMAIN rules : rules[i] \in RuleSet
      BY DEF PInv, RulesInv
    <2>2. \A i \in DOMAIN rules : \E id \in RuleIDs, body \in RuleBodies :
                rules[i] = Rule(id, body)
      BY <2>1 DEF RuleSet
    <2> QED BY <2>2 DEF PInv, RulesInv, NamespacesInv, EditedInv, TypeOK, UniqueIDs, Elems
  <1> QED BY <1>1, PolicyInvariance, PTL

(* Matching is MatchingOf of the engine's rules.                           *)
LEMMA MatchingIs == \A r : Matching(r) = MatchingOf(rules, r)
  BY DEF Matching, MatchingOf

(* Evaluate returns the effect of a matching rule of the least priority    *)
(* number, for every outcome of the unstable sort, and every such rule is  *)
(* possible.                                                               *)
THEOREM EvaluateAlwaysExact == Spec => []EvaluateExact
  <1>1. PInv => EvaluateExact
    <2> SUFFICES ASSUME PInv, NEW r \in Requests
                 PROVE  LET first == {m \in Matching(r) :
                                        \A o \in Matching(r) : m.priority <= o.priority}
                        IN  Evaluate(rules, r) =
                              IF first = {} THEN {"allow"} ELSE {m.effect : m \in first}
      BY DEF EvaluateExact
    <2>1. RuleList(rules)
      BY RulesAreList DEF PInv, RulesInv
    <2>2. {m \in Matching(r) : \A o \in Matching(r) : m.priority <= o.priority}
            = FirstOf(MatchingOf(rules, r))
      BY MatchingIs DEF FirstOf
    <2> QED BY <2>1, <2>2, EvaluateIs
  <1> QED BY <1>1, PolicyInvariance, PTL

(* The rules of other namespaces have no influence on a decision.          *)
THEOREM NamespacesAlwaysIsolated == Spec => []NamespaceIsolation
  <1>1. PInv => NamespaceIsolation
    <2> SUFFICES ASSUME PInv, NEW r \in Requests
                 PROVE  Evaluate(rules, r) =
                        Evaluate(Restrict(rules, {i \in DOMAIN rules :
                                    rules[i].namespace \in {NoName, r.namespace}}), r)
      BY DEF NamespaceIsolation
    <2> DEFINE S == {i \in DOMAIN rules : rules[i].namespace \in {NoName, r.namespace}}
               own == Restrict(rules, S)
    <2>1. RuleList(rules)
      BY RulesAreList DEF PInv, RulesInv
    <2>2. DOMAIN own = S /\ S \subseteq DOMAIN rules /\ \A i \in S : own[i] = rules[i]
      BY DEF Restrict
    <2>3. \A i \in DOMAIN rules : Matches(rules[i], r) => i \in S
      BY DEF Matches
    <2> HIDE DEF S, own
    <2>4. RuleList(own)
      BY <2>1, <2>2, FS_Subset DEF RuleList
    <2>5. MatchingOf(own, r) = MatchingOf(rules, r)
      BY <2>2, <2>3 DEF MatchingOf
    <2>6. Evaluate(own, r) = Evaluate(rules, r)
      BY <2>1, <2>4, <2>5, EvaluateIs
    <2> QED BY <2>6 DEF own, S
  <1> QED BY <1>1, PolicyInvariance, PTL

(* The empty decision comes only from a rule that an update left without   *)
(* an effect (handleUpdatePolicy does not require one).                    *)
THEOREM EmptyDecisionOnlyByUpdate == Spec => []NoEffectOnlyByUpdate
  <1>1. PInv => NoEffectOnlyByUpdate
    <2> SUFFICES ASSUME PInv, NEW r \in Requests, NoName \in Evaluate(rules, r)
                 PROVE  \E m \in Matching(r) : m.effect = NoName /\ m.id \in edited
      BY DEF NoEffectOnlyByUpdate
    <2>1. RuleList(rules)
      BY RulesAreList DEF PInv, RulesInv
    <2>2. NoName # "allow"
      BY PolicyAssumption
    <2>3. PICK m \in FirstOf(MatchingOf(rules, r)) : m.effect = NoName
      BY <2>1, <2>2, EvaluateIs
    <2>4. m \in MatchingOf(rules, r)
      BY DEF FirstOf
    <2>5. m \in Elems(rules)
      BY <2>4 DEF MatchingOf, Elems
    <2> QED BY <2>3, <2>4, <2>5, MatchingIs DEF PInv, EditedInv
  <1> QED BY <1>1, PolicyInvariance, PTL

(* Rules that are the same but for one ID decide the same unless a rule    *)
(* with that ID matches.                                                   *)
LEMMA SameDecision ==
    ASSUME NEW rs \in Seq(RuleSet), NEW new \in Seq(RuleSet), NEW id, NEW r,
           OnlyChanged(id, rs, new),
           \A m \in Elems(rs) \cup Elems(new) : m.id = id => ~Matches(m, r)
    PROVE  Evaluate(rs, r) = Evaluate(new, r)
  <1>1. RuleList(rs) /\ RuleList(new)
    BY RulesAreList
  <1>2. MatchingOf(rs, r) = {m \in Elems(rs) : Matches(m, r)}
    BY DEF MatchingOf, Elems
  <1>3. MatchingOf(new, r) = {m \in Elems(new) : Matches(m, r)}
    BY DEF MatchingOf, Elems
  <1>4. \A m : Matches(m, r) => (m \in Elems(rs) <=> m \in Elems(new))
    BY DEF OnlyChanged
  <1>5. MatchingOf(rs, r) = MatchingOf(new, r)
    BY <1>2, <1>3, <1>4
  <1> QED BY <1>1, <1>5, EvaluateIs

(* Each request of an operator leaves all rules but one as they are, and   *)
(* changes only decisions in which that rule takes or took part.           *)
THEOREM EditsAlwaysLocal == Spec => EditsAreLocal
  <1> DEFINE Local == \E id \in RuleIDs :
                /\ \A other \in RuleIDs \ {id} : RuleOf(other)' = RuleOf(other)
                /\ \A r \in Requests :
                    Evaluate(rules, r) # Evaluate(rules', r) =>
                        \E m \in RuleOf(id) \cup RuleOf(id)' : Matches(m, r)
  <1>1. ASSUME PInv, [Next]_vars PROVE Local
    <2>1. PInv' /\ \E id \in RuleIDs : OnlyChanged(id, rules, rules')
      BY <1>1, NextStep
    <2>2. PICK id \in RuleIDs : OnlyChanged(id, rules, rules')
      BY <2>1
    <2>3. rules \in Seq(RuleSet) /\ rules' \in Seq(RuleSet)
      BY <1>1, <2>1 DEF PInv, RulesInv
    <2>4. \A i : /\ RuleOf(i) = {m \in Elems(rules) : m.id = i}
                 /\ RuleOf(i)' = {m \in Elems(rules') : m.id = i}
      BY DEF RuleOf, WithID, Elems
    <2>5. \A other \in RuleIDs \ {id} : RuleOf(other)' = RuleOf(other)
      BY <2>2, <2>4 DEF OnlyChanged
    <2>6. ASSUME NEW r \in Requests, Evaluate(rules, r) # Evaluate(rules', r)
          PROVE  \E m \in RuleOf(id) \cup RuleOf(id)' : Matches(m, r)
      <3>1. PICK m \in Elems(rules) \cup Elems(rules') : m.id = id /\ Matches(m, r)
        BY <2>2, <2>3, <2>6, SameDecision
      <3> QED BY <2>4, <3>1
    <2> QED BY <2>5, <2>6
  <1>2. PInv /\ [Next]_vars => [Local]_vars
    BY <1>1
  <1> QED BY <1>2, PolicyInvariance, PTL DEF Spec, EditsAreLocal

=============================================================================
