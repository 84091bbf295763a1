----------------------------- MODULE OrderLemmas -----------------------------
(***************************************************************************)
(* Sorting a finite set without induction: the place of an element is the  *)
(* number of elements that are not after it.  Used for the unstable sort   *)
(* of policy rules (PolicyEngineProofs.tla) and for the pages of the agent *)
(* directory (RegistryClientsProofs.tla).                                  *)
(***************************************************************************)
EXTENDS Integers, FiniteSets, FiniteSetTheorems, FunctionTheorems, TLAPS

(* A total order R on D. *)
TotalOrder(R, D) ==
    /\ \A i \in D : <<i, i>> \in R
    /\ \A i, j \in D : <<i, j>> \in R /\ <<j, i>> \in R => i = j
    /\ \A i, j, k \in D : <<i, j>> \in R /\ <<j, k>> \in R => <<i, k>> \in R
    /\ \A i, j \in D : <<i, j>> \in R \/ <<j, i>> \in R

Down(R, D, j) == {k \in D : <<k, j>> \in R}

(* The place of each element in the order.                                 *)
Rank(R, D) == [j \in D |-> Cardinality(Down(R, D, j))]

(* The places are the numbers from 1 on, each taken once.                  *)
LEMMA RankIsBijection ==
    ASSUME NEW D, IsFiniteSet(D), NEW R, TotalOrder(R, D)
    PROVE  /\ Rank(R, D) \in Bijection(D, 1 .. Cardinality(D))
           /\ \A i, j \in D : <<i, j>> \in R /\ i # j => Rank(R, D)[i] < Rank(R, D)[j]
  <1> DEFINE n == Cardinality(D)
  <1>0. n \in Nat
    BY FS_CardinalityType
  <1>1. ASSUME NEW j \in D
        PROVE  /\ IsFiniteSet(Down(R, D, j)) /\ Cardinality(Down(R, D, j)) \in 1 .. n
               /\ j \in Down(R, D, j)
    <2>1. Down(R, D, j) \in SUBSET D /\ j \in Down(R, D, j)
      BY DEF Down, TotalOrder
    <2>2. IsFiniteSet(Down(R, D, j)) /\ Cardinality(Down(R, D, j)) <= n
      BY <2>1, FS_Subset
    <2>3. Cardinality(Down(R, D, j)) \in Nat /\ Cardinality(Down(R, D, j)) # 0
      BY <2>1, <2>2, FS_CardinalityType, FS_EmptySet
    <2> QED BY <1>0, <2>1, <2>2, <2>3
  <1>2. ASSUME NEW i \in D, NEW j \in D, <<i, j>> \in R, i # j
        PROVE  Cardinality(Down(R, D, i)) < Cardinality(Down(R, D, j))
    <2>1. Down(R, D, i) \in SUBSET Down(R, D, j)
      BY <1>2 DEF Down, TotalOrder
    <2>2. j \notin Down(R, D, i)
      BY <1>2 DEF Down, TotalOrder
    <2>3. /\ Cardinality(Down(R, D, i)) <= Cardinality(Down(R, D, j))
          /\ Cardinality(Down(R, D, i)) # Cardinality(Down(R, D, j))
      BY <1>1, <2>1, <2>2, FS_Subset
    <2> QED BY <1>0, <1>1, <2>3
  <1>3. Rank(R, D) \in [D -> 1 .. n]
    BY <1>1 DEF Rank
  <1>4. \A i, j \in D : Rank(R, D)[i] = Rank(R, D)[j] => i = j
    <2> SUFFICES ASSUME NEW i \in D, NEW j \in D, i # j
                 PROVE  Cardinality(Down(R, D, i)) # Cardinality(Down(R, D, j))
      BY DEF Rank
    <2>1. <<i, j>> \in R \/ <<j, i>> \in R
      BY DEF TotalOrder
    <2>2. /\ Cardinality(Down(R, D, i)) \in Nat /\ Cardinality(Down(R, D, j)) \in Nat
      BY <1>1
    <2> QED BY <1>2, <2>1, <2>2
  <1>5. Rank(R, D) \in Injection(D, 1 .. n)
    BY <1>3, <1>4, Fun_IsInj
  <1>6. IsFiniteSet(1 .. n) /\ Cardinality(1 .. n) = n
    BY <1>0, FS_Interval
  <1>7. Rank(R, D) \in Surjection(D, 1 .. n)
    BY <1>5, <1>6, FS_Injection
  <1>8. \A i, j \in D : <<i, j>> \in R /\ i # j => Rank(R, D)[i] < Rank(R, D)[j]
    BY <1>2 DEF Rank
  <1> QED BY <1>5, <1>7, <1>8 DEF Bijection

(* The natural numbers of D in their order.                                *)
Ascending(D) == {x \in D \X D : x[1] <= x[2]}

(* It is a total order.                                                    *)
LEMMA AscendingOrder ==
    ASSUME NEW D \in SUBSET Nat
    PROVE  /\ TotalOrder(Ascending(D), D)
           /\ \A i, j \in D : <<i, j>> \in Ascending(D) <=> i <= j
  <1>1. \A i, j \in D : <<i, j>> \in Ascending(D) <=> i <= j
    BY DEF Ascending
  <1>2. \A i \in D : i \in Nat
    OBVIOUS
  <1> HIDE DEF Ascending
  <1> QED BY <1>1, <1>2 DEF TotalOrder

=============================================================================
