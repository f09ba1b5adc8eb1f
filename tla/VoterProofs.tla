---------------------------- MODULE VoterProofs ----------------------------
(***************************************************************************)
(* The voter is correct for every redundancy NMR and every vector of at    *)
(* most NMR results, and its first decision is its last one.               *)
(***************************************************************************)
EXTENDS Voter, FiniteSetTheorems, SequenceTheorems, WellFoundedInduction, TLAPS

(* Every nonempty set of natural numbers has a least element.              *)
LEMMA LeastNat ==
  ASSUME NEW T \in SUBSET Nat, T # {}
  PROVE  \E x \in T : \A y \in T : x <= y
<1>1. PICK x \in T : \A y \in T : ~(<<y, x>> \in OpToRel(<, Nat))
  BY NatLessThanWellFounded, WFMin
<1>2. \A y \in T : ~(y < x)
  BY <1>1 DEF OpToRel
<1> QED
  BY <1>2

(* The indices of a vector of n values.                                    *)
LEMMA IndexSet ==
  ASSUME NEW n \in Nat
  PROVE  IsFiniteSet(1..n) /\ Cardinality(1..n) = n
BY FS_Interval

(* A value has at most as many votes as there are results.                 *)
LEMMA VotesBounded ==
  ASSUME NEW vals \in Seq(Int), NEW v
  PROVE  /\ IsFiniteSet(Votes(vals, v))
         /\ Cardinality(Votes(vals, v)) \in 0..Len(vals)
<1>1. DOMAIN vals = 1..Len(vals) /\ Len(vals) \in Nat
  OBVIOUS
<1>2. IsFiniteSet(1..Len(vals)) /\ Cardinality(1..Len(vals)) = Len(vals)
  BY <1>1, IndexSet
<1>3. Votes(vals, v) \in SUBSET (1..Len(vals))
  BY <1>1 DEF Votes
<1> QED
  BY <1>1, <1>2, <1>3, FS_Subset, FS_CardinalityType

(* The choice in max() exists: there is a first position with the largest  *)
(* number of votes.                                                        *)
LEMMA MaxExists ==
  ASSUME NEW vals \in Seq(Int), vals # <<>>
  PROVE  /\ max(vals) \in DOMAIN vals
         /\ \A j \in DOMAIN vals : count(vals)[j] <= count(vals)[max(vals)]
         /\ \A j \in DOMAIN vals : count(vals)[j] \in 0..Len(vals)
<1> DEFINE D == 1..Len(vals)
           cnt == count(vals)
           Missing == {Len(vals) - cnt[i] : i \in D}
<1>1. DOMAIN vals = D /\ Len(vals) \in Nat \ {0} /\ 1 \in D
  BY EmptySeq, LenProperties
<1>2. \A i \in D : cnt[i] \in 0..Len(vals)
  BY <1>1, VotesBounded DEF count
<1> HIDE DEF cnt
<1>3. Missing \in SUBSET Nat /\ Missing # {}
  <2>1. \A i \in D : Len(vals) - cnt[i] \in Nat
    BY <1>1, <1>2
  <2>2. Len(vals) - cnt[1] \in Missing
    BY <1>1
  <2> QED
    BY <2>1, <2>2
<1>4. PICK m \in Missing : \A y \in Missing : m <= y
  BY <1>3, LeastNat
<1>5. PICK i \in D : m = Len(vals) - cnt[i]
  BY <1>4
<1>6. \A j \in D : cnt[j] <= cnt[i]
  <2> TAKE j \in D
  <2>1. Len(vals) - cnt[j] \in Missing
    OBVIOUS
  <2>2. Len(vals) - cnt[i] <= Len(vals) - cnt[j]
    BY <1>4, <1>5, <2>1
  <2> QED
    BY <1>1, <1>2, <2>2
<1> DEFINE Best == {x \in D : cnt[x] = cnt[i]}
<1>7. Best \in SUBSET Nat /\ i \in Best
  BY <1>1, <1>5
<1>8. PICK x \in Best : \A y \in Best : x <= y
  BY <1>7, LeastNat
<1>9. /\ x \in D
      /\ \A j \in D : cnt[j] <= cnt[x]
      /\ \A j \in 1..(x - 1) : cnt[j] < cnt[x]
  <2>1. x \in D /\ \A j \in D : cnt[j] <= cnt[x]
    BY <1>6, <1>8
  <2>2. ASSUME NEW j \in 1..(x - 1) PROVE cnt[j] < cnt[x]
    <3>1. j \in D /\ j < x
      BY <1>1, <2>1, <2>2
    <3>2. cnt[j] # cnt[i]
      BY <1>1, <1>8, <2>1, <3>1
    <3> QED
      BY <1>1, <1>2, <1>8, <2>1, <3>1, <3>2
  <2> QED
    BY <2>1, <2>2
<1>10. /\ max(vals) \in D
       /\ \A j \in D : cnt[j] <= cnt[max(vals)]
  BY <1>1, <1>9 DEF max, cnt
<1> QED
  BY <1>1, <1>2, <1>10 DEF cnt

(* The index vote() returns is one of a result, or -1.                     *)
LEMMA VoteIndex ==
  ASSUME NEW vals \in Seq(Int)
  PROVE  vote(vals) = NO_MAJORITY \/ vote(vals) + 1 \in DOMAIN vals
BY MaxExists DEF vote

(* Two values cannot both have more than half of NMR votes.                *)
LEMMA MajorityUnique ==
  ASSUME NEW vals \in Seq(Int), Len(vals) <= NMR,
         NEW v, NEW w, Majority(vals, v), Majority(vals, w)
  PROVE  v = w
<1> DEFINE V == Votes(vals, v)
           W == Votes(vals, w)
<1>1. SUFFICES ASSUME v # w PROVE FALSE
  OBVIOUS
<1>2. V \cap W = {} /\ V \cup W \in SUBSET (1..Len(vals))
  BY <1>1, LenProperties DEF Votes
<1>3. /\ IsFiniteSet(V) /\ Cardinality(V) \in Nat
      /\ IsFiniteSet(W) /\ Cardinality(W) \in Nat
  BY VotesBounded
<1>4. Cardinality(V \cup W) = Cardinality(V) + Cardinality(W)
  <2>1. Cardinality(V \cap W) = 0
    BY <1>2, FS_EmptySet
  <2>2. Cardinality(V \cup W) = Cardinality(V) + Cardinality(W) - Cardinality(V \cap W)
    BY <1>3, FS_Union
  <2> HIDE DEF V, W
  <2> QED
    BY <1>3, <2>1, <2>2
<1>5. Cardinality(V \cup W) <= Len(vals)
  <2>1. Len(vals) \in Nat
    OBVIOUS
  <2>2. IsFiniteSet(1..Len(vals)) /\ Cardinality(1..Len(vals)) = Len(vals)
    BY <2>1, IndexSet
  <2> QED
    BY <1>2, <2>2, FS_Subset
<1>6. Cardinality(V) > NMR \div 2 /\ Cardinality(W) > NMR \div 2
  BY DEF Majority
<1> QED
  BY <1>3, <1>4, <1>5, <1>6, NMRAssumption

(* vote() is right about every vector of at most NMR results, for every    *)
(* NMR.                                                                    *)
THEOREM VoteSound ==
  ASSUME NEW vals \in Seq(Int), Len(vals) <= NMR
  PROVE  VoteCorrect(vals)
<1>1. CASE vals = <<>>
  BY <1>1 DEF VoteCorrect, vote, NO_MAJORITY
<1>2. CASE vals # <<>>
  <2> DEFINE m == max(vals)
  <2>1. /\ m \in DOMAIN vals
        /\ \A j \in DOMAIN vals : count(vals)[j] <= count(vals)[m]
        /\ \A j \in DOMAIN vals : count(vals)[j] \in 0..Len(vals)
    BY <1>2, MaxExists
  <2>2. \A j \in DOMAIN vals :
          Majority(vals, vals[j]) <=> count(vals)[j] > NMR \div 2
    BY DEF Majority, count
  <2> HIDE DEF m
  <2>3. CASE count(vals)[m] > NMR \div 2
    <3>1. vote(vals) = m - 1
      BY <1>2, <2>3 DEF vote, m
    <3>2. vote(vals) # NO_MAJORITY /\ vote(vals) + 1 = m
      BY <2>1, <3>1 DEF NO_MAJORITY
    <3>3. Majority(vals, vals[m])
      BY <2>1, <2>2, <2>3
    <3> QED
      BY <2>1, <3>2, <3>3, MajorityUnique DEF VoteCorrect
  <2>4. CASE ~(count(vals)[m] > NMR \div 2)
    <3>1. vote(vals) = NO_MAJORITY
      BY <2>4 DEF vote, m
    <3>2. \A j \in DOMAIN vals : ~(count(vals)[j] > NMR \div 2)
      BY <2>1, <2>4, NMRAssumption
    <3> QED
      BY <2>2, <3>1, <3>2 DEF VoteCorrect
  <2> QED
    BY <2>3, <2>4
<1> QED
  BY <1>1, <1>2

(* One more result takes no vote away. *)
LEMMA MajorityStays ==
  ASSUME NEW vals \in Seq(Int), NEW w \in Int, NEW v, Majority(vals, v)
  PROVE  Majority(Append(vals, w), v)
<1> DEFINE more == Append(vals, w)
<1>1. more \in Seq(Int)
  OBVIOUS
<1>2. Votes(vals, v) \in SUBSET Votes(more, v)
  BY DEF Votes
<1>3. /\ IsFiniteSet(Votes(more, v)) /\ Cardinality(Votes(more, v)) \in Nat
      /\ Cardinality(Votes(vals, v)) \in Nat
  <2>1. Len(more) \in Nat /\ Len(vals) \in Nat
    BY <1>1, LenProperties
  <2> HIDE DEF more
  <2>2. IsFiniteSet(Votes(more, v)) /\ Cardinality(Votes(more, v)) \in 0..Len(more)
    BY <1>1, VotesBounded
  <2>3. Cardinality(Votes(vals, v)) \in 0..Len(vals)
    BY VotesBounded
  <2> QED
    BY <2>1, <2>2, <2>3
<1>4. Cardinality(Votes(vals, v)) <= Cardinality(Votes(more, v))
  BY <1>2, <1>3, FS_Subset
<1>5. Cardinality(Votes(vals, v)) > NMR \div 2
  BY DEF Majority
<1>6. NMR \div 2 \in Int
  BY NMRAssumption
<1> HIDE DEF more
<1>7. Cardinality(Votes(more, v)) > NMR \div 2
  BY <1>3, <1>4, <1>5, <1>6
<1> QED
  BY <1>7 DEF Majority, more

(* The first majority vote() reports is the majority of all NMR results,   *)
(* for every NMR and whatever the other copies return: a decision is the   *)
(* same on one more result, so that the broker answers with it at once and *)
(* throws the results away that come later.                                *)
THEOREM DecisionFinal ==
  ASSUME NEW vals \in Seq(Int), NEW w \in Int, Len(vals) < NMR,
         vote(vals) # NO_MAJORITY
  PROVE  /\ vote(Append(vals, w)) # NO_MAJORITY
         /\ Append(vals, w)[vote(Append(vals, w)) + 1] = vals[vote(vals) + 1]
<1> DEFINE more == Append(vals, w)
<1>1. more \in Seq(Int) /\ Len(more) <= NMR /\ Len(vals) <= NMR
  BY NMRAssumption
<1>2. PICK i \in DOMAIN vals : i = vote(vals) + 1 /\ Majority(vals, vals[i])
  BY <1>1, VoteSound DEF VoteCorrect
<1>3. i \in DOMAIN more /\ more[i] = vals[i]
  BY <1>2
<1>4. Majority(more, more[i])
  BY <1>2, <1>3, MajorityStays
<1> HIDE DEF more
<1>5. VoteCorrect(more)
  BY <1>1, VoteSound
<1>6. vote(more) # NO_MAJORITY
  BY <1>3, <1>4, <1>5 DEF VoteCorrect
<1>7. more[i] = more[vote(more) + 1]
  BY <1>3, <1>4, <1>5, <1>6 DEF VoteCorrect
<1> QED
  BY <1>2, <1>3, <1>6, <1>7 DEF more
=============================================================================
