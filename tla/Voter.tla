------------------------------- MODULE Voter -------------------------------
(***************************************************************************)
(* RSF_Broker::vote, the N-modular-redundancy voter: it looks for a value  *)
(* that more than half of the NMR copies agree on.  The threshold is taken *)
(* from NMR and not from the number of values received so far.             *)
(***************************************************************************)
EXTENDS Communication

(* count[i]: how many of the values agree with the i-th one.               *)
Votes(values, v) == {j \in DOMAIN values : values[j] = v}

count(values) == [i \in DOMAIN values |-> Cardinality(Votes(values, values[i]))]

(* The loop "if (count[i] > count[max]) max = i": the first position with  *)
(* the largest count.                                                      *)
max(values) ==
  CHOOSE i \in DOMAIN values :
    /\ \A j \in DOMAIN values : count(values)[j] <= count(values)[i]
    /\ \A j \in 1..(i - 1) : count(values)[j] < count(values)[i]

vote_AtLeastHalf(values) ==    \* mutant: threshold off by one
  IF values # <<>> /\ count(values)[max(values)] >= NMR \div 2
  THEN max(values) - 1
  ELSE NO_MAJORITY

(* The index of a majority value, counted from 0 as in the code, or -1.    *)
vote(values) ==
  IF values # <<>> /\ count(values)[max(values)] > NMR \div 2
  THEN max(values) - 1
  ELSE NO_MAJORITY

Majority(values, v) == Cardinality(Votes(values, v)) > NMR \div 2

(* What the voter promises for the results of at most NMR copies.          *)
VoteCorrect(values) ==
  LET ret == vote(values) IN
  /\ ret = NO_MAJORITY => \A x \in DOMAIN values : ~Majority(values, values[x])
  /\ ret # NO_MAJORITY =>
       /\ ret + 1 \in DOMAIN values
       /\ Majority(values, values[ret + 1])
       /\ \A x \in DOMAIN values :
            Majority(values, values[x]) => values[x] = values[ret + 1]
=============================================================================
