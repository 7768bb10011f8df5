-------------------------- MODULE ImproveRoundsProofs --------------------------
(* What the rounds of /improve leave in the store and on the merge request, for any
   replies, scores, settings, number of runs and interleaving with reviewers. *)
EXTENDS ImproveRounds, FiniteSetTheorems, SequenceTheorems, WellFoundedInduction, TLAPS

-----------------------------------------------------------------------------
(* Places in an order. *)

\* A non-empty set of naturals has a least element.
LEMMA LeastElement ==
    ASSUME NEW T \in SUBSET Nat, T # {}
    PROVE  \E n \in T : \A m \in T : n <= m
<1> DEFINE Below == {{k \in Nat : k < n} : n \in T}
<1>1. Below \subseteq FiniteSubsetsOf(Nat)
  <2> SUFFICES ASSUME NEW n \in T
               PROVE  {k \in Nat : k < n} \in FiniteSubsetsOf(Nat)
    OBVIOUS
  <2>1. IsFiniteSet({k \in Nat : k < n})
    BY FS_BoundedSetOfNaturals
  <2> QED BY <2>1 DEF FiniteSubsetsOf
<1>2. PICK B \in Below : \A C \in Below : <<C, B>> \notin StrictSubsetOrdering(Nat)
  <2>1. Below # {}
    OBVIOUS
  <2> HIDE DEF Below
  <2> QED BY <1>1, <2>1, FS_StrictSubsetOrderingWellFounded, WFMin
<1>3. PICK n \in T : B = {k \in Nat : k < n}
  BY <1>2
<1>4. ASSUME NEW m \in T, m < n PROVE FALSE
  <2> DEFINE C == {k \in Nat : k < m}
  <2>1. C \in Below
    OBVIOUS
  <2>2. m \in B /\ m \notin C /\ C \subseteq B /\ B \subseteq Nat
    BY <1>3, <1>4
  <2>3. <<C, B>> \in StrictSubsetOrdering(Nat)
    BY <2>2 DEF StrictSubsetOrdering
  <2> QED BY <2>1, <2>3, <1>2
<1> QED BY <1>4

Before(S, R, i) == {j \in S : <<j, i>> \in R}
TotalOn(S, R) ==
    /\ \A i \in S : <<i, i>> \notin R
    /\ \A i, j \in S : i = j \/ <<i, j>> \in R \/ <<j, i>> \in R
    /\ \A i, j, k \in S : <<i, j>> \in R /\ <<j, k>> \in R => <<i, k>> \in R

LEMMA FewerBefore ==
    ASSUME NEW S, NEW R, IsFiniteSet(S), TotalOn(S, R), NEW i \in S, NEW j \in S, <<i, j>> \in R
    PROVE  Cardinality(Before(S, R, i)) < Cardinality(Before(S, R, j))
<1>1. PICK A, B : A = Before(S, R, i) /\ B = Before(S, R, j)
  OBVIOUS
<1>2. A \subseteq B /\ i \in B /\ i \notin A /\ B \subseteq S
  BY <1>1 DEF Before, TotalOn
<1>3. IsFiniteSet(B) /\ IsFiniteSet(A)
  BY <1>2, FS_Subset
<1>4. Cardinality(A) \in Nat /\ Cardinality(B) \in Nat
  BY <1>3, FS_CardinalityType
<1>5. Cardinality(A) <= Cardinality(B) /\ Cardinality(A) # Cardinality(B)
  BY <1>2, <1>3, FS_Subset
<1>6. QED
  BY <1>1, <1>4, <1>5

\* Each place is taken by one element.
LEMMA PlacesAreTaken ==
    ASSUME NEW S, NEW R, IsFiniteSet(S), TotalOn(S, R)
    PROVE  /\ \A i \in S : Cardinality(Before(S, R, i)) \in 0..(Cardinality(S) - 1)
           /\ \A n \in 1..Cardinality(S) : \E i \in S : Cardinality(Before(S, R, i)) = n - 1
           /\ \A i, j \in S : Cardinality(Before(S, R, i)) = Cardinality(Before(S, R, j)) => i = j
<1>1. PICK c \in Nat : c = Cardinality(S)
  BY FS_CardinalityType
<1>2. ASSUME NEW i \in S
      PROVE  Cardinality(Before(S, R, i)) \in 0..(c - 1)
  <2>1. PICK A : A = Before(S, R, i)
    OBVIOUS
  <2>2. A \subseteq S /\ i \notin A
    BY <2>1 DEF Before, TotalOn
  <2>3. IsFiniteSet(A) /\ Cardinality(A) <= c /\ Cardinality(A) # c
    BY <1>1, <2>2, FS_Subset
  <2>4. Cardinality(A) \in Nat
    BY <2>3, FS_CardinalityType
  <2>5. QED
    BY <1>1, <2>1, <2>3, <2>4
<1>3. ASSUME NEW i \in S, NEW j \in S, Cardinality(Before(S, R, i)) = Cardinality(Before(S, R, j))
      PROVE  i = j
  <2>1. Cardinality(Before(S, R, i)) \in Int /\ Cardinality(Before(S, R, j)) \in Int
    BY <1>1, <1>2
  <2>2. CASE <<i, j>> \in R
    <3>1. Cardinality(Before(S, R, i)) < Cardinality(Before(S, R, j))
      BY <2>2, FewerBefore
    <3>2. QED
      BY <1>3, <2>1, <3>1
  <2>3. CASE <<j, i>> \in R
    <3>1. Cardinality(Before(S, R, j)) < Cardinality(Before(S, R, i))
      BY <2>3, FewerBefore
    <3>2. QED
      BY <1>3, <2>1, <3>1
  <2>4. QED
    BY <2>2, <2>3 DEF TotalOn
<1>4. PICK f : f = [i \in S |-> Cardinality(Before(S, R, i))]
  OBVIOUS
<1>5. PICK T : T = 0..(c - 1)
  OBVIOUS
<1>6. f \in Injection(S, T)
  BY <1>2, <1>3, <1>4, <1>5 DEF Injection, IsInjective
<1>7. IsFiniteSet(T) /\ Cardinality(T) = c
  BY <1>1, <1>5, FS_Interval
<1>8. f \in Surjection(S, T)
  BY <1>1, <1>6, <1>7, FS_Injection
<1>9. ASSUME NEW n \in 1..c
      PROVE  \E i \in S : Cardinality(Before(S, R, i)) = n - 1
  <2>1. n - 1 \in T
    BY <1>1, <1>5
  <2>2. PICK i \in S : f[i] = n - 1
    BY <1>8, <2>1 DEF Surjection
  <2>3. QED
    BY <1>4, <2>2
<1>10. QED
  BY <1>1, <1>2, <1>3, <1>9

\* The set in order: what InOrder computes, for the relation its operator stands for.
IsOrder(o, S, R) ==
    /\ DOMAIN o = 1..Cardinality(S)
    /\ \A n \in 1..Cardinality(S) : o[n] \in S /\ Cardinality(Before(S, R, o[n])) = n - 1

LEMMA OrderIs ==
    ASSUME NEW S, NEW R, IsFiniteSet(S), TotalOn(S, R), NEW o, IsOrder(o, S, R)
    PROVE  /\ Cardinality(S) \in Nat /\ DOMAIN o = 1..Cardinality(S) /\ \A n \in DOMAIN o : o[n] \in S
           /\ \A i \in S : \E n \in 1..Cardinality(S) : o[n] = i
           /\ \A m, n \in 1..Cardinality(S) : m < n => <<o[m], o[n]>> \in R
<1>1. PICK c \in Nat : c = Cardinality(S)
  BY FS_CardinalityType
<1>2. ASSUME NEW n \in 1..c
      PROVE  o[n] \in S /\ Cardinality(Before(S, R, o[n])) = n - 1
  BY <1>1 DEF IsOrder
<1>3. DOMAIN o = 1..c /\ \A n \in DOMAIN o : o[n] \in S
  BY <1>1, <1>2 DEF IsOrder
<1>4. ASSUME NEW i \in S
      PROVE  \E n \in 1..c : o[n] = i
  <2>1. PICK n : n = Cardinality(Before(S, R, i)) + 1
    OBVIOUS
  <2>2. n \in 1..c /\ n - 1 = Cardinality(Before(S, R, i))
    BY <1>1, <2>1, PlacesAreTaken
  <2>3. o[n] = i
    BY <1>2, <2>2, PlacesAreTaken
  <2>4. QED
    BY <2>2, <2>3
<1>5. ASSUME NEW m \in 1..c, NEW n \in 1..c, m < n
      PROVE  <<o[m], o[n]>> \in R
  <2>1. o[m] \in S /\ o[n] \in S /\ o[m] # o[n]
    BY <1>2, <1>5
  <2>2. <<o[n], o[m]>> \notin R
    <3>1. ASSUME <<o[n], o[m]>> \in R
          PROVE  FALSE
      <4>1. Cardinality(Before(S, R, o[n])) < Cardinality(Before(S, R, o[m]))
        BY <2>1, <3>1, FewerBefore
      <4>2. QED
        BY <1>2, <1>5, <4>1
    <3>2. QED
      BY <3>1
  <2>3. QED
    BY <2>1, <2>2 DEF TotalOn
<1>6. QED
  BY <1>1, <1>3, <1>4, <1>5

\* What InOrder computes for places and for ranks.
Increasing(S) == [n \in 1..Cardinality(S) |-> CHOOSE i \in S : Cardinality({j \in S : j < i}) = n - 1]
AreBetter(data, S, i) == {j \in S : Rank(data[j]) > Rank(data[i]) \/ (Rank(data[j]) = Rank(data[i]) /\ j < i)}
Decreasing(data, S) == [n \in 1..Cardinality(S) |-> CHOOSE i \in S : Cardinality(AreBetter(data, S, i)) = n - 1]

Lists(o, S) ==
    /\ Cardinality(S) \in Nat /\ DOMAIN o = 1..Cardinality(S) /\ \A n \in DOMAIN o : o[n] \in S
    /\ \A i \in S : \E n \in 1..Cardinality(S) : o[n] = i

LEMMA IncreasingIs ==
    ASSUME NEW k \in Nat, NEW S, S \subseteq 1..k, NEW o, o = Increasing(S)
    PROVE  Lists(o, S)
<1>1. IsFiniteSet(S)
  <2>1. IsFiniteSet(1..k)
    BY FS_Interval
  <2>2. QED
    BY <2>1, FS_Subset
<1>2. PICK R : R = {w \in (1..k) \X (1..k) : w[1] < w[2]}
  OBVIOUS
<1>3. TotalOn(S, R)
  BY <1>2 DEF TotalOn
<1>4. \A i \in S : Before(S, R, i) = {j \in S : j < i}
  BY <1>2 DEF Before
<1>5. \A n \in 1..Cardinality(S) : \E i \in S : Cardinality(Before(S, R, i)) = n - 1
  BY <1>1, <1>3, PlacesAreTaken
<1>6. IsOrder(o, S, R)
  <2>1. ASSUME NEW n \in 1..Cardinality(S)
        PROVE  o[n] \in S /\ Cardinality(Before(S, R, o[n])) = n - 1
    <3>1. \E l \in S : Cardinality({j \in S : j < l}) = n - 1
      BY <1>4, <1>5
    <3>2. o[n] \in S /\ Cardinality({j \in S : j < o[n]}) = n - 1
      BY <3>1 DEF Increasing
    <3>3. QED
      BY <1>4, <3>2
  <2>2. DOMAIN o = 1..Cardinality(S)
    BY DEF Increasing
  <2>3. QED
    BY <2>1, <2>2 DEF IsOrder
<1>7. QED
  BY <1>1, <1>3, <1>6, OrderIs DEF Lists

LEMMA PickedIs ==
    ASSUME NEW T, NEW seq \in Seq(T), NEW S \in SUBSET DOMAIN seq, NEW p, p = Picked(seq, S)
    PROVE  /\ p \in Seq(T) /\ Len(p) = Cardinality(S)
           /\ \A n \in DOMAIN p : \E i \in S : p[n] = seq[i]
           /\ \A i \in S : \E n \in DOMAIN p : p[n] = seq[i]
<1>1. DOMAIN seq = 1..Len(seq) /\ Len(seq) \in Nat
  OBVIOUS
<1>2. PICK o : o = Increasing(S)
  OBVIOUS
<1>3. p = [n \in DOMAIN o |-> seq[o[n]]]
  BY <1>2 DEF Picked, InOrder, Increasing
<1>4. /\ Cardinality(S) \in Nat /\ DOMAIN o = 1..Cardinality(S) /\ \A n \in DOMAIN o : o[n] \in S
      /\ \A i \in S : \E n \in 1..Cardinality(S) : o[n] = i
  <2>1. S \subseteq 1..Len(seq)
    BY <1>1
  <2>2. Lists(o, S)
    BY <1>1, <1>2, <2>1, IncreasingIs
  <2>3. QED
    BY <2>2 DEF Lists
<1>5. p = [n \in 1..Cardinality(S) |-> seq[o[n]]]
  BY <1>3, <1>4
<1>6. QED
  BY <1>1, <1>4, <1>5

-----------------------------------------------------------------------------
(* From the model's answer to the suggestions that are published. *)

Candidates == [s : Suggestions, score : Int]
Data == Seq(Candidates)

\* The better of two candidates: the higher score, and of equals the earlier.
Better(data) ==
    {w \in (DOMAIN data) \X (DOMAIN data) :
        \/ Rank(data[w[1]]) > Rank(data[w[2]])
        \/ Rank(data[w[1]]) = Rank(data[w[2]]) /\ w[1] < w[2]}

LEMMA DataIs ==
    ASSUME NEW data \in Data
    PROVE  /\ Len(data) \in Nat /\ DOMAIN data = 1..Len(data)
           /\ \A i \in DOMAIN data : /\ data[i] \in Candidates /\ data[i].s \in Suggestions
                                     /\ data[i].score \in Int /\ Rank(data[i]) \in Int
<1>1. Len(data) \in Nat /\ DOMAIN data = 1..Len(data) /\ \A i \in DOMAIN data : data[i] \in Candidates
  BY DEF Data
<1>2. QED
  BY <1>1 DEF Candidates, Rank

LEMMA BetterIsTotal ==
    ASSUME NEW data \in Data, NEW S \in SUBSET DOMAIN data
    PROVE  IsFiniteSet(S) /\ TotalOn(S, Better(data))
<1>1. /\ Len(data) \in Nat /\ DOMAIN data = 1..Len(data)
      /\ \A i \in DOMAIN data : Rank(data[i]) \in Int
  BY DataIs
<1>2. IsFiniteSet(S)
  <2>1. IsFiniteSet(1..Len(data)) /\ S \in SUBSET (1..Len(data))
    BY <1>1, FS_Interval
  <2>2. QED
    BY <2>1, FS_Subset
<1>3. PICK D, f : D = DOMAIN data /\ f = [i \in D |-> Rank(data[i])]
  OBVIOUS
<1>4. D \subseteq Int /\ S \subseteq D /\ \A i \in D : f[i] \in Int
  BY <1>1, <1>3
<1>5. Better(data) = {w \in D \X D : f[w[1]] > f[w[2]] \/ (f[w[1]] = f[w[2]] /\ w[1] < w[2])}
  BY <1>3 DEF Better
<1>6. \A i, j \in D : <<i, j>> \in Better(data) <=> f[i] > f[j] \/ (f[i] = f[j] /\ i < j)
  BY <1>5
<1>7. TotalOn(S, Better(data))
  <2>1. PICK R : R = Better(data)
    OBVIOUS
  <2>2. \A i, j \in S : <<i, j>> \in R <=> f[i] > f[j] \/ (f[i] = f[j] /\ i < j)
    BY <1>4, <1>6, <2>1
  <2>3. \A i \in S : i \in Int /\ f[i] \in Int
    BY <1>4
  <2>4. \A i \in S : <<i, i>> \notin R
    BY <2>2, <2>3
  <2>5. ASSUME NEW i \in S, NEW j \in S
        PROVE  i = j \/ <<i, j>> \in R \/ <<j, i>> \in R
    <3>1. i < j \/ j < i \/ i = j
      BY <2>3
    <3>2. f[i] > f[j] \/ f[j] > f[i] \/ f[i] = f[j]
      BY <2>3
    <3>3. QED
      BY <2>2, <3>1, <3>2
  <2>6. ASSUME NEW i \in S, NEW j \in S, NEW k \in S, <<i, j>> \in R, <<j, k>> \in R
        PROVE  <<i, k>> \in R
    BY <2>2, <2>3, <2>6
  <2>7. QED
    BY <2>1, <2>4, <2>5, <2>6 DEF TotalOn
<1>8. QED
  BY <1>2, <1>7

LEMMA BestTwinIs ==
    ASSUME NEW data \in Data, NEW i \in DOMAIN data
    PROVE  /\ BestTwin(data, i) \in Twins(data, i)
           /\ \A k \in Twins(data, i) : Rank(data[k]) <= Rank(data[BestTwin(data, i)])
<1>1. PICK S : S = Twins(data, i)
  OBVIOUS
<1>2. S \subseteq DOMAIN data /\ i \in S
  BY <1>1 DEF Twins
<1>3. IsFiniteSet(S) /\ TotalOn(S, Better(data))
  BY <1>2, BetterIsTotal
<1>4. PICK j \in S : Cardinality(Before(S, Better(data), j)) = 0
  <2>1. Cardinality(S) \in Nat /\ Cardinality(S) # 0
    BY <1>2, <1>3, FS_CardinalityType, FS_EmptySet
  <2>2. 1 \in 1..Cardinality(S) /\ 1 - 1 = 0
    BY <2>1
  <2>3. QED
    BY <1>3, <2>2, PlacesAreTaken
<1>5. Before(S, Better(data), j) = {}
  <2>1. PICK A : A = Before(S, Better(data), j)
    OBVIOUS
  <2>2. A \subseteq S
    BY <2>1 DEF Before
  <2>3. IsFiniteSet(A)
    BY <1>3, <2>2, FS_Subset
  <2>4. QED
    BY <1>4, <2>1, <2>3, FS_EmptySet
<1>6. \A k \in DOMAIN data : Rank(data[k]) \in Int /\ k \in Int
  BY DataIs
<1>7. ASSUME NEW k \in S
      PROVE  Rank(data[k]) < Rank(data[j]) \/ (Rank(data[k]) = Rank(data[j]) /\ j <= k)
  <2>1. <<k, j>> \notin Better(data)
    BY <1>5 DEF Before
  <2>2. ~(Rank(data[k]) > Rank(data[j])) /\ ~(Rank(data[k]) = Rank(data[j]) /\ k < j)
    BY <1>2, <2>1 DEF Better
  <2>3. QED
    BY <1>2, <1>6, <2>2
<1>8. PICK b : b = BestTwin(data, i)
  OBVIOUS
<1>9. b \in S /\ \A k \in S : Rank(data[k]) < Rank(data[b]) \/ (Rank(data[k]) = Rank(data[b]) /\ b <= k)
  BY <1>1, <1>4, <1>7, <1>8 DEF BestTwin
<1>10. \A k \in S : Rank(data[k]) <= Rank(data[b])
  BY <1>2, <1>6, <1>9
<1>11. QED
  BY <1>1, <1>8, <1>9, <1>10

LEMMA ParsedIs ==
    ASSUME NEW reply \in Replies
    PROVE  Parsed(reply) \in Data
<1>1. reply \in Seq(Suggestions)
  BY ImproveBounds
<1>2. PICK good \in SUBSET DOMAIN reply : good =
        {i \in DOMAIN reply : reply[i].valid /\ \A j \in 1..(i - 1) :
                     reply[j].valid => reply[j].title # reply[i].title}
  OBVIOUS
<1>3. PICK kept : kept = Picked(reply, good)
  OBVIOUS
<1>4. kept \in Seq(Suggestions)
  BY <1>1, <1>3, PickedIs
<1>5. Parsed(reply) = [n \in DOMAIN kept |-> [s |-> kept[n], score |-> GuardScore(kept[n])]]
  BY <1>2, <1>3 DEF Parsed
<1>6. \A n \in DOMAIN kept : [s |-> kept[n], score |-> GuardScore(kept[n])] \in Candidates
  BY <1>4 DEF Candidates, GuardScore, Unscored
<1>7. QED
  BY <1>4, <1>5, <1>6 DEF Data

\* The reflection keeps the suggestions, whatever becomes of their scores.
LEMMA ScoredIs ==
    ASSUME NEW data \in Data
    PROVE  /\ Unreflected(data) \in Data
           /\ \A scores \in [DOMAIN data -> Scores] : Reflected(data, scores) \in Data
<1>1. Len(data) \in Nat /\ DOMAIN data = 1..Len(data) /\ \A i \in DOMAIN data : data[i] \in Candidates
  BY DataIs
<1>2. ASSUME NEW f \in [DOMAIN data -> Int]
      PROVE  [i \in DOMAIN data |-> [data[i] EXCEPT !.score = f[i]]] \in Data
  <2>1. \A i \in DOMAIN data : [data[i] EXCEPT !.score = f[i]] \in Candidates
    BY <1>1 DEF Candidates
  <2>2. QED
    BY <1>1, <2>1 DEF Data
<1>3. Unreflected(data) \in Data
  <2>1. PICK f : f = [i \in DOMAIN data |-> 7]
    OBVIOUS
  <2>2. f \in [DOMAIN data -> Int]
    BY <2>1
  <2>3. Unreflected(data) = [i \in DOMAIN data |-> [data[i] EXCEPT !.score = f[i]]]
    BY <2>1 DEF Unreflected
  <2>4. QED
    BY <1>2, <2>2, <2>3
<1>4. ASSUME NEW scores \in [DOMAIN data -> Scores]
      PROVE  Reflected(data, scores) \in Data
  <2>1. PICK f : f = [i \in DOMAIN data |-> HeadScore(data[i].s, scores[i])]
    OBVIOUS
  <2>2. f \in [DOMAIN data -> Int]
    <3>1. ASSUME NEW i \in DOMAIN data
          PROVE  HeadScore(data[i].s, scores[i]) \in Int
      <4>1. scores[i] \in Int
        BY ImproveBounds
      <4>2. QED
        BY <4>1 DEF HeadScore
    <3>2. QED
      BY <2>1, <3>1
  <2>3. Reflected(data, scores) = [i \in DOMAIN data |-> [data[i] EXCEPT !.score = f[i]]]
    BY <2>1 DEF Reflected
  <2>4. QED
    BY <1>2, <2>2, <2>3
<1>5. QED
  BY <1>3, <1>4

LEMMA FilteredIs ==
    ASSUME NEW data \in Data, NEW least
    PROVE  AtLeast(data, least) \in Data /\ Collected(data) \in Data /\ ForDual(data, least) \in Data
<1>1. \A S \in SUBSET DOMAIN data : Picked(data, S) \in Data
  BY PickedIs DEF Data
<1>2. \A l : AtLeast(data, l) \in Data
  BY <1>1 DEF AtLeast
<1>3. ForDual(data, least) \in Data
  BY <1>1 DEF ForDual
<1>4. QED
  BY <1>2, <1>3 DEF Collected

\* After the removal of twins: candidates of the answer, and of each one the best twin.
LEMMA DedupIs ==
    ASSUME NEW data \in Data, NEW d, d = SameRoundDedup(data)
    PROVE  /\ d \in Data
           /\ \A n \in DOMAIN d : \E i \in DOMAIN data : d[n] = data[i]
           /\ \A i \in DOMAIN data : \E n \in DOMAIN d : \E b \in Twins(data, i) :
                d[n] = data[b] /\ Rank(data[i]) <= Rank(data[b])
<1>1. /\ Len(data) \in Nat /\ DOMAIN data = 1..Len(data)
      /\ \A i \in DOMAIN data : data[i] \in Candidates
  BY DataIs
<1>2. PICK S : S = {i \in DOMAIN data : \A j \in Twins(data, i) : i <= j}
  OBVIOUS
<1>3. PICK o : o = Increasing(S)
  OBVIOUS
<1>4. /\ Cardinality(S) \in Nat /\ DOMAIN o = 1..Cardinality(S) /\ \A n \in DOMAIN o : o[n] \in S
      /\ \A i \in S : \E n \in 1..Cardinality(S) : o[n] = i
  <2>1. S \subseteq 1..Len(data) /\ Len(data) \in Nat
    BY <1>1, <1>2
  <2>2. PICK k \in Nat : k = Len(data)
    BY <2>1
  <2>3. S \subseteq 1..k
    BY <2>1, <2>2
  <2>4. Lists(o, S)
    BY <1>3, <2>3, IncreasingIs
  <2>5. QED
    BY <2>4 DEF Lists
<1>5. d = [n \in 1..Cardinality(S) |-> data[BestTwin(data, o[n])]]
  <2>1. d = [n \in DOMAIN o |-> data[BestTwin(data, o[n])]]
    BY <1>2, <1>3 DEF SameRoundDedup, InOrder, Increasing
  <2>2. QED
    BY <1>4, <2>1
<1>6. \A i \in DOMAIN data : BestTwin(data, i) \in DOMAIN data /\ BestTwin(data, i) \in Twins(data, i)
  BY BestTwinIs DEF Twins
<1>7. S \subseteq DOMAIN data
  BY <1>2
<1>8. \A n \in 1..Cardinality(S) : o[n] \in DOMAIN data /\ d[n] = data[BestTwin(data, o[n])]
  BY <1>4, <1>5, <1>7
<1>9. d \in Data
  BY <1>1, <1>4, <1>5, <1>6, <1>8 DEF Data
<1>10. ASSUME NEW i \in DOMAIN data
       PROVE  \E n \in DOMAIN d : \E b \in Twins(data, i) :
                d[n] = data[b] /\ Rank(data[i]) <= Rank(data[b])
  <2>1. Twins(data, i) \in SUBSET Nat /\ i \in Twins(data, i)
    BY <1>1 DEF Twins
  <2>2. PICK l \in Twins(data, i) : \A m \in Twins(data, i) : l <= m
    BY <2>1, LeastElement
  <2>3. l \in DOMAIN data /\ Twins(data, l) = Twins(data, i)
    BY <2>2 DEF Twins
  <2>4. l \in S
    BY <1>2, <2>2, <2>3
  <2>5. PICK n \in 1..Cardinality(S) : o[n] = l
    BY <1>4, <2>4
  <2>6. d[n] = data[BestTwin(data, l)] /\ n \in DOMAIN d
    BY <1>5, <1>8, <2>5
  <2>7. /\ BestTwin(data, l) \in Twins(data, i)
        /\ Rank(data[i]) <= Rank(data[BestTwin(data, l)])
    BY <2>1, <2>3, BestTwinIs
  <2>8. QED
    BY <2>6, <2>7
<1>11. QED
  BY <1>5, <1>6, <1>8, <1>9, <1>10

\* After the look-up in the store: what nothing in it speaks against.
LEMMA UnsettledIs ==
    ASSUME NEW data \in Data, NEW head, NEW u, u = Unsettled(data, head)
    PROVE  /\ u \in Data
           /\ \A n \in DOMAIN u : Raised(u[n], head) /\ \E i \in DOMAIN data : u[n] = data[i]
           /\ \A i \in DOMAIN data : Raised(data[i], head) => \E n \in DOMAIN u : u[n] = data[i]
<1>1. PICK S \in SUBSET DOMAIN data : S = {i \in DOMAIN data : Raised(data[i], head)}
  OBVIOUS
<1>2. u = Picked(data, S)
  BY <1>1 DEF Unsettled
<1>3. /\ u \in Data
      /\ \A n \in DOMAIN u : \E i \in S : u[n] = data[i]
      /\ \A i \in S : \E n \in DOMAIN u : u[n] = data[i]
  BY <1>2, PickedIs DEF Data
<1>4. QED
  BY <1>1, <1>3

\* After the ranking: all candidates, no better one after a worse.
LEMMA RankedIs ==
    ASSUME NEW data \in Data, NEW k, k = Ranked(data)
    PROVE  /\ k \in Data /\ Len(k) = Len(data)
           /\ \A n \in DOMAIN k : \E i \in DOMAIN data : k[n] = data[i]
           /\ \A i \in DOMAIN data : \E n \in DOMAIN k : k[n] = data[i]
           /\ \A m, n \in DOMAIN k : m < n => Rank(k[m]) >= Rank(k[n])
<1> DEFINE R == Better(data)
<1>1. /\ Len(data) \in Nat /\ DOMAIN data = 1..Len(data)
      /\ \A i \in DOMAIN data : data[i] \in Candidates /\ Rank(data[i]) \in Int
  BY DataIs
<1>2. PICK S : S = DOMAIN data
  OBVIOUS
<1>3. IsFiniteSet(S) /\ TotalOn(S, R) /\ Cardinality(S) = Len(data)
  <2>1. S \in SUBSET DOMAIN data
    BY <1>2
  <2>2. IsFiniteSet(S) /\ TotalOn(S, Better(data))
    BY <2>1, BetterIsTotal
  <2>3. Cardinality(1..Len(data)) = Len(data)
    BY <1>1, FS_Interval, SMTT(30)
  <2>4. QED
    BY <1>1, <1>2, <2>2, <2>3
<1>4. \A i \in S : Before(S, R, i) = AreBetter(data, S, i)
  BY <1>2 DEF Before, Better, AreBetter
<1>5. PICK o : o = Decreasing(data, S)
  OBVIOUS
<1>6. k = [n \in DOMAIN o |-> data[o[n]]]
  BY <1>2, <1>5 DEF Ranked, InOrder, Decreasing, AreBetter
<1>7. \A i, j \in S : <<i, j>> \in R => Rank(data[i]) >= Rank(data[j])
  BY <1>1, <1>2 DEF Better
<1> HIDE DEF R
<1>8. IsOrder(o, S, R)
  <2>1. ASSUME NEW n \in 1..Cardinality(S)
        PROVE  o[n] \in S /\ Cardinality(Before(S, R, o[n])) = n - 1
    <3>1. PICK i \in S : Cardinality(Before(S, R, i)) = n - 1
      BY <1>3, PlacesAreTaken
    <3>2. \E l \in S : Cardinality(AreBetter(data, S, l)) = n - 1
      BY <1>4, <3>1
    <3>3. o[n] \in S /\ Cardinality(AreBetter(data, S, o[n])) = n - 1
      BY <1>5, <3>2 DEF Decreasing
    <3>4. QED
      BY <1>4, <3>3
  <2>2. DOMAIN o = 1..Cardinality(S)
    BY <1>5 DEF Decreasing
  <2>3. QED
    BY <2>1, <2>2 DEF IsOrder
<1>9. /\ DOMAIN o = 1..Len(data) /\ \A n \in DOMAIN o : o[n] \in S
      /\ \A i \in S : \E n \in DOMAIN o : o[n] = i
      /\ \A m, n \in DOMAIN o : m < n => <<o[m], o[n]>> \in R
  BY <1>3, <1>8, OrderIs
<1>10. k \in Data /\ DOMAIN k = DOMAIN o /\ Len(k) = Len(data)
  <2>1. k = [n \in 1..Len(data) |-> data[o[n]]] /\ \A n \in 1..Len(data) : data[o[n]] \in Candidates
    BY <1>1, <1>2, <1>6, <1>9
  <2>2. QED
    BY <1>1, <1>9, <2>1 DEF Data
<1>11. \A n \in DOMAIN k : o[n] \in S /\ k[n] = data[o[n]]
  BY <1>6, <1>9, <1>10
<1>12. ASSUME NEW m \in DOMAIN k, NEW n \in DOMAIN k, m < n
       PROVE  Rank(k[m]) >= Rank(k[n])
  BY <1>7, <1>9, <1>10, <1>11, <1>12
<1>13. \A i \in DOMAIN data : \E n \in DOMAIN k : k[n] = data[i]
  BY <1>2, <1>9, <1>10, <1>11
<1>14. QED
  BY <1>2, <1>10, <1>11, <1>12, <1>13

\* The first part of a sequence.
LEMMA PrefixIs ==
    ASSUME NEW T, NEW s \in Seq(T), NEW m \in Nat, m <= Len(s)
    PROVE  SubSeq(s, 1, m) \in Seq(T) /\ Len(SubSeq(s, 1, m)) = m /\ \A n \in 1..m : SubSeq(s, 1, m)[n] = s[n]
<1>1. SubSeq(s, 1, m) = [n \in 1..m |-> s[n]]
  OBVIOUS
<1>2. QED
  BY <1>1

\* After the limit: the best of the candidates.
Leads(l, k) ==
    /\ l \in Data /\ Len(l) <= NumSuggestions /\ Len(l) <= Len(k)
    /\ Len(l) = Len(k) \/ Len(l) = NumSuggestions
    /\ \A n \in DOMAIN l : n \in DOMAIN k /\ l[n] = k[n]

LEMMA LimitIs ==
    ASSUME NEW data \in Data, NEW l, l = RankAndLimit(data), NEW k, k = Ranked(data)
    PROVE  Leads(l, k)
<1>1. k \in Data /\ Len(k) = Len(data) /\ Len(k) \in Nat /\ DOMAIN k = 1..Len(k)
  <2>1. k \in Data /\ Len(k) = Len(data)
    BY RankedIs
  <2>2. QED
    BY <2>1, DataIs
<1>2. PICK m : m = IF Len(k) < NumSuggestions THEN Len(k) ELSE NumSuggestions
  OBVIOUS
<1>3. m \in Nat /\ m <= Len(k) /\ m <= NumSuggestions /\ (m = Len(k) \/ m = NumSuggestions)
  BY <1>1, <1>2 DEF NumSuggestions
<1>4. l = SubSeq(k, 1, m)
  BY <1>1, <1>2 DEF RankAndLimit
<1>5. k \in Seq(Candidates)
  BY <1>1 DEF Data
<1>6. l \in Seq(Candidates) /\ Len(l) = m /\ \A n \in 1..m : l[n] = k[n]
  BY <1>3, <1>4, <1>5, PrefixIs
<1>7. DOMAIN l = 1..m
  BY <1>6
<1>8. \A n \in 1..m : n \in DOMAIN k
  <2>1. PICK c \in Nat : c = Len(k)
    BY <1>1
  <2>2. m \in Nat /\ m <= c
    BY <1>3, <2>1
  <2>3. DOMAIN k = 1..c
    BY <1>1, <2>1
  <2>4. QED
    BY <2>2, <2>3, SMTT(30)
<1>9. QED
  BY <1>1, <1>3, <1>6, <1>7, <1>8 DEF Data, Leads

\* What a look-up that works lets through is raised by none of the rows; one that
\* fails lets something through.
LEMMA KeptIs ==
    ASSUME NEW data \in Data, NEW head, NEW blind \in BOOLEAN, NEW k, k = Kept(data, head, blind)
    PROVE  /\ k \in Data /\ Len(k) <= NumSuggestions
           /\ \A n \in DOMAIN k : /\ \E i \in DOMAIN data : k[n] = data[i]
                                  /\ blind \/ Raised(k[n], head)
           /\ blind /\ data # <<>> => k # <<>>
<1>1. PICK d : d = SameRoundDedup(data)
  OBVIOUS
<1>2. /\ d \in Data /\ \A n \in DOMAIN d : \E i \in DOMAIN data : d[n] = data[i]
      /\ \A i \in DOMAIN data : \E n \in DOMAIN d : \E b \in Twins(data, i) :
                d[n] = data[b] /\ Rank(data[i]) <= Rank(data[b])
  BY <1>1, DedupIs
<1>3. PICK u : u = IF blind THEN d ELSE Unsettled(d, head)
  OBVIOUS
<1>4. u \in Data /\ \A n \in DOMAIN u : (blind \/ Raised(u[n], head)) /\ \E i \in DOMAIN d : u[n] = d[i]
  <2>1. CASE blind
    BY <1>2, <1>3, <2>1
  <2>2. CASE ~blind
    BY <1>2, <1>3, <2>2, UnsettledIs
  <2>3. QED
    BY <2>1, <2>2
<1>5. k = RankAndLimit(u)
  BY <1>1, <1>3 DEF Kept
<1>6. PICK q : q = Ranked(u)
  OBVIOUS
<1>7. /\ k \in Data /\ Len(k) <= NumSuggestions /\ Len(k) <= Len(q)
      /\ Len(k) = Len(q) \/ Len(k) = NumSuggestions
      /\ \A n \in DOMAIN k : n \in DOMAIN q /\ k[n] = q[n]
  BY <1>4, <1>5, <1>6, LimitIs DEF Leads
<1>8. Len(q) = Len(u) /\ \A n \in DOMAIN q : \E i \in DOMAIN u : q[n] = u[i]
  BY <1>4, <1>6, RankedIs
<1>9. ASSUME blind, data # <<>>
      PROVE  k # <<>>
  <2>1. Len(data) \in Nat /\ DOMAIN data = 1..Len(data)
    BY DataIs
  <2>2. Len(data) # 0
    BY <1>9 DEF Data
  <2>3. 1 \in DOMAIN data
    BY <2>1, <2>2
  <2>4. DOMAIN d # {} /\ u = d
    BY <1>2, <1>3, <1>9, <2>3
  <2>5. Len(d) \in Nat /\ DOMAIN d = 1..Len(d)
    BY <1>2, DataIs
  <2>6. Len(q) # 0
    BY <1>8, <2>4, <2>5
  <2>7. Len(k) # 0
    BY <1>7, <2>6 DEF NumSuggestions
  <2>8. QED
    BY <2>7
<1>10. ASSUME NEW n \in DOMAIN k
       PROVE  (\E i \in DOMAIN data : k[n] = data[i]) /\ (blind \/ Raised(k[n], head))
  <2>1. PICK m \in DOMAIN u : k[n] = u[m]
    BY <1>7, <1>8
  <2>2. PICK l \in DOMAIN d : u[m] = d[l]
    BY <1>4
  <2>3. \E i \in DOMAIN data : d[l] = data[i]
    BY <1>2
  <2>4. blind \/ Raised(u[m], head)
    BY <1>4
  <2>5. QED
    BY <2>1, <2>2, <2>3, <2>4
<1>11. QED
  BY <1>7, <1>9, <1>10

\* What an inline run leaves out was settled, or lost to a twin, or is no better than
\* all of the two it posts.
Fair(k, data, i, head) ==
    \/ \E n \in DOMAIN k : k[n] = data[i]
    \/ \E b \in Twins(data, i) \ {i} : Rank(data[b]) >= Rank(data[i])
    \/ ~Raised(data[i], head)
    \/ Len(k) = NumSuggestions /\ \A n \in DOMAIN k : Rank(k[n]) >= Rank(data[i])

LEMMA BestAreKept ==
    ASSUME NEW data \in Data, NEW head, NEW k, k = Kept(data, head, FALSE), NEW i \in DOMAIN data
    PROVE  Fair(k, data, i, head)
<1>1. PICK d, u, q : d = SameRoundDedup(data) /\ u = Unsettled(d, head) /\ q = Ranked(u)
  OBVIOUS
<1>2. k = RankAndLimit(u)
  BY <1>1 DEF Kept
<1>3. d \in Data /\ \A j \in DOMAIN data : \E n \in DOMAIN d : \E b \in Twins(data, j) :
                d[n] = data[b] /\ Rank(data[j]) <= Rank(data[b])
  BY <1>1, DedupIs
<1>4. u \in Data /\ \A j \in DOMAIN d : Raised(d[j], head) => \E n \in DOMAIN u : u[n] = d[j]
  BY <1>1, <1>3, UnsettledIs
<1>5. /\ q \in Data
      /\ \A j \in DOMAIN u : \E n \in DOMAIN q : q[n] = u[j]
      /\ \A m, n \in DOMAIN q : m < n => Rank(q[m]) >= Rank(q[n])
  BY <1>1, <1>4, RankedIs
<1>6. /\ k \in Data /\ Len(k) <= NumSuggestions /\ Len(k) <= Len(q)
      /\ Len(k) = Len(q) \/ Len(k) = NumSuggestions
      /\ \A n \in DOMAIN k : n \in DOMAIN q /\ k[n] = q[n]
  <2>1. u \in Data
    BY <1>4
  <2>2. q = Ranked(u)
    BY <1>1
  <2>3. Leads(k, q)
    BY <1>2, <2>1, <2>2, LimitIs
  <2>4. QED
    BY <2>3 DEF Leads
<1>7. SUFFICES ASSUME Raised(data[i], head),
                      ~\E b \in Twins(data, i) \ {i} : Rank(data[b]) >= Rank(data[i]),
                      ~\E n \in DOMAIN k : k[n] = data[i]
               PROVE  Len(k) = NumSuggestions /\ \A n \in DOMAIN k : Rank(k[n]) >= Rank(data[i])
  BY DEF Fair
<1>8. PICK n \in DOMAIN d : d[n] = data[i]
  <2>1. PICK n \in DOMAIN d : \E b \in Twins(data, i) : d[n] = data[b] /\ Rank(data[i]) <= Rank(data[b])
    BY <1>3
  <2>2. PICK b \in Twins(data, i) : d[n] = data[b] /\ Rank(data[i]) <= Rank(data[b])
    BY <2>1
  <2>3. b \in DOMAIN data /\ Rank(data[i]) \in Int /\ Rank(data[b]) \in Int
    BY <2>2, DataIs DEF Twins
  <2>4. b = i
    BY <1>7, <2>2, <2>3
  <2>5. QED
    BY <2>2, <2>4
<1>9. PICK m \in DOMAIN q : q[m] = data[i]
  BY <1>4, <1>5, <1>7, <1>8
<1>10. /\ Len(k) \in Nat /\ DOMAIN k = 1..Len(k) /\ Len(q) \in Nat /\ DOMAIN q = 1..Len(q)
  BY <1>5, <1>6, DataIs
<1>11. PICK lk \in Nat, lq \in Nat : lk = Len(k) /\ lq = Len(q)
  BY <1>10
<1>12. m \in 1..lq /\ m \notin 1..lk /\ lk <= lq /\ DOMAIN k = 1..lk /\ DOMAIN q = 1..lq
  BY <1>6, <1>7, <1>9, <1>10, <1>11
<1>13. lk # lq /\ \A j \in 1..lk : j \in 1..lq /\ j < m
  BY <1>12
<1>14. \A j \in 1..lk : Rank(k[j]) >= Rank(data[i])
  BY <1>5, <1>6, <1>9, <1>12, <1>13
<1>15. QED
  BY <1>6, <1>11, <1>12, <1>13, <1>14

-----------------------------------------------------------------------------
(* Types. *)

Kinds == {"progress", "temporary", "empty", "table", "notice", "failure"}
Notes == [kind : Kinds, by : ImproveTasks, hist : 0..MaxHistory]
RuleSets == {NamedRules(s) : s \in Suggestions}
Patches == {s.patch : s \in Suggestions}
Cuts == {s.cut : s \in Suggestions}
Rows == [by : ImproveTasks, line : Int, rules : RuleSets, cohort : Int \X RuleSets, patch : Patches,
         head : Nat, cut : Cuts, state : Live \cup {"superseded"}, stray : BOOLEAN, blind : BOOLEAN]
Runs == [pc : {"idle", "asking", "reflecting", "deciding", "closed"},
         cfg : ImproveConfigs \cup {CHOOSE c \in ImproveConfigs : TRUE}, head : Nat,
         attempt : 0..MaxModels, data : Data, found : BOOLEAN,
         status : {"none", "started", "success", "empty", "failed"}, faulty : BOOLEAN]

\* A run between its awaits is recorded as started, and before the answer it has no data.
Types ==
    /\ improveRuns \in [ImproveTasks -> Runs]
    /\ storeRows \in Seq(Rows)
    /\ mrComments \in Seq(Notes)
    /\ mrHead \in Nat
    /\ \A r \in ImproveTasks :
        /\ improveRuns[r].head <= mrHead
        /\ improveRuns[r].pc \in {"asking", "reflecting", "deciding"} => improveRuns[r].status = "started"
        /\ improveRuns[r].pc \in {"idle", "asking"} => improveRuns[r].data = <<>>

LEMMA IdleIs ==
    Idle \in Runs /\ Idle.head = 0 /\ Idle.data = <<>> /\ Idle.pc = "idle"
<1>1. MaxModels \in Nat
  BY ImproveBounds
<1>2. <<>> \in Data
  BY DEF Data
<1>3. PICK c : c = CHOOSE e \in ImproveConfigs : TRUE
  OBVIOUS
<1>4. c \in ImproveConfigs \cup {CHOOSE e \in ImproveConfigs : TRUE}
  BY <1>3
<1>5. Idle = [pc |-> "idle", cfg |-> c, head |-> 0, attempt |-> 0,
              data |-> <<>>, found |-> FALSE, status |-> "none", faulty |-> FALSE]
  BY <1>3 DEF Idle
<1>6. QED
  BY <1>1, <1>2, <1>4, <1>5 DEF Runs

\* Removing, rewording and adding notes.
LEMMA WithoutIs ==
    ASSUME NEW notes \in Seq(Notes), NEW kind, NEW r, NEW w, w = Without(notes, kind, r)
    PROVE  /\ w \in Seq(Notes)
           /\ \A n \in DOMAIN w : \E k \in DOMAIN notes :
                w[n] = notes[k] /\ ~(notes[k].kind = kind /\ notes[k].by = r)
           /\ \A k \in DOMAIN notes : ~(notes[k].kind = kind /\ notes[k].by = r) =>
                \E n \in DOMAIN w : w[n] = notes[k]
<1>1. PICK S \in SUBSET DOMAIN notes : S = {k \in DOMAIN notes : ~(notes[k].kind = kind /\ notes[k].by = r)}
  OBVIOUS
<1>2. w = Picked(notes, S)
  BY <1>1 DEF Without
<1>3. /\ w \in Seq(Notes)
      /\ \A n \in DOMAIN w : \E k \in S : w[n] = notes[k]
      /\ \A k \in S : \E n \in DOMAIN w : w[n] = notes[k]
  BY <1>2, PickedIs
<1>4. QED
  BY <1>1, <1>3

\* What an operation on the comments does to those a run announces itself, explains
\* its silence or reports its failure with.
Watched == {"progress", "temporary", "notice", "failure"}
Has(notes, kind, r) == \E k \in DOMAIN notes : notes[k].kind = kind /\ notes[k].by = r
Clears(new, old, kinds, r) ==
    /\ new \in Seq(Notes)
    /\ \A kind \in Watched, q \in ImproveTasks :
        Has(new, kind, q) <=> Has(old, kind, q) /\ ~(kind \in kinds /\ q = r)

LEMMA NoteIs ==
    ASSUME NEW kind \in Kinds, NEW r \in ImproveTasks
    PROVE  Note(kind, r) \in Notes /\ Note(kind, r).kind = kind /\ Note(kind, r).by = r
BY DEF Note, Notes, MaxHistory

LEMMA WithoutClears ==
    ASSUME NEW notes \in Seq(Notes), NEW kind, NEW r
    PROVE  Clears(Without(notes, kind, r), notes, {kind}, r)
<1>1. PICK w : w = Without(notes, kind, r)
  OBVIOUS
<1>2. /\ w \in Seq(Notes)
      /\ \A n \in DOMAIN w : \E k \in DOMAIN notes :
            w[n] = notes[k] /\ ~(notes[k].kind = kind /\ notes[k].by = r)
      /\ \A k \in DOMAIN notes : ~(notes[k].kind = kind /\ notes[k].by = r) =>
            \E n \in DOMAIN w : w[n] = notes[k]
  BY <1>1, WithoutIs
<1>3. ASSUME NEW kd \in Watched, NEW q \in ImproveTasks, Has(w, kd, q)
      PROVE  Has(notes, kd, q) /\ ~(kd \in {kind} /\ q = r)
  <2>1. PICK n \in DOMAIN w : w[n].kind = kd /\ w[n].by = q
    BY <1>3 DEF Has
  <2>2. PICK k \in DOMAIN notes : w[n] = notes[k] /\ ~(notes[k].kind = kind /\ notes[k].by = r)
    BY <1>2
  <2>3. QED
    BY <2>1, <2>2 DEF Has
<1>4. ASSUME NEW kd \in Watched, NEW q \in ImproveTasks, Has(notes, kd, q), ~(kd \in {kind} /\ q = r)
      PROVE  Has(w, kd, q)
  <2>1. PICK k \in DOMAIN notes : notes[k].kind = kd /\ notes[k].by = q
    BY <1>4 DEF Has
  <2>2. PICK n \in DOMAIN w : w[n] = notes[k]
    BY <1>2, <1>4, <2>1
  <2>3. QED
    BY <2>1, <2>2 DEF Has
<1>5. QED
  BY <1>1, <1>2, <1>3, <1>4 DEF Clears

LEMMA AppendAdds ==
    ASSUME NEW notes \in Seq(Notes), NEW n \in Notes
    PROVE  /\ Append(notes, n) \in Seq(Notes)
           /\ \A kind, q : Has(Append(notes, n), kind, q) <=> Has(notes, kind, q) \/ (n.kind = kind /\ n.by = q)
<1>1. PICK a : a = Append(notes, n)
  OBVIOUS
<1>2. PICK c \in Nat : c = Len(notes) /\ DOMAIN notes = 1..c
  OBVIOUS
<1>3. /\ a \in Seq(Notes) /\ DOMAIN a = 1..(c + 1) /\ a[c + 1] = n
      /\ \A k \in 1..c : a[k] = notes[k]
  BY <1>1, <1>2
<1>4. \A k \in 1..(c + 1) : k = c + 1 \/ k \in 1..c
  OBVIOUS
<1>5. c + 1 \in 1..(c + 1) /\ \A k \in 1..c : k \in 1..(c + 1)
  OBVIOUS
<1>6. ASSUME NEW kind, NEW q
      PROVE  Has(a, kind, q) <=> Has(notes, kind, q) \/ (n.kind = kind /\ n.by = q)
  <2>1. ASSUME Has(a, kind, q)
        PROVE  Has(notes, kind, q) \/ (n.kind = kind /\ n.by = q)
    <3>1. PICK k \in 1..(c + 1) : a[k].kind = kind /\ a[k].by = q
      BY <1>3, <2>1 DEF Has
    <3>2. QED
      BY <1>2, <1>3, <1>4, <3>1 DEF Has
  <2>2. ASSUME Has(notes, kind, q)
        PROVE  Has(a, kind, q)
    <3>1. PICK k \in 1..c : notes[k].kind = kind /\ notes[k].by = q
      BY <1>2, <2>2 DEF Has
    <3>2. QED
      BY <1>3, <1>5, <3>1 DEF Has
  <2>3. ASSUME n.kind = kind /\ n.by = q
        PROVE  Has(a, kind, q)
    BY <1>3, <1>5, <2>3 DEF Has
  <2>4. QED
    BY <2>1, <2>2, <2>3
<1>7. QED
  BY <1>1, <1>3, <1>6

\* Notes changed in place.
LEMMA MapClears ==
    ASSUME NEW notes \in Seq(Notes), NEW new, NEW kinds, NEW r,
           new = [k \in DOMAIN notes |-> new[k]],
           \A k \in DOMAIN notes :
              /\ new[k] \in Notes
              /\ IF (notes[k].kind \in kinds /\ notes[k].by = r) \/ notes[k].kind \notin Watched
                 THEN new[k].kind \notin Watched ELSE new[k] = notes[k]
    PROVE  Clears(new, notes, kinds, r)
<1>1. PICK c \in Nat : c = Len(notes) /\ DOMAIN notes = 1..c
  OBVIOUS
<1>2. new \in Seq(Notes)
  <2>1. new = [k \in 1..c |-> new[k]] /\ \A k \in 1..c : new[k] \in Notes
    BY <1>1
  <2>2. QED
    BY <2>1
<1>3. ASSUME NEW kind \in Watched, NEW q \in ImproveTasks
      PROVE  Has(new, kind, q) <=> Has(notes, kind, q) /\ ~(kind \in kinds /\ q = r)
  <2>1. ASSUME Has(new, kind, q)
        PROVE  Has(notes, kind, q) /\ ~(kind \in kinds /\ q = r)
    <3>1. PICK k \in DOMAIN notes : new[k].kind = kind /\ new[k].by = q
      BY <2>1 DEF Has
    <3>2. new[k] = notes[k] /\ ~(notes[k].kind \in kinds /\ notes[k].by = r)
      BY <3>1
    <3>3. QED
      BY <3>1, <3>2 DEF Has
  <2>2. ASSUME Has(notes, kind, q), ~(kind \in kinds /\ q = r)
        PROVE  Has(new, kind, q)
    <3>1. PICK k \in DOMAIN notes : notes[k].kind = kind /\ notes[k].by = q
      BY <2>2 DEF Has
    <3>2. new[k] = notes[k]
      BY <2>2, <3>1
    <3>3. QED
      BY <3>1, <3>2 DEF Has
  <2>3. QED
    BY <2>1, <2>2
<1>4. QED
  BY <1>2, <1>3 DEF Clears

LEMMA ClearsTwice ==
    ASSUME NEW a, NEW b, NEW c, NEW r, NEW X, NEW Y, Clears(b, a, X, r), Clears(c, b, Y, r)
    PROVE  Clears(c, a, X \cup Y, r)
BY DEF Clears

LEMMA RewordedClears ==
    ASSUME NEW notes \in Seq(Notes), NEW r, NEW new \in Notes, new.kind \notin Watched
    PROVE  Clears(Reworded(notes, r, new), notes, {"progress"}, r)
<1>1. PICK w : w = Reworded(notes, r, new)
  OBVIOUS
<1>2. w = [k \in DOMAIN notes |-> w[k]] /\ \A k \in DOMAIN notes :
         w[k] = IF notes[k].kind = "progress" /\ notes[k].by = r THEN new ELSE notes[k]
  BY <1>1 DEF Reworded
<1>3. \A k \in DOMAIN notes : notes[k] \in Notes
  OBVIOUS
<1>4. \A k \in DOMAIN notes :
        /\ w[k] \in Notes
        /\ IF (notes[k].kind \in {"progress"} /\ notes[k].by = r) \/ notes[k].kind \notin Watched
           THEN w[k].kind \notin Watched ELSE w[k] = notes[k]
  BY <1>2, <1>3
<1>5. Clears(w, notes, {"progress"}, r)
  BY <1>2, <1>4, MapClears
<1>6. QED
  BY <1>1, <1>5

LEMMA SettledClears ==
    ASSUME NEW r \in ImproveTasks, NEW notes \in Seq(Notes), NEW new \in Notes, new.kind \notin Watched,
           IsNote("progress", r) <=> Has(notes, "progress", r)
    PROVE  Clears(Settled(notes, r, new), notes, {"progress"}, r)
<1>1. CASE IsNote("progress", r)
  BY <1>1, RewordedClears DEF Settled
<1>2. CASE ~IsNote("progress", r)
  <2>1. Settled(notes, r, new) = Append(notes, new)
    BY <1>2 DEF Settled
  <2>2. /\ Append(notes, new) \in Seq(Notes)
        /\ \A kind, q : Has(Append(notes, new), kind, q) <=> Has(notes, kind, q) \/ (new.kind = kind /\ new.by = q)
    BY AppendAdds
  <2>3. \A kind \in Watched, q \in ImproveTasks :
          Has(Append(notes, new), kind, q) <=> Has(notes, kind, q) /\ ~(kind \in {"progress"} /\ q = r)
    BY <1>2, <2>2
  <2>4. QED
    BY <2>1, <2>2, <2>3 DEF Clears
<1>3. QED
  BY <1>1, <1>2

\* A sequence continued by another.
Joins(w, T, a, m, b, n) ==
    /\ w \in Seq(T) /\ Len(w) = m + n /\ DOMAIN w = 1..(m + n)
    /\ \A i \in 1..m : w[i] = a[i]
    /\ \A i \in 1..n : w[m + i] = b[i]

LEMMA JoinedIs ==
    ASSUME NEW T, NEW a \in Seq(T), NEW b \in Seq(T), NEW m \in Nat, m = Len(a), NEW n \in Nat, n = Len(b),
           NEW w, w = a \o b
    PROVE  Joins(w, T, a, m, b, n)
<1>1. /\ w \in Seq(T) /\ Len(w) = m + n
      /\ \A i \in 1..(m + n) : w[i] = IF i <= m THEN a[i] ELSE b[i - m]
  <2>1. /\ a \o b \in Seq(T) /\ Len(a \o b) = Len(a) + Len(b)
        /\ \A i \in 1..Len(a) + Len(b) : (a \o b)[i] = IF i <= Len(a) THEN a[i] ELSE b[i - Len(a)]
    BY ConcatProperties
  <2>2. QED
    BY <2>1
<1>2. \A i \in 1..m : i \in 1..(m + n) /\ i <= m
  OBVIOUS
<1>3. \A i \in 1..n : m + i \in 1..(m + n) /\ ~(m + i <= m) /\ (m + i) - m = i
  OBVIOUS
<1>4. \A i \in 1..n : w[m + i] = b[i]
  BY <1>1, <1>3
<1>5. QED
  BY <1>1, <1>2, <1>4 DEF Joins

LEMMA RemovedIs ==
    ASSUME NEW notes \in Seq(Notes), NEW at \in DOMAIN notes, notes[at].kind \notin Watched, NEW r
    PROVE  Clears(RemoveAt(notes, at), notes, {}, r)
<1>1. PICK c \in Nat : c = Len(notes) /\ DOMAIN notes = 1..c
  OBVIOUS
<1>2. PICK w : w = RemoveAt(notes, at)
  OBVIOUS
<1>3. at \in 1..c /\ at \in Int
  BY <1>1
<1>4. w = [k \in 1..(c - 1) |-> IF k < at THEN notes[k] ELSE notes[k + 1]]
  <2>1. PICK a, b : a = SubSeq(notes, 1, at - 1) /\ b = SubSeq(notes, at + 1, c)
    OBVIOUS
  <2>2. a \in Seq(Notes) /\ Len(a) = at - 1 /\ \A k \in 1..(at - 1) : a[k] = notes[k]
    BY <1>1, <1>3, <2>1
  <2>3. b \in Seq(Notes) /\ Len(b) = c - at /\ \A k \in 1..(c - at) : b[k] = notes[at + k]
    <3>1. at + 1 \in Int /\ c \in Int /\ \A i \in (at + 1)..c : notes[i] \in Notes
      BY <1>1, <1>3
    <3>2. /\ b \in Seq(Notes)
          /\ Len(b) = IF at + 1 <= c THEN c - (at + 1) + 1 ELSE 0
          /\ \A i \in 1..(c - (at + 1) + 1) : b[i] = notes[(at + 1) + i - 1]
      BY <2>1, <3>1, SubSeqProperties
    <3>3. c - (at + 1) + 1 = c - at /\ (~(at + 1 <= c) => c - at = 0)
      BY <1>3
    <3>4. \A k \in 1..(c - at) : (at + 1) + k - 1 = at + k
      BY <1>3
    <3>5. QED
      BY <3>2, <3>3, <3>4
  <2>4. w = a \o b
    BY <1>1, <1>2, <2>1 DEF RemoveAt
  <2>5. PICK m \in Nat, n \in Nat : m = Len(a) /\ n = Len(b)
    BY <2>2, <2>3
  <2>6. /\ w \in Seq(Notes) /\ Len(w) = m + n /\ DOMAIN w = 1..(m + n)
        /\ \A i \in 1..m : w[i] = a[i]
        /\ \A i \in 1..n : w[m + i] = b[i]
    <3>1. a \in Seq(Notes) /\ b \in Seq(Notes)
      BY <2>2, <2>3
    <3>2. Joins(w, Notes, a, m, b, n)
      BY <2>4, <2>5, <3>1, JoinedIs
    <3>3. QED
      BY <3>2 DEF Joins
  <2>7. m = at - 1 /\ n = c - at /\ m + n = c - 1
    BY <1>3, <2>2, <2>3, <2>5
  <2>8. ASSUME NEW k \in 1..(c - 1)
        PROVE  w[k] = IF k < at THEN notes[k] ELSE notes[k + 1]
    <3>1. CASE k < at
      <4>1. k \in 1..(at - 1)
        BY <1>3, <3>1
      <4>2. QED
        BY <2>2, <2>6, <2>7, <3>1, <4>1
    <3>2. CASE ~(k < at)
      <4>1. PICK i \in 1..n : k = m + i
        <5>1. k - m \in 1..n /\ k = m + (k - m)
          <6>1. PICK p \in Int : p = at
            BY <1>3
          <6>2. m = p - 1 /\ n = c - p /\ k >= p
            BY <2>7, <3>2, <6>1
          <6>3. QED
            BY <6>2
        <5>2. QED
          BY <5>1
      <4>2. w[k] = notes[at + i]
        BY <2>3, <2>6, <2>7, <4>1
      <4>3. at + i = k + 1
        <5>1. PICK p \in Int : p = at
          BY <1>3
        <5>2. m = p - 1 /\ k = m + i
          BY <2>7, <4>1, <5>1
        <5>3. p + i = k + 1
          BY <5>2
        <5>4. QED
          BY <5>1, <5>3
      <4>4. QED
        BY <3>2, <4>2, <4>3
    <3>3. QED
      BY <3>1, <3>2
  <2>9. w = [k \in 1..(c - 1) |-> w[k]]
    BY <2>6, <2>7
  <2>10. QED
    BY <2>8, <2>9
<1>5. \A k \in 1..(c - 1) : k \in 1..c /\ k + 1 \in 1..c /\ w[k] = IF k < at THEN notes[k] ELSE notes[k + 1]
  BY <1>1, <1>4
<1>6. w \in Seq(Notes) /\ DOMAIN w = 1..(c - 1)
  <2>1. c - 1 \in Nat
    BY <1>3
  <2>2. \A k \in 1..c : notes[k] \in Notes
    BY <1>1
  <2>3. QED
    BY <1>4, <1>5, <2>1, <2>2
<1>7. \A n \in DOMAIN w : \E k \in DOMAIN notes : w[n] = notes[k]
  BY <1>1, <1>5, <1>6
<1>8. ASSUME NEW k \in DOMAIN notes, k # at
      PROVE  \E n \in DOMAIN w : w[n] = notes[k]
  <2>1. CASE k < at
    <3>1. k \in 1..(c - 1)
      BY <1>1, <1>3, <2>1
    <3>2. QED
      BY <1>5, <1>6, <2>1, <3>1
  <2>2. CASE k > at
    <3>1. k - 1 \in 1..(c - 1) /\ ~(k - 1 < at) /\ (k - 1) + 1 = k
      BY <1>1, <1>3, <2>2
    <3>2. w[k - 1] = notes[(k - 1) + 1]
      BY <1>5, <3>1
    <3>3. QED
      BY <1>6, <3>1, <3>2
  <2>3. k \in Int
    BY <1>1
  <2>4. QED
    BY <1>3, <1>8, <2>1, <2>2, <2>3
<1>9. ASSUME NEW kind \in Watched, NEW q \in ImproveTasks
      PROVE  Has(w, kind, q) <=> Has(notes, kind, q)
  <2>1. ASSUME Has(w, kind, q) PROVE Has(notes, kind, q)
    BY <1>7, <2>1 DEF Has
  <2>2. ASSUME Has(notes, kind, q) PROVE Has(w, kind, q)
    <3>1. PICK k \in DOMAIN notes : notes[k].kind = kind /\ notes[k].by = q
      BY <2>2 DEF Has
    <3>2. k # at
      BY <3>1
    <3>3. QED
      BY <1>8, <3>1, <3>2 DEF Has
  <2>3. QED
    BY <2>1, <2>2
<1>10. QED
  BY <1>2, <1>6, <1>9 DEF Clears

\* Whatever tables the search finds, the progress comment of the run is gone, and its
\* own alone.
LEMMA PersistentClears ==
    ASSUME NEW r \in ImproveTasks, NEW notes, notes = mrComments, mrComments \in Seq(Notes)
    PROVE  Clears(Persistent(notes, r), notes, {"progress"}, r)
<1>1. PICK c \in Nat : c = Len(notes) /\ DOMAIN notes = 1..c /\ notes \in Seq(Notes)
  OBVIOUS
<1> DEFINE first == TableFound(notes) # {}
<1>3. PICK at : at = CHOOSE k \in TableFound(notes) : \A l \in TableFound(notes) : k <= l
  OBVIOUS
<1>4. first => at \in DOMAIN notes /\ notes[at].kind = "table"
  <2>1. ASSUME first
        PROVE  at \in TableFound(notes)
    <3>1. TableFound(notes) \in SUBSET Nat /\ TableFound(notes) # {}
      BY <1>1, <2>1 DEF TableFound
    <3>2. \E k \in TableFound(notes) : \A l \in TableFound(notes) : k <= l
      BY <3>1, LeastElement
    <3>3. QED
      BY <1>3, <3>2
  <2>2. QED
    BY <2>1 DEF TableFound
<1>5. PICK new : new = [Note("table", r) EXCEPT !.hist = IF first THEN Folded(notes[at].hist) ELSE 0]
  OBVIOUS
<1>6. new \in Notes /\ new.kind \notin Watched
  <2>1. PICK h : h = IF first THEN Folded(notes[at].hist) ELSE 0
    OBVIOUS
  <2>2. h \in 0..MaxHistory
    <3>1. CASE first
      <4>1. notes[at] \in Notes
        BY <1>1, <1>4, <3>1
      <4>2. notes[at].hist \in 0..1
        BY <4>1 DEF Notes, MaxHistory
      <4>3. QED
        BY <2>1, <3>1, <4>2 DEF Folded, MaxHistory
    <3>2. CASE ~first
      BY <2>1, <3>2 DEF MaxHistory
    <3>3. QED
      BY <3>1, <3>2
  <2>3. new = [kind |-> "table", by |-> r, hist |-> h]
    BY <1>5, <2>1 DEF Note
  <2>4. QED
    BY <2>2, <2>3 DEF Notes, Kinds, Watched
<1>7. PICK edited : edited = [k \in DOMAIN notes |->
        IF notes[k].kind = "empty" /\ (first => k < at) THEN Note("table", r) ELSE notes[k]]
  OBVIOUS
<1>8. Note("table", r) \in Notes /\ Note("table", r).kind = "table"
  BY NoteIs DEF Kinds
<1>9. Clears(edited, notes, {}, r)
  <2>1. edited = [k \in DOMAIN notes |-> edited[k]]
    BY <1>7
  <2>2. \A k \in DOMAIN notes :
          edited[k] = IF notes[k].kind = "empty" /\ (first => k < at) THEN Note("table", r) ELSE notes[k]
    BY <1>7
  <2>3. \A k \in DOMAIN notes : notes[k] \in Notes
    BY <1>1
  <2>4. ASSUME NEW k \in DOMAIN notes
        PROVE  /\ edited[k] \in Notes
               /\ IF (notes[k].kind \in {} /\ notes[k].by = r) \/ notes[k].kind \notin Watched
                  THEN edited[k].kind \notin Watched ELSE edited[k] = notes[k]
    BY <1>8, <2>2, <2>3 DEF Watched
  <2>5. QED
    BY <1>1, <2>1, <2>4, MapClears
<1>10. edited \in Seq(Notes) /\ (Has(edited, "progress", r) <=> Has(notes, "progress", r))
  BY <1>9 DEF Clears, Watched
<1>11. IsNote("progress", r) <=> Has(notes, "progress", r)
  BY DEF IsNote, Has
<1>12. CASE ~first
  <2>1. Persistent(notes, r) = Settled(edited, r, new)
    BY <1>3, <1>5, <1>7, <1>12 DEF Persistent
  <2>2. Clears(Settled(edited, r, new), edited, {"progress"}, r)
    BY <1>6, <1>10, <1>11, SettledClears
  <2>3. Clears(Persistent(notes, r), notes, {} \cup {"progress"}, r)
    BY <1>9, <2>1, <2>2, ClearsTwice
  <2>4. QED
    BY <2>3 DEF Clears
<1>13. ASSUME first
       PROVE  at \in DOMAIN edited /\ DOMAIN edited = DOMAIN notes /\ edited[at] = notes[at]
  <2>1. at \in DOMAIN notes /\ notes[at].kind # "empty"
    BY <1>4, <1>13
  <2>2. QED
    BY <1>7, <2>1
<1>14. CASE first /\ IsNote("progress", r)
  <2>1. Persistent(notes, r) = Reworded(RemoveAt(edited, at), r, new)
    BY <1>3, <1>5, <1>7, <1>14 DEF Persistent
  <2>2. edited[at].kind \notin Watched
    BY <1>4, <1>13, <1>14 DEF Watched
  <2>3. Clears(RemoveAt(edited, at), edited, {}, r)
    BY <1>10, <1>13, <1>14, <2>2, RemovedIs
  <2>4. RemoveAt(edited, at) \in Seq(Notes)
    BY <2>3 DEF Clears
  <2>5. Clears(Reworded(RemoveAt(edited, at), r, new), RemoveAt(edited, at), {"progress"}, r)
    BY <1>6, <2>4, RewordedClears
  <2>6. Clears(RemoveAt(edited, at), notes, {} \cup {}, r)
    BY <1>9, <2>3, ClearsTwice
  <2>7. Clears(Persistent(notes, r), notes, ({} \cup {}) \cup {"progress"}, r)
    BY <2>1, <2>5, <2>6, ClearsTwice
  <2>8. QED
    BY <2>7 DEF Clears
<1>15. CASE first /\ ~IsNote("progress", r)
  <2>1. PICK w : w = [edited EXCEPT ![at] = new]
    OBVIOUS
  <2>2. Persistent(notes, r) = w
    BY <1>3, <1>5, <1>7, <1>15, <2>1 DEF Persistent
  <2>3. edited[at].kind \notin Watched
    BY <1>4, <1>13, <1>15 DEF Watched
  <2>4. w = [k \in DOMAIN edited |-> w[k]] /\ \A k \in DOMAIN edited : w[k] = IF k = at THEN new ELSE edited[k]
    BY <1>10, <2>1
  <2>5. \A k \in DOMAIN edited : edited[k] \in Notes
    BY <1>10
  <2>6. ASSUME NEW k \in DOMAIN edited
        PROVE  w[k] \in Notes /\ IF k = at THEN w[k].kind \notin Watched ELSE w[k] = edited[k]
    BY <1>6, <2>4, <2>5
  <2>7. \A k \in DOMAIN edited : w[k] \in Notes
    BY <2>6
  <2>8. w \in Seq(Notes)
    <3>1. PICK e \in Nat : DOMAIN edited = 1..e
      BY <1>10
    <3>2. QED
      BY <2>4, <2>7, <3>1
  <2>9. ASSUME NEW kind \in Watched, NEW q \in ImproveTasks
        PROVE  Has(w, kind, q) <=> Has(edited, kind, q)
    <3>1. DOMAIN w = DOMAIN edited
      BY <2>4
    <3>2. \A k \in DOMAIN edited : w[k].kind = kind <=> edited[k].kind = kind
      BY <2>3, <2>6
    <3>3. \A k \in DOMAIN edited : w[k].kind = kind => w[k] = edited[k]
      BY <2>6
    <3>4. QED
      BY <3>1, <3>2, <3>3 DEF Has
  <2>10. Clears(w, edited, {}, r)
    BY <2>8, <2>9 DEF Clears
  <2>11. Clears(w, notes, {} \cup {}, r)
    BY <1>9, <2>10, ClearsTwice
  <2>12. ~Has(notes, "progress", r)
    BY <1>11, <1>15
  <2>13. QED
    BY <2>2, <2>11, <2>12 DEF Clears
<1>16. QED
  BY <1>12, <1>14, <1>15

\* What a step of run r does to the notes above: some of its own go, some come.
Turns(new, old, kinds, adds, r) ==
    /\ new \in Seq(Notes)
    /\ \A kind \in Watched, q \in ImproveTasks :
        Has(new, kind, q) <=> \/ Has(old, kind, q) /\ ~(kind \in kinds /\ q = r)
                              \/ kind \in adds /\ q = r

LEMMA AddsTurn ==
    ASSUME NEW r \in ImproveTasks, NEW a, NEW b, NEW kinds, NEW kind \in Kinds, Clears(b, a, kinds, r)
    PROVE  Turns(Append(b, Note(kind, r)), a, kinds, {kind}, r)
<1>1. PICK n \in Notes : n = Note(kind, r) /\ n.kind = kind /\ n.by = r
  BY NoteIs
<1>2. b \in Seq(Notes)
  BY DEF Clears
<1>3. /\ Append(b, n) \in Seq(Notes)
      /\ \A kd, q : Has(Append(b, n), kd, q) <=> Has(b, kd, q) \/ (n.kind = kd /\ n.by = q)
  BY <1>2, AppendAdds
<1>4. QED
  BY <1>1, <1>3 DEF Clears, Turns

LEMMA ClearsTurn ==
    ASSUME NEW r, NEW a, NEW b, NEW kinds, Clears(b, a, kinds, r)
    PROVE  Turns(b, a, kinds, {}, r)
BY DEF Clears, Turns

LEMMA NothingCleared ==
    ASSUME NEW r, NEW notes \in Seq(Notes)
    PROVE  Clears(notes, notes, {}, r)
BY DEF Clears

\* The exception handler clears the progress note or trades the temporary one for the
\* report of the failure.
LEMMA FailureTurns ==
    ASSUME NEW r \in ImproveTasks, mrComments \in Seq(Notes), NEW removed \in BOOLEAN
    PROVE  /\ ~Cfg(r).publish => Turns(FailureNotes(r, removed), mrComments, {}, {}, r)
           /\ Cfg(r).publish /\ Has(mrComments, "progress", r) =>
                 Turns(FailureNotes(r, removed), mrComments, IF removed THEN {"progress"} ELSE {}, {}, r)
           /\ Cfg(r).publish /\ ~Has(mrComments, "progress", r) =>
                 Turns(FailureNotes(r, removed), mrComments, {"temporary"}, {"failure"}, r)
<1>1. IsNote("progress", r) <=> Has(mrComments, "progress", r)
  BY DEF IsNote, Has
<1>2. Turns(mrComments, mrComments, {}, {}, r)
  BY NothingCleared, ClearsTurn
<1>3. Turns(Without(mrComments, "progress", r), mrComments, {"progress"}, {}, r)
  BY WithoutClears, ClearsTurn
<1>4. Turns(Append(Without(mrComments, "temporary", r), Note("failure", r)), mrComments, {"temporary"}, {"failure"}, r)
  BY WithoutClears, AddsTurn DEF Kinds
<1>5. QED
  BY <1>1, <1>2, <1>3, <1>4 DEF FailureNotes

\* The rows a run writes when its look-up in the store worked: nothing in the store
\* speaks against them. Only a rule in the title that the content does not name
\* keeps the key of the row from being the key that was looked up.
Fresh(new) ==
    \A i \in DOMAIN storeRows :
        LET old == storeRows[i]
        IN  /\ old.state \in Live => old.patch # new.patch
            /\ old.state \in Live /\ ~new.stray => ~(old.cohort = new.cohort /\ old.head = new.head)
            /\ old.state \in {"applied", "dismissed"} => ~(Distance(old.line, new.line) <= 3)
            /\ old.state = "dismissed" /\ old.rules \cap new.rules # {} =>
                  ~(Distance(old.line, new.line) <= RuleLineWindow)

Show(rows, kept, r, blind) ==
    /\ rows \in Seq(Rows) /\ Len(rows) = Len(kept) /\ DOMAIN rows = DOMAIN kept
    /\ \A n \in DOMAIN rows :
         /\ rows[n] \in Rows /\ rows[n].by = r /\ rows[n].blind = blind
         /\ rows[n].patch = kept[n].s.patch /\ rows[n].line = kept[n].s.line
         /\ blind \/ Fresh(rows[n])

LEMMA RowsAre ==
    ASSUME NEW r \in ImproveTasks, improveRuns[r].head \in Nat, NEW data \in Data, NEW blind \in BOOLEAN,
           NEW kept, kept = Kept(data, improveRuns[r].head, blind), NEW rows, rows = RowsOf(kept, r, blind)
    PROVE  Show(rows, kept, r, blind)
<1>1. /\ kept \in Data
      /\ \A n \in DOMAIN kept : blind \/ Raised(kept[n], improveRuns[r].head)
  BY KeptIs
<1>2. /\ Len(kept) \in Nat /\ DOMAIN kept = 1..Len(kept)
      /\ \A n \in DOMAIN kept : kept[n] \in Candidates /\ kept[n].s \in Suggestions
  BY <1>1, DataIs
<1>3. rows = [n \in DOMAIN kept |-> RowOf(kept[n], r, blind)]
  BY DEF RowsOf
<1>4. ASSUME NEW n \in DOMAIN kept
      PROVE  /\ rows[n] \in Rows /\ rows[n].by = r /\ rows[n].blind = blind
             /\ rows[n].patch = kept[n].s.patch /\ rows[n].line = kept[n].s.line
             /\ blind \/ Fresh(rows[n])
  <2>1. PICK s \in Suggestions : s = kept[n].s
    BY <1>2
  <2>2. s.line \in Int
    BY ImproveBounds
  <2>3. PICK stray \in BOOLEAN : stray = (s.titleRules \ s.rules # {})
    OBVIOUS
  <2>4. PICK row : row = rows[n]
    OBVIOUS
  <2>5. row = [by |-> r, line |-> s.line, rules |-> NamedRules(s), cohort |-> <<s.line, NamedRules(s)>>,
               patch |-> s.patch, head |-> improveRuns[r].head, cut |-> s.cut, state |-> "open",
               stray |-> stray, blind |-> blind]
    BY <1>3, <2>1, <2>3, <2>4 DEF RowOf
  <2>6. row \in Rows
    BY <2>2, <2>5 DEF Rows, RuleSets, Patches, Cuts, Live
  <2>7. ASSUME ~blind
        PROVE  Fresh(row)
    <3>1. Raised(kept[n], improveRuns[r].head)
      BY <1>1, <2>7
    <3>2. ~SamePatch(kept[n]) /\ ~SameCohort(kept[n], improveRuns[r].head) /\ ~ResolvedNear(kept[n])
      BY <3>1 DEF Raised
    <3>3. ASSUME NEW i \in DOMAIN storeRows
          PROVE  LET old == storeRows[i]
                 IN  /\ old.state \in Live => old.patch # row.patch
                     /\ old.state \in Live /\ ~row.stray => ~(old.cohort = row.cohort /\ old.head = row.head)
                     /\ old.state \in {"applied", "dismissed"} => ~(Distance(old.line, row.line) <= 3)
                     /\ old.state = "dismissed" /\ old.rules \cap row.rules # {} =>
                           ~(Distance(old.line, row.line) <= RuleLineWindow)
      <4>1. PICK old : old = storeRows[i]
        OBVIOUS
      <4>2. old.state \in Live => old.patch # s.patch
        BY <2>1, <3>2, <3>3, <4>1 DEF SamePatch
      <4>3. old.state \in Live => ~(old.cohort = <<s.line, s.rules>> /\ old.head = improveRuns[r].head)
        BY <2>1, <3>2, <3>3, <4>1 DEF SameCohort, Cohort
      <4>4. ~stray => NamedRules(s) = s.rules
        BY <2>3 DEF NamedRules
      <4>5. old.state \in {"applied", "dismissed"} => ~(Distance(old.line, s.line) <= 3)
        BY <2>1, <3>2, <3>3, <4>1 DEF ResolvedNear
      <4>6. old.state = "dismissed" /\ old.rules \cap NamedRules(s) # {} =>
                ~(Distance(old.line, s.line) <= RuleLineWindow)
        BY <2>1, <3>2, <3>3, <4>1 DEF ResolvedNear
      <4>7. /\ row.patch = s.patch /\ row.line = s.line /\ row.rules = NamedRules(s) /\ row.stray = stray
            /\ row.cohort = <<s.line, NamedRules(s)>> /\ row.head = improveRuns[r].head
        BY <2>5
      <4>8. QED
        BY <4>1, <4>2, <4>3, <4>4, <4>5, <4>6, <4>7
    <3>4. QED
      BY <3>3 DEF Fresh
  <2>8. row.by = r /\ row.blind = blind /\ row.patch = s.patch /\ row.line = s.line
    BY <2>5
  <2>9. QED
    BY <2>1, <2>4, <2>6, <2>7, <2>8
<1>5. rows \in Seq(Rows) /\ Len(rows) = Len(kept) /\ DOMAIN rows = DOMAIN kept
  BY <1>2, <1>3, <1>4
<1>6. QED
  BY <1>4, <1>5 DEF Show

-----------------------------------------------------------------------------
(* Type correctness. *)

\* One step of run r, which becomes the record run.
Becomes(r, run) ==
    /\ run \in Runs
    /\ improveRuns' = [improveRuns EXCEPT ![r] = run]
    /\ mrHead' = mrHead
    /\ run.head <= mrHead
    /\ run.pc \in {"asking", "reflecting", "deciding"} => run.status = "started"
    /\ run.pc \in {"idle", "asking"} => run.data = <<>>

LEMMA RunIs ==
    ASSUME Types, NEW r \in ImproveTasks
    PROVE  /\ improveRuns[r] \in Runs /\ Cfg(r) = improveRuns[r].cfg
           /\ improveRuns[r].data \in Data /\ improveRuns[r].head \in Nat
           /\ improveRuns[r].head <= mrHead /\ mrHead \in Nat
           /\ improveRuns[r].pc \in {"asking", "reflecting", "deciding"} => improveRuns[r].status = "started"
           /\ improveRuns[r].pc \in {"idle", "asking"} => improveRuns[r].data = <<>>
BY DEF Types, Runs, Cfg

LEMMA ClosedIs ==
    ASSUME Types, NEW r \in ImproveTasks, NEW status \in {"success", "empty", "failed"}, NEW faulty \in BOOLEAN,
           Closed(r, status, faulty), mrHead' = mrHead
    PROVE  \E run : /\ Becomes(r, run) /\ run.pc = "closed" /\ run.cfg = Cfg(r) /\ run.status = status
                    /\ run.faulty = faulty /\ (run.found <=> improveRuns[r].data # <<>>)
<1>1. PICK c : c = Cfg(r) /\ c \in ImproveConfigs \cup {CHOOSE e \in ImproveConfigs : TRUE}
  <2>1. improveRuns[r].cfg \in ImproveConfigs \cup {CHOOSE e \in ImproveConfigs : TRUE}
    BY RunIs DEF Runs
  <2>2. QED
    BY <2>1, RunIs
<1>2. PICK found \in BOOLEAN : found = (improveRuns[r].data # <<>>)
  OBVIOUS
<1>3. PICK run : run = [Idle EXCEPT !.pc = "closed", !.cfg = c, !.status = status, !.faulty = faulty, !.found = found]
  OBVIOUS
<1>4. improveRuns' = [improveRuns EXCEPT ![r] = run]
  BY <1>1, <1>2, <1>3 DEF Closed
<1>5. Idle \in Runs /\ Idle.head = 0 /\ Idle.data = <<>>
  BY IdleIs
<1>6. /\ run \in Runs /\ run.pc = "closed" /\ run.cfg = c /\ run.status = status /\ run.faulty = faulty
      /\ run.found = found /\ run.head = 0
  BY <1>1, <1>3, <1>5 DEF Runs
<1>7. 0 <= mrHead
  BY DEF Types
<1>8. Becomes(r, run)
  BY <1>4, <1>6, <1>7 DEF Becomes
<1>9. QED
  BY <1>1, <1>2, <1>6, <1>8

LEMMA TypesAfter ==
    ASSUME Types, NEW r \in ImproveTasks, NEW run, Becomes(r, run),
           storeRows' \in Seq(Rows), mrComments' \in Seq(Notes)
    PROVE  Types'
<1>1. /\ improveRuns \in [ImproveTasks -> Runs] /\ mrHead \in Nat
      /\ \A q \in ImproveTasks :
        /\ improveRuns[q].head <= mrHead
        /\ improveRuns[q].pc \in {"asking", "reflecting", "deciding"} => improveRuns[q].status = "started"
        /\ improveRuns[q].pc \in {"idle", "asking"} => improveRuns[q].data = <<>>
  BY DEF Types
<1>2. improveRuns' \in [ImproveTasks -> Runs] /\ mrHead' = mrHead
  BY <1>1 DEF Becomes
<1>3. \A q \in ImproveTasks : improveRuns'[q] = IF q = r THEN run ELSE improveRuns[q]
  BY <1>1 DEF Becomes
<1>4. \A q \in ImproveTasks :
        /\ improveRuns'[q].head <= mrHead'
        /\ improveRuns'[q].pc \in {"asking", "reflecting", "deciding"} => improveRuns'[q].status = "started"
        /\ improveRuns'[q].pc \in {"idle", "asking"} => improveRuns'[q].data = <<>>
  BY <1>1, <1>2, <1>3 DEF Becomes
<1>5. QED
  BY <1>1, <1>2, <1>4 DEF Types

\* What a step of a run does to the store.
LEMMA PostsAre ==
    ASSUME Types, NEW r \in ImproveTasks, ImproveStep(r)
    PROVE  \/ storeRows' = storeRows
           \/ \E data \in Data, blind \in BOOLEAN :
                storeRows' = storeRows \o RowsOf(Kept(data, improveRuns[r].head, blind), r, blind)
<1>1. improveRuns[r].data \in Data
  BY RunIs
<1>2. CASE PushInline(r)
  BY <1>1, <1>2 DEF PushInline
<1>3. CASE PushInlineThenFail(r)
  BY <1>1, <1>3 DEF PushInlineThenFail
<1>4. CASE PublishTable(r)
  <2>1. ForDual(improveRuns[r].data, Cfg(r).dual) \in Data
    BY <1>1, FilteredIs
  <2>2. QED
    BY <1>4, <2>1 DEF PublishTable
<1>5. CASE StartRun(r) \/ NoFiles(r) \/ ModelAnswers(r) \/ Reflect(r) \/ ModelFails(r) \/ LastModelFails(r)
  BY <1>5 DEF StartRun, NoFiles, ModelAnswers, Reflect, ModelFails, LastModelFails, UnchangedStore
<1>6. CASE PublishFails(r) \/ NoSuggestions(r) \/ KeepArtifact(r)
  BY <1>6 DEF PublishFails, NoSuggestions, KeepArtifact, UnchangedStore
<1>7. QED
  BY <1>2, <1>3, <1>4, <1>5, <1>6 DEF ImproveStep

\* The store after a step of a run: the rows it held, and new ones of the run.
Posted(r, rows, blind) ==
    /\ rows \in Seq(Rows)
    /\ Joins(storeRows', Rows, storeRows, Len(storeRows), rows, Len(rows))
    /\ \A n \in 1..Len(rows) : rows[n].by = r /\ rows[n].blind = blind /\ (blind \/ Fresh(rows[n]))

LEMMA RowsArePosted ==
    ASSUME Types, NEW r \in ImproveTasks, NEW data \in Data, NEW blind \in BOOLEAN, NEW rows,
           rows = RowsOf(Kept(data, improveRuns[r].head, blind), r, blind), storeRows' = storeRows \o rows
    PROVE  Posted(r, rows, blind)
<1>1. PICK kept : kept = Kept(data, improveRuns[r].head, blind)
  OBVIOUS
<1>2. improveRuns[r].head \in Nat
  BY RunIs
<1>3. /\ rows \in Seq(Rows)
      /\ \A n \in DOMAIN rows : rows[n].by = r /\ rows[n].blind = blind /\ (blind \/ Fresh(rows[n]))
  <2>1. rows = RowsOf(kept, r, blind)
    BY <1>1
  <2>2. Show(rows, kept, r, blind)
    BY <1>1, <1>2, <2>1, RowsAre
  <2>3. QED
    BY <2>2 DEF Show
<1>4. storeRows \in Seq(Rows)
  BY DEF Types
<1>5. PICK m \in Nat, n \in Nat : m = Len(storeRows) /\ n = Len(rows) /\ DOMAIN rows = 1..n
  BY <1>3, <1>4
<1>6. PICK w : w = storeRows'
  OBVIOUS
<1>7. w = storeRows \o rows
  BY <1>6
<1>8. Joins(w, Rows, storeRows, m, rows, n)
  BY <1>3, <1>4, <1>5, <1>7, JoinedIs
<1>9. QED
  BY <1>3, <1>5, <1>6, <1>8 DEF Posted

LEMMA StoreStep ==
    ASSUME Types, NEW r \in ImproveTasks, ImproveStep(r)
    PROVE  storeRows' = storeRows \/ \E blind \in BOOLEAN : \E rows : Posted(r, rows, blind)
<1>1. CASE storeRows' = storeRows
  BY <1>1
<1>2. ASSUME NEW data \in Data, NEW blind \in BOOLEAN,
             storeRows' = storeRows \o RowsOf(Kept(data, improveRuns[r].head, blind), r, blind)
      PROVE  \E rows : Posted(r, rows, blind)
  BY <1>2, RowsArePosted
<1>3. QED
  BY <1>1, <1>2, PostsAre

-----------------------------------------------------------------------------
(* How runs end. *)

\* A run announces itself only as its settings say, and when it has ended its notes
\* and rows say why.
Ended(r, run, notes, rows) ==
    /\ Has(notes, "progress", r) => run.pc # "idle" /\ run.cfg.publish /\ ~run.cfg.auto /\ run.cfg.gfm
    /\ Has(notes, "temporary", r) => run.pc # "idle" /\ run.cfg.publish /\ ~run.cfg.gfm
    /\ (/\ run.pc = "closed" /\ run.found
        /\ run.cfg.publish /\ (run.cfg.committable \/ ~run.cfg.gfm) /\ ~run.faulty) =>
          \/ \E i \in DOMAIN rows : rows[i].by = r
          \/ Has(notes, "notice", r) \/ Has(notes, "failure", r)
    /\ run.pc = "closed" /\ ~run.faulty =>
          /\ Has(notes, "progress", r) => ~run.found /\ ~run.cfg.tellEmpty
          /\ Has(notes, "temporary", r) => ~run.found /\ run.status = "empty"

EndsInv == \A r \in ImproveTasks : Ended(r, improveRuns[r], mrComments, storeRows)

\* What the step of a run has to show.
Explained(r) ==
    \E run, kinds, adds : /\ Becomes(r, run) /\ Turns(mrComments', mrComments, kinds, adds, r)
                          /\ Ended(r, run, mrComments', storeRows')

LEMMA Unannounced ==
    ASSUME Types, EndsInv, NEW r \in ImproveTasks
    PROVE  /\ mrComments \in Seq(Notes) /\ Turns(mrComments, mrComments, {}, {}, r)
           /\ Has(mrComments, "progress", r) =>
                improveRuns[r].pc # "idle" /\ Cfg(r).publish /\ ~Cfg(r).auto /\ Cfg(r).gfm
           /\ Has(mrComments, "temporary", r) => improveRuns[r].pc # "idle" /\ Cfg(r).publish /\ ~Cfg(r).gfm
<1>1. mrComments \in Seq(Notes)
  BY DEF Types
<1>2. Turns(mrComments, mrComments, {}, {}, r)
  BY <1>1, NothingCleared, ClearsTurn
<1>3. QED
  BY <1>1, <1>2 DEF EndsInv, Ended, Cfg

LEMMA StartExplained ==
    ASSUME Types, EndsInv, NEW r \in ImproveTasks, StartRun(r)
    PROVE  Explained(r)
<1>1. PICK cfg \in ImproveConfigs :
        /\ improveRuns' = [improveRuns EXCEPT ![r] =
               [Idle EXCEPT !.pc = "asking", !.cfg = cfg, !.head = mrHead, !.attempt = 1, !.status = "started"]]
        /\ mrComments' = IF ~cfg.publish \/ cfg.auto THEN mrComments
                         ELSE Append(mrComments, Note(IF cfg.gfm THEN "progress" ELSE "temporary", r))
  BY DEF StartRun
<1>2. improveRuns[r].pc = "idle" /\ mrHead' = mrHead
  BY DEF StartRun, UnchangedStore
<1>3. /\ mrComments \in Seq(Notes) /\ Turns(mrComments, mrComments, {}, {}, r)
      /\ ~Has(mrComments, "progress", r) /\ ~Has(mrComments, "temporary", r)
  BY <1>2, Unannounced
<1>4. PICK run : run = [Idle EXCEPT !.pc = "asking", !.cfg = cfg, !.head = mrHead, !.attempt = 1, !.status = "started"]
  OBVIOUS
<1>5. /\ run \in Runs /\ run.pc = "asking" /\ run.cfg = cfg /\ run.head = mrHead /\ run.status = "started"
      /\ run.data = <<>>
  <2>1. mrHead \in Nat /\ 1 \in 0..MaxModels
    BY ImproveBounds DEF Types
  <2>2. Idle \in Runs /\ Idle.data = <<>>
    BY IdleIs
  <2>3. cfg \in ImproveConfigs \cup {CHOOSE c \in ImproveConfigs : TRUE}
    OBVIOUS
  <2>4. QED
    BY <1>4, <2>1, <2>2, <2>3 DEF Runs
<1>6. Becomes(r, run)
  <2>1. mrHead <= mrHead
    BY DEF Types
  <2>2. QED
    BY <1>1, <1>2, <1>4, <1>5, <2>1 DEF Becomes
<1>7. CASE ~cfg.publish \/ cfg.auto
  <2>1. mrComments' = mrComments
    BY <1>1, <1>7
  <2>2. Turns(mrComments', mrComments, {}, {}, r)
    BY <1>3, <2>1
  <2>3. Ended(r, run, mrComments', storeRows')
    BY <1>3, <1>5, <2>1 DEF Ended
  <2>4. QED
    BY <1>6, <2>2, <2>3 DEF Explained
<1>8. CASE cfg.publish /\ ~cfg.auto
  <2>1. PICK kind \in {"progress", "temporary"} : kind = IF cfg.gfm THEN "progress" ELSE "temporary"
    OBVIOUS
  <2>2. mrComments' = Append(mrComments, Note(kind, r))
    BY <1>1, <1>8, <2>1
  <2>3. Clears(mrComments, mrComments, {}, r)
    BY <1>3, NothingCleared
  <2>4. Turns(mrComments', mrComments, {}, {kind}, r)
    BY <2>2, <2>3, AddsTurn DEF Kinds
  <2>5. /\ Has(mrComments', "progress", r) => kind = "progress"
        /\ Has(mrComments', "temporary", r) => kind = "temporary"
    BY <1>3, <2>4 DEF Turns, Watched
  <2>6. Ended(r, run, mrComments', storeRows')
    BY <1>5, <1>8, <2>1, <2>5 DEF Ended
  <2>7. QED
    BY <1>6, <2>4, <2>6 DEF Explained
<1>9. QED
  BY <1>7, <1>8

\* Steps that end the run and leave the notes alone.
LEMMA QuietEnds ==
    ASSUME Types, EndsInv, NEW r \in ImproveTasks, NoFiles(r) \/ KeepArtifact(r)
    PROVE  Explained(r)
<1>1. CloseRun(r, "empty") /\ mrHead' = mrHead /\ mrComments' = mrComments
  BY DEF NoFiles, KeepArtifact, UnchangedStore
<1>2. PICK run : /\ Becomes(r, run) /\ run.pc = "closed" /\ run.cfg = Cfg(r) /\ run.status = "empty"
                 /\ run.faulty = FALSE /\ (run.found <=> improveRuns[r].data # <<>>)
  BY <1>1, ClosedIs DEF CloseRun
<1>3. /\ Turns(mrComments', mrComments, {}, {}, r)
      /\ ~Has(mrComments', "progress", r) /\ ~Has(mrComments', "temporary", r)
  <2>1. improveRuns[r].pc = "idle" \/ ~Cfg(r).publish
    BY DEF NoFiles, KeepArtifact
  <2>2. QED
    BY <1>1, <2>1, Unannounced
<1>4. ~run.found \/ ~run.cfg.publish
  <2>1. CASE NoFiles(r)
    BY <1>2, <2>1, RunIs DEF NoFiles
  <2>2. CASE KeepArtifact(r)
    BY <1>2, <2>2 DEF KeepArtifact
  <2>3. QED
    BY <2>1, <2>2
<1>5. Ended(r, run, mrComments', storeRows')
  BY <1>3, <1>4 DEF Ended
<1>6. QED
  BY <1>2, <1>3, <1>5 DEF Explained

\* Steps of a run that goes on.
LEMMA GoingOn ==
    ASSUME Types, EndsInv, NEW r \in ImproveTasks, ModelAnswers(r) \/ Reflect(r) \/ ModelFails(r)
    PROVE  Explained(r)
<1>1. /\ mrHead' = mrHead /\ mrComments' = mrComments
      /\ improveRuns[r].pc \in {"asking", "reflecting", "deciding"} /\ improveRuns[r].status = "started"
  <2>1. mrHead' = mrHead /\ mrComments' = mrComments /\ improveRuns[r].pc \in {"asking", "reflecting", "deciding"}
    BY DEF ModelAnswers, Reflect, ModelFails, UnchangedStore
  <2>2. QED
    BY <2>1, RunIs
<1>2. PICK old : /\ old = improveRuns[r] /\ old \in Runs /\ old.data \in Data /\ old.head <= mrHead
                 /\ (old.pc = "asking" => old.data = <<>>) /\ old.status = "started"
  BY <1>1, RunIs
<1>3. PICK run : /\ Becomes(r, run) /\ run.pc \in {"asking", "reflecting", "deciding"} /\ run.cfg = old.cfg
  <2>1. CASE ModelAnswers(r)
    <3>1. PICK reply \in Replies : improveRuns' =
            [improveRuns EXCEPT ![r].pc = "reflecting", ![r].attempt = 0, ![r].data = Parsed(reply)]
      BY <2>1 DEF ModelAnswers
    <3>2. PICK data \in Data : data = Parsed(reply)
      BY ParsedIs
    <3>3. PICK run : run = [old EXCEPT !.pc = "reflecting", !.attempt = 0, !.data = data]
      OBVIOUS
    <3>4. improveRuns' = [improveRuns EXCEPT ![r] = run]
      BY <1>2, <3>1, <3>2, <3>3
    <3>5. 0 \in 0..MaxModels
      BY ImproveBounds
    <3>6. /\ run \in Runs /\ run.pc = "reflecting" /\ run.cfg = old.cfg /\ run.head = old.head
          /\ run.status = "started"
      BY <1>2, <3>3, <3>5 DEF Runs
    <3>7. QED
      BY <1>1, <1>2, <3>4, <3>6 DEF Becomes
  <2>2. CASE Reflect(r)
    <3>1. PICK data \in Data : improveRuns' = [improveRuns EXCEPT ![r].pc = "deciding", ![r].data = data]
      <4>1. \A scored \in Data : Collected(scored) \in Data
        BY FilteredIs
      <4>2. /\ Unreflected(old.data) \in Data
            /\ \A scores \in [DOMAIN old.data -> Scores] : Reflected(old.data, scores) \in Data
        BY <1>2, ScoredIs
      <4>3. PICK scored \in Data :
              improveRuns' = [improveRuns EXCEPT ![r].pc = "deciding", ![r].data = Collected(scored)]
        BY <1>2, <2>2, <4>2 DEF Reflect
      <4>4. QED
        BY <4>1, <4>3
    <3>2. PICK run : run = [old EXCEPT !.pc = "deciding", !.data = data]
      OBVIOUS
    <3>3. improveRuns' = [improveRuns EXCEPT ![r] = run]
      BY <1>2, <3>1, <3>2
    <3>4. /\ run \in Runs /\ run.pc = "deciding" /\ run.cfg = old.cfg /\ run.head = old.head
          /\ run.status = "started"
      BY <1>2, <3>2 DEF Runs
    <3>5. QED
      BY <1>1, <1>2, <3>3, <3>4 DEF Becomes
  <2>3. CASE ModelFails(r)
    <3>1. /\ old.pc = "asking" /\ old.attempt < MaxModels
          /\ improveRuns' = [improveRuns EXCEPT ![r].attempt = @ + 1]
      BY <1>2, <2>3 DEF ModelFails
    <3>2. PICK next : next = old.attempt + 1
      OBVIOUS
    <3>3. next \in 0..MaxModels
      <4>1. old.attempt \in 0..MaxModels /\ MaxModels \in Nat
        BY <1>2, ImproveBounds DEF Runs
      <4>2. QED
        BY <3>1, <3>2, <4>1
    <3>4. PICK run : run = [old EXCEPT !.attempt = next]
      OBVIOUS
    <3>5. improveRuns' = [improveRuns EXCEPT ![r] = run]
      BY <1>2, <3>1, <3>2, <3>4
    <3>6. /\ run \in Runs /\ run.pc = "asking" /\ run.cfg = old.cfg /\ run.head = old.head
          /\ run.status = "started" /\ run.data = <<>>
      BY <1>2, <3>1, <3>3, <3>4 DEF Runs
    <3>7. QED
      BY <1>1, <1>2, <3>5, <3>6 DEF Becomes
  <2>4. QED
    BY <2>1, <2>2, <2>3
<1>4. /\ Turns(mrComments', mrComments, {}, {}, r)
      /\ Has(mrComments', "progress", r) => Cfg(r).publish /\ ~Cfg(r).auto /\ Cfg(r).gfm
      /\ Has(mrComments', "temporary", r) => Cfg(r).publish /\ ~Cfg(r).gfm
  BY <1>1, Unannounced
<1>5. run.cfg = Cfg(r) /\ run.pc # "idle" /\ run.pc # "closed"
  BY <1>2, <1>3, RunIs
<1>6. Ended(r, run, mrComments', storeRows')
  BY <1>4, <1>5 DEF Ended
<1>7. QED
  BY <1>3, <1>4, <1>6 DEF Explained

\* Steps that end the run with the exception handler: when its calls work, neither
\* announcement outlives the run.
LEMMA FailureEnds ==
    ASSUME Types, EndsInv, NEW r \in ImproveTasks,
           LastModelFails(r) \/ PublishFails(r) \/ PushInlineThenFail(r)
    PROVE  Explained(r)
<1>1. /\ mrHead' = mrHead /\ improveRuns[r].pc \in {"asking", "reflecting", "deciding"}
      /\ \E faulty \in BOOLEAN : \E removed \in BOOLEAN :
            /\ Closed(r, "failed", faulty) /\ mrComments' = FailureNotes(r, removed)
            /\ faulty \/ (removed /\ improveRuns[r].pc = "asking")
  BY DEF LastModelFails, PublishFails, PushInlineThenFail, CloseRun, FailRun, UnchangedStore, Inline
<1>2. PICK faulty \in BOOLEAN : \E removed \in BOOLEAN :
            /\ Closed(r, "failed", faulty) /\ mrComments' = FailureNotes(r, removed)
            /\ faulty \/ (removed /\ improveRuns[r].pc = "asking")
  BY <1>1
<1>3. PICK removed \in BOOLEAN :
            /\ Closed(r, "failed", faulty) /\ mrComments' = FailureNotes(r, removed)
            /\ faulty \/ (removed /\ improveRuns[r].pc = "asking")
  BY <1>2
<1>4. PICK run : /\ Becomes(r, run) /\ run.pc = "closed" /\ run.cfg = Cfg(r)
                 /\ run.faulty = faulty /\ (run.found <=> improveRuns[r].data # <<>>)
  BY <1>1, <1>3, ClosedIs
<1>5. /\ mrComments \in Seq(Notes)
      /\ Has(mrComments, "progress", r) => Cfg(r).publish /\ ~Cfg(r).auto /\ Cfg(r).gfm
      /\ Has(mrComments, "temporary", r) => Cfg(r).publish /\ ~Cfg(r).gfm
  BY Unannounced
<1>6. /\ ~Cfg(r).publish => Turns(mrComments', mrComments, {}, {}, r)
      /\ Cfg(r).publish /\ Has(mrComments, "progress", r) =>
            Turns(mrComments', mrComments, IF removed THEN {"progress"} ELSE {}, {}, r)
      /\ Cfg(r).publish /\ ~Has(mrComments, "progress", r) =>
            Turns(mrComments', mrComments, {"temporary"}, {"failure"}, r)
  BY <1>3, <1>5, FailureTurns
<1>7. /\ \E kinds, adds : Turns(mrComments', mrComments, kinds, adds, r)
      /\ Has(mrComments', "progress", r) => Has(mrComments, "progress", r) /\ ~removed
      /\ Has(mrComments', "temporary", r) => Has(mrComments, "temporary", r) /\ Has(mrComments, "progress", r)
  <2>1. CASE ~Cfg(r).publish
    <3>1. Turns(mrComments', mrComments, {}, {}, r)
      BY <1>6, <2>1
    <3>2. ~Has(mrComments', "progress", r) /\ ~Has(mrComments', "temporary", r)
      BY <1>5, <2>1, <3>1 DEF Turns, Watched
    <3>3. QED
      BY <3>1, <3>2
  <2>2. CASE Cfg(r).publish /\ Has(mrComments, "progress", r)
    <3>1. PICK kinds : /\ kinds = (IF removed THEN {"progress"} ELSE {})
                       /\ Turns(mrComments', mrComments, kinds, {}, r)
      BY <1>6, <2>2
    <3>2. /\ Has(mrComments', "progress", r) => ~removed
          /\ Has(mrComments', "temporary", r) => Has(mrComments, "temporary", r)
      BY <3>1 DEF Turns, Watched
    <3>3. QED
      BY <2>2, <3>1, <3>2
  <2>3. CASE Cfg(r).publish /\ ~Has(mrComments, "progress", r)
    <3>1. Turns(mrComments', mrComments, {"temporary"}, {"failure"}, r)
      BY <1>6, <2>3
    <3>2. ~Has(mrComments', "progress", r) /\ ~Has(mrComments', "temporary", r)
      BY <2>3, <3>1 DEF Turns, Watched
    <3>3. QED
      BY <3>1, <3>2
  <2>4. QED
    BY <2>1, <2>2, <2>3
<1>8. ~Has(mrComments', "temporary", r) /\ (Has(mrComments', "progress", r) => ~removed)
  BY <1>5, <1>7
<1>9. ~faulty => removed /\ ~run.found
  BY <1>3, <1>4, RunIs
<1>10. Ended(r, run, mrComments', storeRows')
  BY <1>4, <1>5, <1>7, <1>8, <1>9 DEF Ended
<1>11. QED
  BY <1>4, <1>7, <1>10 DEF Explained

LEMMA EmptyEnds ==
    ASSUME Types, EndsInv, NEW r \in ImproveTasks, NoSuggestions(r)
    PROVE  Explained(r)
<1>1. /\ CloseRun(r, "empty") /\ mrHead' = mrHead /\ improveRuns[r].data = <<>>
      /\ mrComments' = IF Cfg(r).publish /\ Cfg(r).tellEmpty
                       THEN Settled(mrComments, r, Note("empty", r)) ELSE mrComments
  BY DEF NoSuggestions, UnchangedStore
<1>2. PICK run : /\ Becomes(r, run) /\ run.pc = "closed" /\ run.cfg = Cfg(r) /\ run.status = "empty"
                 /\ run.faulty = FALSE /\ (run.found <=> improveRuns[r].data # <<>>)
  BY <1>1, ClosedIs DEF CloseRun
<1>3. /\ mrComments \in Seq(Notes) /\ Turns(mrComments, mrComments, {}, {}, r)
      /\ Has(mrComments, "progress", r) => Cfg(r).publish /\ ~Cfg(r).auto /\ Cfg(r).gfm
      /\ Has(mrComments, "temporary", r) => Cfg(r).publish /\ ~Cfg(r).gfm
  BY Unannounced
<1>4. CASE Cfg(r).publish /\ Cfg(r).tellEmpty
  <2>1. Note("empty", r) \in Notes /\ Note("empty", r).kind \notin Watched
    BY NoteIs DEF Kinds, Watched
  <2>2. IsNote("progress", r) <=> Has(mrComments, "progress", r)
    BY DEF IsNote, Has
  <2>3. Clears(mrComments', mrComments, {"progress"}, r)
    BY <1>1, <1>3, <1>4, <2>1, <2>2, SettledClears
  <2>4. Turns(mrComments', mrComments, {"progress"}, {}, r)
    BY <2>3, ClearsTurn
  <2>5. /\ ~Has(mrComments', "progress", r)
        /\ Has(mrComments', "temporary", r) => Has(mrComments, "temporary", r)
    BY <2>4 DEF Turns, Watched
  <2>6. Ended(r, run, mrComments', storeRows')
    BY <1>1, <1>2, <1>3, <2>5 DEF Ended
  <2>7. QED
    BY <1>2, <2>4, <2>6 DEF Explained
<1>5. CASE ~(Cfg(r).publish /\ Cfg(r).tellEmpty)
  <2>1. mrComments' = mrComments
    BY <1>1, <1>5
  <2>2. Turns(mrComments', mrComments, {}, {}, r)
    BY <1>3, <2>1
  <2>3. Ended(r, run, mrComments', storeRows')
    BY <1>1, <1>2, <1>3, <1>5, <2>1 DEF Ended
  <2>4. QED
    BY <1>2, <2>2, <2>3 DEF Explained
<1>6. QED
  BY <1>4, <1>5

\* The inline path: a row of the run, or a notice.
LEMMA InlineEnds ==
    ASSUME Types, EndsInv, NEW r \in ImproveTasks, PushInline(r)
    PROVE  Explained(r)
<1>1. PICK data, head : data = improveRuns[r].data /\ head = improveRuns[r].head
  OBVIOUS
<1>2. PICK cleared : cleared = Without(Without(mrComments, "temporary", r), "progress", r)
  OBVIOUS
<1>3. PICK blind \in BOOLEAN :
        /\ storeRows' = storeRows \o RowsOf(Kept(data, head, blind), r, blind)
        /\ mrComments' = IF AllSuppressed(data, head, blind) THEN Append(cleared, Note("notice", r)) ELSE cleared
  BY <1>1, <1>2 DEF PushInline
<1>4. CloseRun(r, "success") /\ mrHead' = mrHead /\ data # <<>>
  BY <1>1 DEF PushInline, Inline
<1>5. PICK run : /\ Becomes(r, run) /\ run.pc = "closed" /\ run.cfg = Cfg(r) /\ run.status = "success"
                 /\ run.faulty = FALSE /\ (run.found <=> improveRuns[r].data # <<>>)
  BY <1>4, ClosedIs DEF CloseRun
<1>6. Clears(cleared, mrComments, {"temporary"} \cup {"progress"}, r)
  <2>1. PICK a : a = Without(mrComments, "temporary", r)
    OBVIOUS
  <2>2. mrComments \in Seq(Notes)
    BY Unannounced
  <2>3. Clears(a, mrComments, {"temporary"}, r)
    BY <2>1, <2>2, WithoutClears
  <2>4. a \in Seq(Notes)
    BY <2>3 DEF Clears
  <2>5. Clears(cleared, a, {"progress"}, r)
    BY <1>2, <2>1, <2>4, WithoutClears
  <2>6. QED
    BY <2>3, <2>5, ClearsTwice
<1>7. CASE AllSuppressed(data, head, blind)
  <2>1. mrComments' = Append(cleared, Note("notice", r))
    BY <1>3, <1>7
  <2>2. Turns(mrComments', mrComments, {"temporary"} \cup {"progress"}, {"notice"}, r)
    BY <1>6, <2>1, AddsTurn DEF Kinds
  <2>3. /\ ~Has(mrComments', "progress", r) /\ ~Has(mrComments', "temporary", r)
        /\ Has(mrComments', "notice", r)
    BY <2>2 DEF Turns, Watched
  <2>4. Ended(r, run, mrComments', storeRows')
    BY <2>3 DEF Ended
  <2>5. QED
    BY <1>5, <2>2, <2>4 DEF Explained
<1>8. CASE ~AllSuppressed(data, head, blind)
  <2>1. Turns(mrComments', mrComments, {"temporary"} \cup {"progress"}, {}, r)
    BY <1>3, <1>6, <1>8, ClearsTurn
  <2>2. ~Has(mrComments', "progress", r) /\ ~Has(mrComments', "temporary", r)
    BY <2>1 DEF Turns, Watched
  <2>3. PICK kept : kept = Kept(data, head, blind)
    OBVIOUS
  <2>4. kept # <<>>
    BY <1>4, <1>8, <2>3 DEF AllSuppressed
  <2>5. PICK rows : rows = RowsOf(kept, r, blind) /\ storeRows' = storeRows \o rows
    BY <1>3, <2>3
  <2>6. data \in Data
    BY <1>1, RunIs
  <2>7. Posted(r, rows, blind)
    BY <1>1, <2>3, <2>5, <2>6, RowsArePosted
  <2>8. Len(rows) # 0
    <3>1. kept \in Data
      BY <2>3, <2>6, KeptIs
    <3>2. Len(kept) # 0 /\ DOMAIN kept = 1..Len(kept) /\ Len(kept) \in Nat
      BY <2>4, <3>1 DEF Data
    <3>3. rows = [n \in DOMAIN kept |-> RowOf(kept[n], r, blind)]
      BY <2>5 DEF RowsOf
    <3>4. rows \in Seq(Rows)
      BY <2>7 DEF Posted
    <3>5. Len(rows) = Len(kept)
      BY <3>2, <3>3, <3>4
    <3>6. QED
      BY <3>2, <3>5
  <2>9. \E i \in DOMAIN storeRows' : storeRows'[i].by = r
    <3>1. PICK n \in Nat, m \in Nat : n = Len(rows) /\ m = Len(storeRows)
      <4>1. rows \in Seq(Rows) /\ storeRows \in Seq(Rows)
        BY <2>7 DEF Posted, Types
      <4>2. QED
        BY <4>1
    <3>2. 1 \in 1..n /\ m + 1 \in 1..(m + n)
      BY <2>8, <3>1
    <3>3. /\ DOMAIN storeRows' = 1..(m + n)
          /\ storeRows'[m + 1] = rows[1] /\ rows[1].by = r
      BY <2>7, <3>1, <3>2 DEF Posted, Joins
    <3>4. QED
      BY <3>2, <3>3
  <2>10. Ended(r, run, mrComments', storeRows')
    BY <2>2, <2>9 DEF Ended
  <2>11. QED
    BY <1>5, <2>1, <2>10 DEF Explained
<1>9. QED
  BY <1>7, <1>8

\* The table replaces the progress note.
LEMMA TableEnds ==
    ASSUME Types, EndsInv, NEW r \in ImproveTasks, PublishTable(r)
    PROVE  Explained(r)
<1>1. /\ mrHead' = mrHead /\ ~Cfg(r).committable /\ Cfg(r).gfm
      /\ mrComments' = Persistent(mrComments, r) \/ mrComments' = Settled(mrComments, r, Note("table", r))
      /\ CloseRun(r, "success") \/ CloseRun(r, "empty")
  BY DEF PublishTable
<1>2. PICK run : Becomes(r, run) /\ run.pc = "closed" /\ run.cfg = Cfg(r) /\ run.faulty = FALSE
  <2>1. PICK status \in {"success", "empty", "failed"} : Closed(r, status, FALSE)
    BY <1>1 DEF CloseRun
  <2>2. FALSE \in BOOLEAN /\ mrHead' = mrHead
    BY <1>1
  <2>3. \E run : /\ Becomes(r, run) /\ run.pc = "closed" /\ run.cfg = Cfg(r) /\ run.status = status
                 /\ run.faulty = FALSE /\ (run.found <=> improveRuns[r].data # <<>>)
    BY <2>1, <2>2, ClosedIs
  <2>4. QED
    BY <2>3
<1>3. /\ mrComments \in Seq(Notes)
      /\ Has(mrComments, "temporary", r) => ~Cfg(r).gfm
  BY Unannounced
<1>4. Clears(mrComments', mrComments, {"progress"}, r)
  <2>1. Note("table", r) \in Notes /\ Note("table", r).kind \notin Watched
    BY NoteIs DEF Kinds, Watched
  <2>2. IsNote("progress", r) <=> Has(mrComments, "progress", r)
    BY DEF IsNote, Has
  <2>3. Clears(Settled(mrComments, r, Note("table", r)), mrComments, {"progress"}, r)
    BY <1>3, <2>1, <2>2, SettledClears
  <2>4. Clears(Persistent(mrComments, r), mrComments, {"progress"}, r)
    BY <1>3, PersistentClears
  <2>5. QED
    BY <1>1, <2>3, <2>4
<1>5. Turns(mrComments', mrComments, {"progress"}, {}, r)
  BY <1>4, ClearsTurn
<1>6. ~Has(mrComments', "progress", r) /\ ~Has(mrComments', "temporary", r)
  BY <1>1, <1>3, <1>5 DEF Turns, Watched
<1>7. Ended(r, run, mrComments', storeRows')
  BY <1>1, <1>2, <1>6 DEF Ended
<1>8. QED
  BY <1>2, <1>5, <1>7 DEF Explained

LEMMA StepExplained ==
    ASSUME Types, EndsInv, NEW r \in ImproveTasks, ImproveStep(r)
    PROVE  Explained(r)
BY StartExplained, QuietEnds, GoingOn, FailureEnds, EmptyEnds, InlineEnds, TableEnds DEF ImproveStep

\* The store only grows, and its rows keep their authors.
Grows(new, old) ==
    /\ new \in Seq(Rows)
    /\ \A i \in DOMAIN old : i \in DOMAIN new /\ new[i].by = old[i].by

LEMMA StoreGrows ==
    ASSUME Types, NEW r \in ImproveTasks, ImproveStep(r)
    PROVE  Grows(storeRows', storeRows)
<1>1. storeRows \in Seq(Rows)
  BY DEF Types
<1>2. CASE storeRows' = storeRows
  BY <1>1, <1>2 DEF Grows
<1>3. ASSUME NEW blind \in BOOLEAN, NEW rows, Posted(r, rows, blind)
      PROVE  Grows(storeRows', storeRows)
  <2>1. PICK m \in Nat, n \in Nat : m = Len(storeRows) /\ n = Len(rows) /\ DOMAIN storeRows = 1..m
    BY <1>1, <1>3 DEF Posted
  <2>2. storeRows' \in Seq(Rows) /\ DOMAIN storeRows' = 1..(m + n) /\ \A i \in 1..m : storeRows'[i] = storeRows[i]
    BY <1>3, <2>1 DEF Posted, Joins
  <2>3. \A i \in 1..m : i \in 1..(m + n)
    OBVIOUS
  <2>4. QED
    BY <2>1, <2>2, <2>3 DEF Grows
<1>4. QED
  BY <1>2, <1>3, StoreStep

LEMMA EndedStays ==
    ASSUME NEW r, NEW run, NEW notes, NEW new, NEW rows, NEW grown, Ended(r, run, notes, rows),
           \A kind \in Watched : Has(new, kind, r) <=> Has(notes, kind, r), Grows(grown, rows)
    PROVE  Ended(r, run, new, grown)
<1>1. /\ Has(new, "progress", r) <=> Has(notes, "progress", r)
      /\ Has(new, "temporary", r) <=> Has(notes, "temporary", r)
      /\ Has(new, "notice", r) <=> Has(notes, "notice", r)
      /\ Has(new, "failure", r) <=> Has(notes, "failure", r)
  BY DEF Watched
<1>2. (\E i \in DOMAIN rows : rows[i].by = r) => \E i \in DOMAIN grown : grown[i].by = r
  BY DEF Grows
<1>3. QED
  BY <1>1, <1>2 DEF Ended

LEMMA UpdateIs ==
    ASSUME Types, NEW i \in DOMAIN storeRows, UpdateRow(i)
    PROVE  /\ storeRows' \in Seq(Rows) /\ DOMAIN storeRows' = DOMAIN storeRows
           /\ \A j \in DOMAIN storeRows : \E to \in Live \cup {"superseded"} :
                /\ storeRows'[j] = [storeRows[j] EXCEPT !.state = to]
                /\ storeRows[j].state = "superseded" => to = "superseded"
           /\ improveRuns' = improveRuns /\ mrComments' = mrComments /\ mrHead' = mrHead
<1>1. storeRows \in Seq(Rows)
  BY DEF Types
<1>2. PICK to \in Live \cup {"superseded"} :
        storeRows' = [storeRows EXCEPT ![i].state = to] /\ storeRows[i].state # "superseded"
  <2>1. CASE storeRows[i].state = "open" /\ storeRows' = [storeRows EXCEPT ![i].state = "applied"]
    BY <2>1 DEF Live
  <2>2. CASE storeRows[i].state \in {"open", "applied"}
             /\ \E to \in {"dismissed", "superseded"} : storeRows' = [storeRows EXCEPT ![i].state = to]
    BY <2>2 DEF Live
  <2>3. QED
    BY <2>1, <2>2 DEF UpdateRow
<1>3. PICK row : row = [storeRows[i] EXCEPT !.state = to]
  OBVIOUS
<1>4. storeRows' = [storeRows EXCEPT ![i] = row]
  BY <1>2, <1>3
<1>5. row \in Rows
  <2>1. PICK old : old = storeRows[i] /\ old \in Rows
    BY <1>1
  <2>2. row = [old EXCEPT !.state = to]
    BY <1>3, <2>1
  <2>3. QED
    BY <2>1, <2>2 DEF Rows
<1>6. storeRows' \in Seq(Rows) /\ DOMAIN storeRows' = DOMAIN storeRows
  BY <1>1, <1>4, <1>5
<1>7. ASSUME NEW j \in DOMAIN storeRows
      PROVE  \E t \in Live \cup {"superseded"} :
                /\ storeRows'[j] = [storeRows[j] EXCEPT !.state = t]
                /\ storeRows[j].state = "superseded" => t = "superseded"
  <2>1. CASE j = i
    BY <1>1, <1>2, <1>3, <1>4, <2>1
  <2>2. CASE j # i
    <3>1. storeRows'[j] = storeRows[j] /\ storeRows[j] \in Rows
      BY <1>1, <1>4, <2>2
    <3>2. PICK old : old = storeRows[j] /\ old \in Rows
      BY <3>1
    <3>3. old = [old EXCEPT !.state = old.state] /\ old.state \in Live \cup {"superseded"}
      BY <3>2 DEF Rows
    <3>4. QED
      BY <3>1, <3>2, <3>3
  <2>3. QED
    BY <2>1, <2>2
<1>8. QED
  BY <1>6, <1>7 DEF UpdateRow

ImproveInv == Types /\ EndsInv

LEMMA ImproveInvInit ==
    ImproveInit => ImproveInv
<1> SUFFICES ASSUME ImproveInit
             PROVE  ImproveInv
  OBVIOUS
<1>1. /\ improveRuns = [r \in ImproveTasks |-> Idle] /\ storeRows = <<>> /\ mrComments = <<>> /\ mrHead = 0
  BY DEF ImproveInit
<1>2. Idle \in Runs /\ Idle.head = 0 /\ Idle.data = <<>> /\ Idle.pc = "idle"
  BY IdleIs
<1>3. Types
  BY <1>1, <1>2 DEF Types
<1>4. \A kind, q : ~Has(mrComments, kind, q)
  BY <1>1 DEF Has
<1>5. EndsInv
  BY <1>1, <1>2, <1>4 DEF EndsInv, Ended
<1>6. QED
  BY <1>3, <1>5 DEF ImproveInv

LEMMA ImproveInvStep ==
    ImproveInv /\ [ImproveNext]_improveVars => ImproveInv'
<1> SUFFICES ASSUME Types, EndsInv, [ImproveNext]_improveVars
             PROVE  Types' /\ EndsInv'
  BY DEF ImproveInv
<1>1. ASSUME NEW r \in ImproveTasks, ImproveStep(r)
      PROVE  Types' /\ EndsInv'
  <2>1. PICK run, kinds, adds : /\ Becomes(r, run) /\ Turns(mrComments', mrComments, kinds, adds, r)
                                /\ Ended(r, run, mrComments', storeRows')
    BY <1>1, StepExplained DEF Explained
  <2>2. Grows(storeRows', storeRows)
    BY <1>1, StoreGrows
  <2>3. mrComments' \in Seq(Notes) /\ storeRows' \in Seq(Rows)
    BY <2>1, <2>2 DEF Turns, Grows
  <2>4. Types'
    BY <2>1, <2>3, TypesAfter
  <2>5. \A q \in ImproveTasks : improveRuns'[q] = IF q = r THEN run ELSE improveRuns[q]
    BY <2>1 DEF Becomes, Types
  <2>6. ASSUME NEW q \in ImproveTasks, q # r
        PROVE  Ended(q, improveRuns[q], mrComments', storeRows')
    <3>1. Ended(q, improveRuns[q], mrComments, storeRows)
      BY DEF EndsInv
    <3>2. \A kind \in Watched : Has(mrComments', kind, q) <=> Has(mrComments, kind, q)
      BY <2>1, <2>6 DEF Turns
    <3>3. QED
      BY <2>2, <3>1, <3>2, EndedStays
  <2>7. \A q \in ImproveTasks : Ended(q, improveRuns'[q], mrComments', storeRows')
    BY <2>1, <2>5, <2>6
  <2>8. QED
    BY <2>4, <2>7 DEF EndsInv
<1>2. ASSUME NEW i \in DOMAIN storeRows, UpdateRow(i)
      PROVE  Types' /\ EndsInv'
  <2>1. /\ storeRows' \in Seq(Rows) /\ DOMAIN storeRows' = DOMAIN storeRows
        /\ \A j \in DOMAIN storeRows : \E to \in Live \cup {"superseded"} :
             storeRows'[j] = [storeRows[j] EXCEPT !.state = to]
        /\ improveRuns' = improveRuns /\ mrComments' = mrComments /\ mrHead' = mrHead
    BY <1>2, UpdateIs
  <2>2. Types'
    BY <2>1 DEF Types
  <2>3. ASSUME NEW j \in DOMAIN storeRows
        PROVE  storeRows'[j].by = storeRows[j].by
    <3>1. storeRows[j] \in Rows
      BY DEF Types
    <3>2. QED
      BY <2>1, <3>1 DEF Rows
  <2>4. Grows(storeRows', storeRows)
    BY <2>1, <2>3 DEF Grows
  <2>5. ASSUME NEW q \in ImproveTasks
        PROVE  Ended(q, improveRuns'[q], mrComments', storeRows')
    <3>1. Ended(q, improveRuns[q], mrComments, storeRows)
      BY DEF EndsInv
    <3>2. Ended(q, improveRuns[q], mrComments, storeRows')
      BY <2>4, <3>1, EndedStays
    <3>3. QED
      BY <2>1, <3>2
  <2>6. QED
    BY <2>2, <2>5 DEF EndsInv
<1>3. CASE PushCommit
  <2>1. improveRuns' = improveRuns /\ storeRows' = storeRows /\ mrComments' = mrComments /\ mrHead' = mrHead + 1
    BY <1>3 DEF PushCommit
  <2>2. EndsInv'
    BY <2>1 DEF EndsInv
  <2>3. mrHead \in Nat /\ \A q \in ImproveTasks : improveRuns[q].head \in Nat /\ improveRuns[q].head <= mrHead
    BY DEF Types, Runs
  <2>4. mrHead' \in Nat /\ \A q \in ImproveTasks : improveRuns[q].head <= mrHead'
    BY <2>1, <2>3
  <2>5. Types'
    BY <2>1, <2>4 DEF Types
  <2>6. QED
    BY <2>2, <2>5
<1>4. CASE UNCHANGED improveVars
  <2>1. /\ improveRuns' = improveRuns /\ storeRows' = storeRows /\ mrComments' = mrComments /\ mrHead' = mrHead
    BY <1>4 DEF improveVars
  <2>2. QED
    BY <2>1 DEF Types, EndsInv
<1>5. QED
  BY <1>1, <1>2, <1>3, <1>4 DEF ImproveNext

\* Every run, row and comment has the fields and values the code gives it, and the
\* history folded into the persistent comment keeps its limit.
THEOREM ImproveTypesHold == ImproveSpec => []ImproveTypeOK
<1>1. ImproveInv => ImproveTypeOK
  <2> SUFFICES ASSUME ImproveInv
               PROVE  ImproveTypeOK
    OBVIOUS
  <2>1. /\ improveRuns \in [ImproveTasks -> Runs] /\ storeRows \in Seq(Rows) /\ mrComments \in Seq(Notes)
        /\ mrHead \in Nat /\ \A r \in ImproveTasks : improveRuns[r].head <= mrHead
    BY DEF ImproveInv, Types
  <2>2. ASSUME NEW r \in ImproveTasks
        PROVE  /\ improveRuns[r].pc \in {"idle", "asking", "reflecting", "deciding", "closed"}
               /\ improveRuns[r].status \in {"none", "started", "success", "empty", "failed"}
               /\ improveRuns[r].attempt \in 0..MaxModels
               /\ improveRuns[r].head \in 0..mrHead
    <3>1. improveRuns[r] \in Runs /\ improveRuns[r].head <= mrHead
      BY <2>1
    <3>2. improveRuns[r].head \in Nat
      BY <3>1 DEF Runs
    <3>3. improveRuns[r].head \in 0..mrHead
      BY <2>1, <3>1, <3>2
    <3>4. QED
      BY <3>1, <3>3 DEF Runs
  <2>3. ASSUME NEW i \in DOMAIN storeRows
        PROVE  storeRows[i].state \in Live \cup {"superseded"}
    <3>1. storeRows[i] \in Rows
      BY <2>1
    <3>2. QED
      BY <3>1 DEF Rows
  <2>4. ASSUME NEW k \in DOMAIN mrComments
        PROVE  mrComments[k].hist \in 0..MaxHistory
    <3>1. mrComments[k] \in Notes
      BY <2>1
    <3>2. QED
      BY <3>1 DEF Notes
  <2>5. QED
    BY <2>2, <2>3, <2>4 DEF ImproveTypeOK
<1>2. QED
  BY <1>1, ImproveInvInit, ImproveInvStep, PTL DEF ImproveSpec

\* An inline run that had something to say has said it or says why not, and no
\* announcement outlives the run that made it, except where the code lets it.
THEOREM EndsExplained == ImproveSpec => []EndsAreExplained
<1>1. ImproveInv => EndsAreExplained
  <2> SUFFICES ASSUME ImproveInv
               PROVE  EndsAreExplained
    OBVIOUS
  <2>1. \A r \in ImproveTasks : Ended(r, improveRuns[r], mrComments, storeRows)
    BY DEF ImproveInv, EndsInv
  <2>2. \A kind, r : IsNote(kind, r) <=> Has(mrComments, kind, r)
    BY DEF IsNote, Has
  <2>3. SilenceIsExplained
    BY <2>1, <2>2 DEF Ended, SilenceIsExplained, Cfg
  <2>4. NothingLeftBehind
    BY <2>1, <2>2 DEF Ended, NothingLeftBehind, Cfg
  <2>5. QED
    BY <2>3, <2>4 DEF EndsAreExplained
<1>2. QED
  BY <1>1, ImproveInvInit, ImproveInvStep, PTL DEF ImproveSpec

-----------------------------------------------------------------------------
(* What the store holds. *)

\* Of two rows of different runs, the second written by one that could look, the
\* first is superseded if they show the same patch or hold the same site.
PostedOnce(rows) ==
    \A i, j \in DOMAIN rows :
        i < j /\ rows[i].by # rows[j].by /\ ~rows[j].blind =>
            /\ rows[i].patch = rows[j].patch => rows[i].state = "superseded"
            /\ ~rows[j].stray /\ rows[i].cohort = rows[j].cohort /\ rows[i].head = rows[j].head =>
                  rows[i].state = "superseded"

LEMMA OnceIs ==
    OnePostingStands <=> PostedOnce(storeRows)
BY DEF OnePostingStands, PatchPostedOnce, SiteHeldOnce, Later, PostedOnce

\* The places of the rows a step writes.
Writes(r, rows, blind, m, n) ==
    /\ m \in Nat /\ n \in Nat /\ DOMAIN storeRows = 1..m /\ DOMAIN storeRows' = 1..(m + n)
    /\ \A i \in 1..m : storeRows'[i] = storeRows[i]
    /\ \A j \in 1..(m + n) : ~(j <= m) =>
         /\ j - m \in 1..n /\ storeRows'[j] = rows[j - m]
         /\ storeRows'[j].by = r /\ storeRows'[j].blind = blind
         /\ storeRows'[j] \in Rows /\ (blind \/ Fresh(storeRows'[j]))
    /\ New = {j \in 1..(m + n) : ~(j <= m)}

LEMMA NewRowsAre ==
    ASSUME Types, NEW r \in ImproveTasks, NEW rows, NEW blind, Posted(r, rows, blind),
           NEW m, m = Len(storeRows), NEW n, n = Len(rows)
    PROVE  Writes(r, rows, blind, m, n)
<1>1. rows \in Seq(Rows) /\ storeRows \in Seq(Rows)
  BY DEF Posted, Types
<1>2. m \in Nat /\ n \in Nat /\ DOMAIN storeRows = 1..m /\ DOMAIN rows = 1..n
  BY <1>1
<1>3. /\ DOMAIN storeRows' = 1..(m + n)
      /\ \A i \in 1..m : storeRows'[i] = storeRows[i]
      /\ \A i \in 1..n : storeRows'[m + i] = rows[i]
      /\ \A i \in 1..n : rows[i].by = r /\ rows[i].blind = blind /\ (blind \/ Fresh(rows[i]))
  BY DEF Posted, Joins
<1>4. ASSUME NEW j \in 1..(m + n), ~(j <= m)
      PROVE  /\ j - m \in 1..n /\ storeRows'[j] = rows[j - m]
             /\ storeRows'[j].by = r /\ storeRows'[j].blind = blind
             /\ storeRows'[j] \in Rows /\ (blind \/ Fresh(storeRows'[j]))
  <2>1. j - m \in 1..n /\ m + (j - m) = j
    BY <1>2, <1>4
  <2>2. storeRows'[m + (j - m)] = rows[j - m]
    BY <1>3, <2>1
  <2>3. storeRows'[j] = rows[j - m]
    BY <2>1, <2>2
  <2>4. rows[j - m] \in Rows
    BY <1>1, <1>2, <2>1
  <2>5. rows[j - m].by = r /\ rows[j - m].blind = blind /\ (blind \/ Fresh(rows[j - m]))
    BY <1>3, <2>1
  <2>6. QED
    BY <2>1, <2>3, <2>4, <2>5
<1>5. New = {j \in 1..(m + n) : ~(j <= m)}
  <2>1. \A j \in 1..(m + n) : j > m <=> ~(j <= m)
    BY <1>2
  <2>2. QED
    BY <1>3, <2>1 DEF New
<1>6. QED
  BY <1>2, <1>3, <1>4, <1>5 DEF Writes

LEMMA PostedOnceStays ==
    ASSUME Types, PostedOnce(storeRows), [ImproveNext]_improveVars
    PROVE  PostedOnce(storeRows)'
<1>1. ASSUME NEW r \in ImproveTasks, ImproveStep(r)
      PROVE  PostedOnce(storeRows')
  <2>1. CASE storeRows' = storeRows
    BY <2>1
  <2>2. ASSUME NEW blind \in BOOLEAN, NEW rows, Posted(r, rows, blind)
        PROVE  PostedOnce(storeRows')
    <3>1. PICK m, n : m = Len(storeRows) /\ n = Len(rows)
      OBVIOUS
    <3>2. /\ m \in Nat /\ n \in Nat /\ DOMAIN storeRows = 1..m /\ DOMAIN storeRows' = 1..(m + n)
          /\ \A i \in 1..m : storeRows'[i] = storeRows[i]
          /\ \A j \in 1..(m + n) : ~(j <= m) =>
                /\ storeRows'[j].by = r /\ storeRows'[j].blind = blind
                /\ blind \/ Fresh(storeRows'[j])
      BY <2>2, <3>1, NewRowsAre DEF Writes
    <3>3. ASSUME NEW i \in DOMAIN storeRows', NEW j \in DOMAIN storeRows', i < j,
                 storeRows'[i].by # storeRows'[j].by, ~storeRows'[j].blind
          PROVE  /\ storeRows'[i].patch = storeRows'[j].patch => storeRows'[i].state = "superseded"
                 /\ ~storeRows'[j].stray /\ storeRows'[i].cohort = storeRows'[j].cohort
                    /\ storeRows'[i].head = storeRows'[j].head => storeRows'[i].state = "superseded"
      <4>1. i \in 1..(m + n) /\ j \in 1..(m + n)
        BY <3>2
      <4>2. CASE j <= m
        <5>1. i \in 1..m /\ j \in 1..m
          BY <3>2, <3>3, <4>1, <4>2
        <5>2. storeRows'[i] = storeRows[i] /\ storeRows'[j] = storeRows[j]
          BY <3>2, <5>1
        <5>3. i \in DOMAIN storeRows /\ j \in DOMAIN storeRows
          BY <3>2, <5>1
        <5>4. QED
          BY <3>3, <5>2, <5>3 DEF PostedOnce
      <4>3. CASE ~(j <= m)
        <5>1. storeRows'[j].by = r /\ ~blind /\ Fresh(storeRows'[j])
          BY <3>2, <3>3, <4>1, <4>3
        <5>2. i <= m
          BY <3>2, <3>3, <4>1, <5>1
        <5>3. i \in 1..m
          BY <3>2, <4>1, <5>2
        <5>4. storeRows'[i] = storeRows[i] /\ i \in DOMAIN storeRows
          BY <3>2, <5>3
        <5>5. storeRows[i].state \in Live \/ storeRows[i].state = "superseded"
          <6>1. storeRows[i] \in Rows
            BY <5>4 DEF Types
          <6>2. QED
            BY <6>1 DEF Rows
        <5>6. QED
          BY <5>1, <5>4, <5>5 DEF Fresh
      <4>4. QED
        BY <4>2, <4>3
    <3>4. QED
      BY <3>3 DEF PostedOnce
  <2>3. QED
    BY <1>1, <2>1, <2>2, StoreStep
<1>2. ASSUME NEW k \in DOMAIN storeRows, UpdateRow(k)
      PROVE  PostedOnce(storeRows')
  <2>1. /\ DOMAIN storeRows' = DOMAIN storeRows
        /\ \A j \in DOMAIN storeRows : \E to \in Live \cup {"superseded"} :
             /\ storeRows'[j] = [storeRows[j] EXCEPT !.state = to]
             /\ storeRows[j].state = "superseded" => to = "superseded"
    BY <1>2, UpdateIs
  <2>2. ASSUME NEW j \in DOMAIN storeRows
        PROVE  /\ storeRows'[j].by = storeRows[j].by /\ storeRows'[j].blind = storeRows[j].blind
               /\ storeRows'[j].patch = storeRows[j].patch /\ storeRows'[j].stray = storeRows[j].stray
               /\ storeRows'[j].cohort = storeRows[j].cohort /\ storeRows'[j].head = storeRows[j].head
               /\ storeRows[j].state = "superseded" => storeRows'[j].state = "superseded"
    <3>1. PICK old : old = storeRows[j] /\ old \in Rows
      BY DEF Types
    <3>2. PICK to : /\ storeRows'[j] = [old EXCEPT !.state = to]
                    /\ old.state = "superseded" => to = "superseded"
      BY <2>1, <3>1
    <3>3. QED
      BY <3>1, <3>2 DEF Rows
  <2>3. QED
    BY <2>1, <2>2 DEF PostedOnce
<1>3. CASE PushCommit
  BY <1>3 DEF PushCommit
<1>4. CASE UNCHANGED improveVars
  BY <1>4 DEF improveVars
<1>5. QED
  BY <1>1, <1>2, <1>3, <1>4 DEF ImproveNext

\* However many runs answer at once, and whatever reviewers do in between: of two runs
\* that could look into the store, the later posts a patch, or a site, again only
\* when the earlier posting was superseded.
THEOREM OnePostingStays == ImproveSpec => []OnePostingStands
<1>1. ImproveInit => PostedOnce(storeRows)
  BY DEF ImproveInit, PostedOnce
<1>2. ImproveInv /\ PostedOnce(storeRows) /\ [ImproveNext]_improveVars => PostedOnce(storeRows)'
  BY PostedOnceStays DEF ImproveInv
<1>3. QED
  BY <1>1, <1>2, OnceIs, ImproveInvInit, ImproveInvStep, PTL DEF ImproveSpec

-----------------------------------------------------------------------------
(* What a run posts. *)

LEMMA SilentStays ==
    ASSUME Types, [ImproveNext]_improveVars
    PROVE  SilentStep
<1>1. CASE DOMAIN storeRows' = DOMAIN storeRows
  <2>1. New = {}
    <3>1. PICK m \in Nat : m = Len(storeRows) /\ DOMAIN storeRows = 1..m
      BY DEF Types
    <3>2. QED
      BY <1>1, <3>1 DEF New
  <2>2. QED
    BY <2>1 DEF SilentStep
<1>2. ASSUME NEW r \in ImproveTasks, NEW blind \in BOOLEAN, NEW rows, Posted(r, rows, blind)
      PROVE  SilentStep
  <2>1. PICK m, n : m = Len(storeRows) /\ n = Len(rows)
    OBVIOUS
  <2>2. /\ \A j \in 1..(m + n) : ~(j <= m) =>
                /\ storeRows'[j].blind = blind
                /\ storeRows'[j] \in Rows /\ (blind \/ Fresh(storeRows'[j]))
        /\ New = {j \in 1..(m + n) : ~(j <= m)}
    BY <1>2, <2>1, NewRowsAre DEF Writes
  <2>3. ASSUME NEW i \in DOMAIN storeRows, NEW j \in New,
               storeRows[i].state \in {"applied", "dismissed"}, ~storeRows'[j].blind
        PROVE  /\ Distance(storeRows[i].line, storeRows'[j].line) > 3
               /\ storeRows[i].state = "dismissed" /\ storeRows[i].rules \cap storeRows'[j].rules # {}
                    => Distance(storeRows[i].line, storeRows'[j].line) > RuleLineWindow
    <3>1. storeRows'[j] \in Rows /\ Fresh(storeRows'[j])
      BY <2>2, <2>3
    <3>2. PICK d : d = Distance(storeRows[i].line, storeRows'[j].line)
      OBVIOUS
    <3>3. d \in Int
      <4>1. storeRows[i] \in Rows
        BY DEF Types
      <4>2. storeRows[i].line \in Int /\ storeRows'[j].line \in Int
        BY <3>1, <4>1 DEF Rows
      <4>3. QED
        BY <3>2, <4>2 DEF Distance
    <3>4. /\ ~(d <= 3)
          /\ storeRows[i].state = "dismissed" /\ storeRows[i].rules \cap storeRows'[j].rules # {} =>
                ~(d <= RuleLineWindow)
      BY <2>3, <3>1, <3>2 DEF Fresh
    <3>5. d > 3 /\ (~(d <= RuleLineWindow) => d > RuleLineWindow)
      BY <3>3, <3>4 DEF RuleLineWindow
    <3>6. QED
      BY <3>2, <3>4, <3>5
  <2>4. QED
    BY <2>3 DEF SilentStep
<1>3. ASSUME NEW r \in ImproveTasks, ImproveStep(r)
      PROVE  SilentStep
  BY <1>1, <1>2, <1>3, StoreStep
<1>4. ASSUME NEW k \in DOMAIN storeRows, UpdateRow(k)
      PROVE  SilentStep
  BY <1>1, <1>4, UpdateIs
<1>5. CASE PushCommit
  BY <1>1, <1>5 DEF PushCommit
<1>6. CASE UNCHANGED improveVars
  BY <1>1, <1>6 DEF improveVars
<1>7. QED
  BY <1>3, <1>4, <1>5, <1>6 DEF ImproveNext

\* Only the inline path ends a run with success that publishes no table.
LEMMA SuccessIsInline ==
    ASSUME Types, EndsInv, [ImproveNext]_improveVars, NEW r \in ImproveTasks,
           improveRuns[r].pc = "deciding", improveRuns'[r].status = "success", Cfg(r).dual = 0
    PROVE  PushInline(r)
<1>1. improveRuns[r].status = "started"
  BY RunIs
<1>2. improveRuns' # improveRuns
  BY <1>1
<1>3. PICK q \in ImproveTasks : ImproveStep(q)
  BY <1>2 DEF ImproveNext, UpdateRow, PushCommit, improveVars
<1>4. q = r
  <2>1. PICK run : Becomes(q, run)
    BY <1>3, StepExplained DEF Explained
  <2>2. \A p \in ImproveTasks : improveRuns'[p] = IF p = q THEN run ELSE improveRuns[p]
    BY <2>1 DEF Becomes, Types
  <2>3. QED
    BY <1>1, <2>2
<1>5. ~StartRun(r) /\ ~NoFiles(r) /\ ~ModelAnswers(r) /\ ~Reflect(r) /\ ~ModelFails(r) /\ ~LastModelFails(r)
  BY DEF StartRun, NoFiles, ModelAnswers, Reflect, ModelFails, LastModelFails
<1>6. ASSUME NEW status \in {"empty", "failed"}, NEW faulty \in BOOLEAN, Closed(r, status, faulty), mrHead' = mrHead
      PROVE  FALSE
  <2>1. PICK run : Becomes(r, run) /\ run.status = status
    BY <1>6, ClosedIs
  <2>2. improveRuns'[r] = run
    BY <2>1 DEF Becomes, Types
  <2>3. QED
    BY <2>1, <2>2
<1>7. ~PublishFails(r) /\ ~PushInlineThenFail(r)
  BY <1>6 DEF PublishFails, PushInlineThenFail, FailRun, UnchangedStore
<1>8. ~NoSuggestions(r) /\ ~KeepArtifact(r)
  BY <1>6 DEF NoSuggestions, KeepArtifact, CloseRun, UnchangedStore
<1>9. ~PublishTable(r)
  <2>1. ASSUME PublishTable(r) PROVE CloseRun(r, "empty") /\ mrHead' = mrHead
    <3>1. ~(Cfg(r).dual > 0)
      OBVIOUS
    <3>2. QED
      BY <2>1, <3>1 DEF PublishTable
  <2>2. QED
    BY <1>6, <2>1 DEF CloseRun
<1>10. QED
  BY <1>3, <1>4, <1>5, <1>7, <1>8, <1>9 DEF ImproveStep

LEMMA BestArePosted ==
    ASSUME Types, NEW r \in ImproveTasks, PushInline(r), \A j \in New : ~storeRows'[j].blind,
           NEW data, data = improveRuns[r].data, NEW head, head = improveRuns[r].head
    PROVE  BestPosted(data, head)
<1>1. data \in Data /\ data # <<>>
  BY RunIs DEF PushInline, Inline
<1>2. PICK blind \in BOOLEAN : storeRows' = storeRows \o RowsOf(Kept(data, head, blind), r, blind)
  BY DEF PushInline
<1>3. PICK kept : kept = Kept(data, head, blind)
  OBVIOUS
<1>4. PICK rows : rows = RowsOf(kept, r, blind) /\ storeRows' = storeRows \o rows
  BY <1>2, <1>3
<1>5. Posted(r, rows, blind)
  BY <1>1, <1>3, <1>4, RowsArePosted
<1>6. Show(rows, kept, r, blind)
  <2>1. head \in Nat
    BY RunIs
  <2>2. QED
    BY <1>1, <1>3, <1>4, <2>1, RowsAre
<1>7. PICK m, n : m = Len(storeRows) /\ n = Len(rows)
  OBVIOUS
<1>8. /\ m \in Nat /\ n \in Nat
      /\ \A j \in 1..(m + n) : ~(j <= m) =>
            j - m \in 1..n /\ storeRows'[j] = rows[j - m] /\ storeRows'[j].blind = blind
      /\ New = {j \in 1..(m + n) : ~(j <= m)}
  <2>1. Writes(r, rows, blind, m, n)
    BY <1>5, <1>7, NewRowsAre
  <2>2. QED
    BY <2>1 DEF Writes
<1>9. /\ kept \in Data /\ Len(kept) <= NumSuggestions
      /\ \A l \in DOMAIN kept : \E i \in DOMAIN data : kept[l] = data[i]
      /\ blind => kept # <<>>
  BY <1>1, <1>3, KeptIs
<1>10. Len(kept) = n /\ DOMAIN kept = 1..n
  <2>1. Len(kept) \in Nat /\ DOMAIN kept = 1..Len(kept)
    BY <1>9, DataIs
  <2>2. QED
    BY <1>6, <1>7, <2>1 DEF Show
<1>11. \A l \in 1..n : /\ m + l \in New /\ storeRows'[m + l] = rows[l]
                       /\ Shows(m + l, kept[l])
  <2>1. ASSUME NEW l \in 1..n
        PROVE  m + l \in 1..(m + n) /\ ~(m + l <= m) /\ (m + l) - m = l
    BY <1>8
  <2>2. ASSUME NEW l \in 1..n
        PROVE  m + l \in New /\ storeRows'[m + l] = rows[l]
    <3>1. m + l \in 1..(m + n) /\ ~(m + l <= m) /\ (m + l) - m = l
      BY <2>1
    <3>2. storeRows'[m + l] = rows[(m + l) - m]
      BY <1>8, <3>1
    <3>3. QED
      BY <1>8, <3>1, <3>2
  <2>3. \A l \in 1..n : rows[l].patch = kept[l].s.patch /\ rows[l].line = kept[l].s.line
    BY <1>6, <1>10 DEF Show
  <2>4. QED
    BY <2>2, <2>3 DEF Shows
<1>12. ~blind
  <2>1. ASSUME blind PROVE FALSE
    <3>1. Len(kept) # 0
      BY <1>9, <2>1 DEF Data
    <3>2. 1 \in 1..n
      BY <1>8, <1>10, <3>1
    <3>3. m + 1 \in New /\ storeRows'[m + 1] = rows[1]
      BY <1>11, <3>2
    <3>4. rows[1].blind
      BY <1>6, <1>10, <2>1, <3>2 DEF Show
    <3>5. QED
      BY <3>3, <3>4
  <2>2. QED
    BY <2>1
<1>13. kept = Kept(data, head, FALSE)
  BY <1>3, <1>12
<1>14. Cardinality(New) = n
  <2>1. New = (m + 1)..(m + n)
    BY <1>8
  <2>2. PICK a \in Int, b \in Int : a = m + 1 /\ b = m + n
    BY <1>8
  <2>3. Cardinality(a..b) = IF a > b THEN 0 ELSE b - a + 1
    BY FS_Interval
  <2>4. (a > b => n = 0) /\ (~(a > b) => b - a + 1 = n)
    BY <1>8, <2>2
  <2>5. QED
    BY <2>1, <2>2, <2>3, <2>4
<1>15. ASSUME NEW i \in DOMAIN data
       PROVE  \/ \E j \in New : Shows(j, data[i])
              \/ \E k \in Twins(data, i) \ {i} : Rank(data[k]) >= Rank(data[i])
              \/ ~Raised(data[i], head)
              \/ /\ Cardinality(New) = NumSuggestions
                 /\ \A j \in New : \E k \in DOMAIN data : Shows(j, data[k]) /\ Rank(data[k]) >= Rank(data[i])
  <2>1. \/ \E l \in DOMAIN kept : kept[l] = data[i]
        \/ \E b \in Twins(data, i) \ {i} : Rank(data[b]) >= Rank(data[i])
        \/ ~Raised(data[i], head)
        \/ Len(kept) = NumSuggestions /\ \A l \in DOMAIN kept : Rank(kept[l]) >= Rank(data[i])
    <3>1. Fair(kept, data, i, head)
      BY <1>1, <1>13, BestAreKept
    <3>2. QED
      BY <3>1 DEF Fair
  <2>2. CASE \E l \in DOMAIN kept : kept[l] = data[i]
    <3>1. PICK l \in 1..n : kept[l] = data[i]
      BY <1>10, <2>2
    <3>2. m + l \in New /\ Shows(m + l, data[i])
      BY <1>11, <3>1
    <3>3. QED
      BY <3>2
  <2>3. CASE Len(kept) = NumSuggestions /\ \A l \in DOMAIN kept : Rank(kept[l]) >= Rank(data[i])
    <3>1. Cardinality(New) = NumSuggestions
      BY <1>10, <1>14, <2>3
    <3>2. ASSUME NEW j \in New
          PROVE  \E k \in DOMAIN data : Shows(j, data[k]) /\ Rank(data[k]) >= Rank(data[i])
      <4>1. PICK l \in 1..n : j = m + l
        <5>1. j \in 1..(m + n) /\ ~(j <= m)
          BY <1>8
        <5>2. j - m \in 1..n /\ m + (j - m) = j
          BY <1>8, <5>1
        <5>3. QED
          BY <5>2
      <4>2. PICK k \in DOMAIN data : kept[l] = data[k]
        BY <1>9, <1>10
      <4>3. Shows(j, data[k])
        BY <1>11, <4>1, <4>2
      <4>4. Rank(data[k]) >= Rank(data[i])
        BY <1>10, <2>3, <4>2
      <4>5. QED
        BY <4>3, <4>4
    <3>3. QED
      BY <3>1, <3>2
  <2>4. QED
    BY <2>1, <2>2, <2>3
<1>16. Cardinality(New) <= NumSuggestions
  BY <1>9, <1>10, <1>14
<1>17. QED
  BY <1>15, <1>16 DEF BestPosted

\* What is posted next to what a reviewer settled is nothing, and of the rest the best:
\* for every answer, score and interleaving, up to the moment of publishing.
THEOREM RightOnesPosted == ImproveSpec => RightOnesArePosted
<1>1. ImproveInv /\ [ImproveNext]_improveVars => BudgetStep
  <2> SUFFICES ASSUME ImproveInv, [ImproveNext]_improveVars
               PROVE  BudgetStep
    OBVIOUS
  <2>1. Types /\ EndsInv
    BY DEF ImproveInv
  <2>2. ASSUME NEW r \in ImproveTasks, improveRuns[r].pc = "deciding", improveRuns'[r].status = "success",
               Cfg(r).dual = 0, \A j \in New : ~storeRows'[j].blind
        PROVE  BestPosted(improveRuns[r].data, improveRuns[r].head)
    <3>1. PushInline(r)
      BY <2>1, <2>2, SuccessIsInline
    <3>2. QED
      BY <2>1, <2>2, <3>1, BestArePosted
  <2>3. QED
    BY <2>2 DEF BudgetStep
<1>2. ImproveInv /\ [ImproveNext]_improveVars => SilentStep
  BY SilentStays DEF ImproveInv
<1>3. ImproveSpec => [][SilentStep]_improveVars
  BY <1>2, ImproveInvInit, ImproveInvStep, PTL DEF ImproveSpec
<1>4. ImproveSpec => [][BudgetStep]_improveVars
  BY <1>1, ImproveInvInit, ImproveInvStep, PTL DEF ImproveSpec
<1>5. QED
  BY <1>3, <1>4, PTL DEF RightOnesArePosted, ResolvedSitesStaySilent, BudgetGoesToTheBest
=============================================================================
