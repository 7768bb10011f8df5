------------------------- MODULE DiffBudgetProofs -------------------------
(* What DiffBudget promises for any files, languages, models, limits and sizes. *)
EXTENDS DiffBudget, FiniteSetTheorems, SequenceTheorems, WellFoundedInduction, TLAPS

-----------------------------------------------------------------------------
(* Places in an order. *)

\* A non-empty set of naturals has a least element.
LEMMA LeastElement ==
    ASSUME NEW T \in SUBSET Nat, T # {}
    PROVE  \E n \in T : \A m \in T : n <= m
<1> DEFINE Below == {{k \in Nat : k < n} : n \in T}
<1>1. Below \subseteq FiniteSubsetsOf(Nat)
  <2> SUFFICES ASSUME NEW n \in T
               PROVE  {k \in Nat : k < n} \in FiniteSubsetsOf(Nat)
    OBVIOUS
  <2>1. IsFiniteSet({k \in Nat : k < n})
    BY FS_BoundedSetOfNaturals
  <2> QED BY <2>1 DEF FiniteSubsetsOf
<1>2. PICK B \in Below : \A C \in Below : <<C, B>> \notin StrictSubsetOrdering(Nat)
  <2>1. Below # {}
    OBVIOUS
  <2> HIDE DEF Below
  <2> QED BY <1>1, <2>1, FS_StrictSubsetOrderingWellFounded, WFMin
<1>3. PICK n \in T : B = {k \in Nat : k < n}
  BY <1>2
<1>4. ASSUME NEW m \in T, m < n PROVE FALSE
  <2> DEFINE C == {k \in Nat : k < m}
  <2>1. C \in Below
    OBVIOUS
  <2>2. m \in B /\ m \notin C /\ C \subseteq B /\ B \subseteq Nat
    BY <1>3, <1>4
  <2>3. <<C, B>> \in StrictSubsetOrdering(Nat)
    BY <2>2 DEF StrictSubsetOrdering
  <2> QED BY <2>1, <2>3, <1>2
<1> QED BY <1>4

Before(S, R, i) == {j \in S : <<j, i>> \in R}
TotalOn(S, R) ==
    /\ \A i \in S : <<i, i>> \notin R
    /\ \A i, j \in S : i = j \/ <<i, j>> \in R \/ <<j, i>> \in R
    /\ \A i, j, k \in S : <<i, j>> \in R /\ <<j, k>> \in R => <<i, k>> \in R

LEMMA FewerBefore ==
    ASSUME NEW S, NEW R, IsFiniteSet(S), TotalOn(S, R), NEW i \in S, NEW j \in S, <<i, j>> \in R
    PROVE  Cardinality(Before(S, R, i)) < Cardinality(Before(S, R, j))
<1>1. PICK A, B : A = Before(S, R, i) /\ B = Before(S, R, j)
  OBVIOUS
<1>2. A \subseteq B /\ i \in B /\ i \notin A /\ B \subseteq S
  BY <1>1 DEF Before, TotalOn
<1>3. IsFiniteSet(B) /\ IsFiniteSet(A)
  BY <1>2, FS_Subset
<1>4. Cardinality(A) \in Nat /\ Cardinality(B) \in Nat
  BY <1>3, FS_CardinalityType
<1>5. Cardinality(A) <= Cardinality(B) /\ Cardinality(A) # Cardinality(B)
  BY <1>2, <1>3, FS_Subset
<1>6. QED
  BY <1>1, <1>4, <1>5

\* Each place is taken by one element.
LEMMA PlacesAreTaken ==
    ASSUME NEW S, NEW R, IsFiniteSet(S), TotalOn(S, R)
    PROVE  /\ \A i \in S : Cardinality(Before(S, R, i)) \in 0..(Cardinality(S) - 1)
           /\ \A n \in 1..Cardinality(S) : \E i \in S : Cardinality(Before(S, R, i)) = n - 1
           /\ \A i, j \in S : Cardinality(Before(S, R, i)) = Cardinality(Before(S, R, j)) => i = j
<1>1. PICK c \in Nat : c = Cardinality(S)
  BY FS_CardinalityType
<1>2. ASSUME NEW i \in S
      PROVE  Cardinality(Before(S, R, i)) \in 0..(c - 1)
  <2>1. PICK A : A = Before(S, R, i)
    OBVIOUS
  <2>2. A \subseteq S /\ i \notin A
    BY <2>1 DEF Before, TotalOn
  <2>3. IsFiniteSet(A) /\ Cardinality(A) <= c /\ Cardinality(A) # c
    BY <1>1, <2>2, FS_Subset
  <2>4. Cardinality(A) \in Nat
    BY <2>3, FS_CardinalityType
  <2>5. QED
    BY <1>1, <2>1, <2>3, <2>4
<1>3. ASSUME NEW i \in S, NEW j \in S, Cardinality(Before(S, R, i)) = Cardinality(Before(S, R, j))
      PROVE  i = j
  <2>1. Cardinality(Before(S, R, i)) \in Int /\ Cardinality(Before(S, R, j)) \in Int
    BY <1>1, <1>2
  <2>2. CASE <<i, j>> \in R
    <3>1. Cardinality(Before(S, R, i)) < Cardinality(Before(S, R, j))
      BY <2>2, FewerBefore
    <3>2. QED
      BY <1>3, <2>1, <3>1
  <2>3. CASE <<j, i>> \in R
    <3>1. Cardinality(Before(S, R, j)) < Cardinality(Before(S, R, i))
      BY <2>3, FewerBefore
    <3>2. QED
      BY <1>3, <2>1, <3>1
  <2>4. QED
    BY <2>2, <2>3 DEF TotalOn
<1>4. PICK f : f = [i \in S |-> Cardinality(Before(S, R, i))]
  OBVIOUS
<1>5. PICK T : T = 0..(c - 1)
  OBVIOUS
<1>6. f \in Injection(S, T)
  BY <1>2, <1>3, <1>4, <1>5 DEF Injection, IsInjective
<1>7. IsFiniteSet(T) /\ Cardinality(T) = c
  BY <1>1, <1>5, FS_Interval
<1>8. f \in Surjection(S, T)
  BY <1>1, <1>6, <1>7, FS_Injection
<1>9. ASSUME NEW n \in 1..c
      PROVE  \E i \in S : Cardinality(Before(S, R, i)) = n - 1
  <2>1. n - 1 \in T
    BY <1>1, <1>5
  <2>2. PICK i \in S : f[i] = n - 1
    BY <1>8, <2>1 DEF Surjection
  <2>3. QED
    BY <1>4, <2>2
<1>10. QED
  BY <1>1, <1>2, <1>3, <1>9

\* The set in order: what InOrder computes, for the relation its operator stands for.
IsOrder(o, S, R) ==
    /\ DOMAIN o = 1..Cardinality(S)
    /\ \A n \in 1..Cardinality(S) : o[n] \in S /\ Cardinality(Before(S, R, o[n])) = n - 1

LEMMA OrderIs ==
    ASSUME NEW S, NEW R, IsFiniteSet(S), TotalOn(S, R), NEW o, IsOrder(o, S, R)
    PROVE  /\ Cardinality(S) \in Nat /\ DOMAIN o = 1..Cardinality(S) /\ \A n \in DOMAIN o : o[n] \in S
           /\ \A i \in S : \E n \in 1..Cardinality(S) : o[n] = i
           /\ \A m, n \in 1..Cardinality(S) : m < n => <<o[m], o[n]>> \in R
<1>1. PICK c \in Nat : c = Cardinality(S)
  BY FS_CardinalityType
<1>2. ASSUME NEW n \in 1..c
      PROVE  o[n] \in S /\ Cardinality(Before(S, R, o[n])) = n - 1
  BY <1>1 DEF IsOrder
<1>3. DOMAIN o = 1..c /\ \A n \in DOMAIN o : o[n] \in S
  BY <1>1, <1>2 DEF IsOrder
<1>4. ASSUME NEW i \in S
      PROVE  \E n \in 1..c : o[n] = i
  <2>1. PICK n : n = Cardinality(Before(S, R, i)) + 1
    OBVIOUS
  <2>2. n \in 1..c /\ n - 1 = Cardinality(Before(S, R, i))
    BY <1>1, <2>1, PlacesAreTaken
  <2>3. o[n] = i
    BY <1>2, <2>2, PlacesAreTaken
  <2>4. QED
    BY <2>2, <2>3
<1>5. ASSUME NEW m \in 1..c, NEW n \in 1..c, m < n
      PROVE  <<o[m], o[n]>> \in R
  <2>1. o[m] \in S /\ o[n] \in S /\ o[m] # o[n]
    BY <1>2, <1>5
  <2>2. <<o[n], o[m]>> \notin R
    <3>1. ASSUME <<o[n], o[m]>> \in R
          PROVE  FALSE
      <4>1. Cardinality(Before(S, R, o[n])) < Cardinality(Before(S, R, o[m]))
        BY <2>1, <3>1, FewerBefore
      <4>2. QED
        BY <1>2, <1>5, <4>1
    <3>2. QED
      BY <3>1
  <2>3. QED
    BY <2>1, <2>2 DEF TotalOn
<1>6. QED
  BY <1>1, <1>3, <1>4, <1>5

-----------------------------------------------------------------------------
(* Loops. *)

\* The steps lead from one set of values to the next, and a loop goes through them.
Leads(N, T, next) == \A i \in 1..N : \A t \in T[i - 1] : next[<<i, t>>] \in T[i]
Loop(N, T, start, next, g) ==
    /\ DOMAIN g = 0..N /\ g[0] = start
    /\ \A i \in 1..N : g[i - 1] \in T[i - 1] /\ g[i] = next[<<i, g[i - 1]>>]

LEMMA LoopExists ==
    ASSUME NEW N \in Nat, NEW T, NEW start, start \in T[0], NEW next, Leads(N, T, next)
    PROVE  \E g : Loop(N, T, start, next, g)
<1> DEFINE Runs(n, g) == /\ DOMAIN g = 0..n /\ g[0] = start
                         /\ \A i \in 1..n : g[i - 1] \in T[i - 1] /\ g[i] = next[<<i, g[i - 1]>>]
           None == {n \in Nat : n <= N /\ ~\E g : Runs(n, g) /\ g[n] \in T[n]}
<1>1. CASE None = {}
  <2>1. \E g : Runs(N, g) /\ g[N] \in T[N]
    BY <1>1
  <2> QED BY <2>1 DEF Loop
<1>2. CASE None # {}
  <2>1. PICK n \in None : \A m \in None : n <= m
    <3> HIDE DEF None
    <3>1. None \subseteq Nat
      BY DEF None
    <3> QED BY <1>2, <3>1, LeastElement
  <2>2. n # 0
    <3>1. PICK g : g = [i \in 0..0 |-> start]
      OBVIOUS
    <3>2. Runs(0, g) /\ g[0] \in T[0]
      BY <3>1
    <3> QED BY <2>1, <3>2
  <2>3. n - 1 \in Nat /\ n \in 1..N /\ n - 1 \notin None
    BY <2>1, <2>2
  <2>4. PICK g : Runs(n - 1, g) /\ g[n - 1] \in T[n - 1]
    BY <2>3
  <2>5. PICK h : h = [i \in 0..n |-> IF i = n THEN next[<<n, g[n - 1]>>] ELSE g[i]]
    OBVIOUS
  <2>6. h[n - 1] = g[n - 1] /\ h[0] = g[0] /\ h[n] = next[<<n, g[n - 1]>>] /\ DOMAIN h = 0..n
    BY <2>2, <2>3, <2>5
  <2>7. ASSUME NEW i \in 1..n
        PROVE  h[i - 1] \in T[i - 1] /\ h[i] = next[<<i, h[i - 1]>>]
    <3>1. CASE i = n
      BY <2>4, <2>6, <3>1
    <3>2. CASE i # n
      <4>1. i \in 1..(n - 1) /\ h[i] = g[i] /\ h[i - 1] = g[i - 1]
        BY <2>3, <2>5, <3>2
      <4> QED BY <2>4, <4>1
    <3> QED BY <3>1, <3>2
  <2>8. Runs(n, h)
    BY <2>4, <2>6, <2>7
  <2>9. h[n] \in T[n]
    BY <2>3, <2>4, <2>6 DEF Leads
  <2> QED BY <2>1, <2>8, <2>9
<1> QED BY <1>1, <1>2

\* What each step keeps holds all along.
LEMMA LoopKeeps ==
    ASSUME NEW N \in Nat, NEW T, NEW g, g[0] \in T[0],
           \A i \in 1..N : g[i - 1] \in T[i - 1] => g[i] \in T[i]
    PROVE  \A i \in 0..N : g[i] \in T[i]
<1> DEFINE None == {n \in Nat : n <= N /\ g[n] \notin T[n]}
<1>1. CASE None # {}
  <2>1. PICK n \in None : \A m \in None : n <= m
    <3> HIDE DEF None
    <3>1. None \subseteq Nat
      BY DEF None
    <3> QED BY <1>1, <3>1, LeastElement
  <2>2. n \in 1..N /\ n - 1 \in Nat /\ n - 1 \notin None
    BY <2>1
  <2> QED BY <2>1, <2>2
<1> QED BY <1>1

-----------------------------------------------------------------------------
(* The files in order. *)

Files == 1..FileCount
Prompts == [files : Seq(Files), tokens : Nat]

DiffTypes ==
    /\ step \in {"idle", "fetch", "measure", "prune", "group", "ask", "done", "failed"}
    /\ model \in DOMAIN Limits
    /\ changes \in [Files -> FileKinds]
    /\ diffFiles \in SUBSET Files
    /\ measured \in [Files -> Int]
    /\ diffTool \in DiffTools
    /\ promptTokens \in Nat
    /\ prompts \in Seq(Prompts)

\* Each element of the set once.
Listing(o, S) == o \in Seq(S) /\ IsInjective(o) /\ Range(o) = S

LEMMA OrderLists ==
    ASSUME NEW S, NEW R, IsFiniteSet(S), TotalOn(S, R), NEW o, IsOrder(o, S, R),
           o = [n \in 1..Cardinality(S) |-> o[n]]
    PROVE  Listing(o, S)
<1>1. PICK c \in Nat : c = Cardinality(S)
  BY FS_CardinalityType
<1>2. /\ \A n \in 1..c : o[n] \in S
      /\ \A i \in S : \E n \in 1..c : o[n] = i
      /\ \A m, n \in 1..c : m < n => <<o[m], o[n]>> \in R
  BY <1>1, OrderIs
<1>3. o \in Seq(S) /\ DOMAIN o = 1..c
  BY <1>1, <1>2
<1>4. ASSUME NEW m \in 1..c, NEW n \in 1..c, o[m] = o[n]
      PROVE  m = n
  <2>1. o[m] \in S /\ ~(<<o[m], o[m]>> \in R)
    BY <1>2 DEF TotalOn
  <2>2. ~(m < n) /\ ~(n < m)
    BY <1>2, <1>4, <2>1
  <2> QED BY <2>2
<1>5. IsInjective(o)
  BY <1>3, <1>4 DEF IsInjective
<1>6. Range(o) = S
  BY <1>2, <1>3 DEF Range
<1> QED BY <1>3, <1>5, <1>6 DEF Listing

LEMMA GroupIs ==
    ASSUME NEW f
    PROVE  Group(f) \in Int
<1>1. Languages \in Seq(Range(Languages))
  BY BudgetAssumption
<1>2. DOMAIN Languages = 1..Len(Languages) /\ Len(Languages) \in Nat
  BY <1>1
<1>3. CASE Kind(f).lang \in Range(Languages)
  <2>1. PICK n : n = Group(f)
    OBVIOUS
  <2>2. \E k \in DOMAIN Languages : Languages[k] = Kind(f).lang
    BY <1>3 DEF Range
  <2>3. n \in DOMAIN Languages
    BY <1>3, <2>1, <2>2 DEF Group
  <2> QED BY <1>2, <2>1, <2>3
<1>4. CASE Kind(f).lang \notin Range(Languages)
  BY <1>2, <1>4 DEF Group
<1> QED BY <1>3, <1>4

LEMMA FinitelyManyFiles ==
    ASSUME NEW S \in SUBSET Files
    PROVE  IsFiniteSet(S) /\ Cardinality(S) \in Nat
<1>1. 1 \in Int /\ FileCount \in Int
  BY BudgetAssumption
<1>2. IsFiniteSet(1..FileCount)
  BY <1>1, FS_Interval
<1>3. IsFiniteSet(S)
  BY <1>2, FS_Subset DEF Files
<1> QED BY <1>3, FS_CardinalityType

LEMMA ByLanguageLists ==
    ASSUME NEW S \in SUBSET Files
    PROVE  Listing(InOrder(S, ByLanguage), S)
<1>1. IsFiniteSet(S)
  BY FinitelyManyFiles
<1>2. PICK R : R = {w \in Files \X Files : ByLanguage(w[1], w[2])}
  OBVIOUS
<1>3. TotalOn(S, R)
  <2>1. \A f \in Files : f \in Int /\ Group(f) \in Int
    BY GroupIs, BudgetAssumption DEF Files
  <2>2. \A f, g \in S : <<f, g>> \in R <=> Group(f) < Group(g) \/ (Group(f) = Group(g) /\ f < g)
    BY <1>2 DEF ByLanguage
  <2> QED BY <2>1, <2>2 DEF TotalOn
<1>4. \A f \in S : Before(S, R, f) = {g \in S : ByLanguage(g, f)}
  BY <1>2 DEF Before
<1>5. \A n \in 1..Cardinality(S) : \E f \in S : Cardinality(Before(S, R, f)) = n - 1
  BY <1>1, <1>3, PlacesAreTaken
<1>6. PICK o : o = InOrder(S, ByLanguage)
  OBVIOUS
<1>7. ASSUME NEW n \in 1..Cardinality(S)
      PROVE  o[n] \in S /\ Cardinality(Before(S, R, o[n])) = n - 1
  <2>1. \E f \in S : Cardinality({g \in S : ByLanguage(g, f)}) = n - 1
    BY <1>4, <1>5
  <2>2. o[n] = CHOOSE f \in S : Cardinality({g \in S : ByLanguage(g, f)}) = n - 1
    BY <1>6 DEF InOrder
  <2> QED BY <1>4, <2>1, <2>2
<1>8. o = [n \in 1..Cardinality(S) |-> o[n]]
  <2> DEFINE place(n) == CHOOSE f \in S : Cardinality({g \in S : ByLanguage(g, f)}) = n - 1
  <2>1. o = [n \in 1..Cardinality(S) |-> place(n)]
    BY <1>6 DEF InOrder
  <2> HIDE DEF place
  <2> QED BY <2>1
<1> QED BY <1>1, <1>3, <1>6, <1>7, <1>8, OrderLists, ZenonT(40) DEF IsOrder

LEMMA LargerFirstLists ==
    ASSUME DiffTypes, NEW S \in SUBSET Files
    PROVE  Listing(InOrder(S, LargerFirst), S)
<1>1. IsFiniteSet(S)
  BY FinitelyManyFiles
<1>2. PICK R : R = {w \in Files \X Files : LargerFirst(w[1], w[2])}
  OBVIOUS
<1>3. TotalOn(S, R)
  <2>1. \A f \in Files : f \in Int /\ Group(f) \in Int /\ measured[f] \in Int
    BY GroupIs, BudgetAssumption DEF Files, DiffTypes
  <2>2. \A f, g \in S : <<f, g>> \in R <=>
            \/ Group(f) < Group(g)
            \/ Group(f) = Group(g) /\ (measured[f] > measured[g] \/ (measured[f] = measured[g] /\ f < g))
    BY <1>2 DEF LargerFirst
  <2> QED BY <2>1, <2>2 DEF TotalOn
<1>4. \A f \in S : Before(S, R, f) = {g \in S : LargerFirst(g, f)}
  BY <1>2 DEF Before
<1>5. \A n \in 1..Cardinality(S) : \E f \in S : Cardinality(Before(S, R, f)) = n - 1
  BY <1>1, <1>3, PlacesAreTaken
<1>6. PICK o : o = InOrder(S, LargerFirst)
  OBVIOUS
<1>7. ASSUME NEW n \in 1..Cardinality(S)
      PROVE  o[n] \in S /\ Cardinality(Before(S, R, o[n])) = n - 1
  <2>1. \E f \in S : Cardinality({g \in S : LargerFirst(g, f)}) = n - 1
    BY <1>4, <1>5
  <2>2. o[n] = CHOOSE f \in S : Cardinality({g \in S : LargerFirst(g, f)}) = n - 1
    BY <1>6 DEF InOrder
  <2> QED BY <1>4, <2>1, <2>2
<1>8. o = [n \in 1..Cardinality(S) |-> o[n]]
  <2> DEFINE place(n) == CHOOSE f \in S : Cardinality({g \in S : LargerFirst(g, f)}) = n - 1
  <2>1. o = [n \in 1..Cardinality(S) |-> place(n)]
    BY <1>6 DEF InOrder
  <2> HIDE DEF place
  <2> QED BY <2>1
<1> QED BY <1>1, <1>3, <1>6, <1>7, <1>8, OrderLists, ZenonT(40) DEF IsOrder

-----------------------------------------------------------------------------
(* Tokens. *)

LEMMA Sizes == {Soft, Hard, Delta, Wrap} \subseteq Nat /\ Hard + Wrap <= Soft
  BY BudgetAssumption

LEMMA TokensAre ==
    ASSUME DiffTypes
    PROVE  /\ Limit \in Nat /\ promptTokens \in Nat
           /\ \A f \in Files :
                /\ Kind(f).type \in FileTypes /\ Kind(f).plain \in Nat /\ Kind(f).cut \in Nat
                /\ WideTokens(f) \in Nat /\ CutTokens(f) \in Nat /\ FinalTokens(f) \in Nat
                /\ CutTokens(f) = 0 => Kind(f).cut = 0
                /\ FinalTokens(f) <= CutTokens(f) + Wrap
                /\ GroupTokens(f) \in Nat
                /\ GroupTokens(f) # 0 => GroupTokens(f) <= Room
<1>1. Limit \in Nat
  BY BudgetAssumption DEF DiffTypes, Limit
<1>2. ASSUME NEW f \in Files
      PROVE  Kind(f).type \in FileTypes /\ Kind(f).plain \in Nat /\ Kind(f).cut \in Nat /\ Kind(f).wide \in Nat
  <2>1. Kind(f) \in FileKinds
    BY DEF DiffTypes, Kind
  <2> QED BY <2>1, BudgetAssumption
<1>3. ASSUME NEW f \in Files
      PROVE  /\ WideTokens(f) \in Nat /\ CutTokens(f) \in Nat /\ FinalTokens(f) \in Nat
             /\ CutTokens(f) = 0 => Kind(f).cut = 0
             /\ FinalTokens(f) <= CutTokens(f) + Wrap
  BY <1>2, Sizes DEF WideTokens, CutTokens, FinalTokens
<1>4. ASSUME NEW f \in Files
      PROVE  GroupTokens(f) \in Nat /\ (GroupTokens(f) # 0 => GroupTokens(f) <= Room)
  <2>1. Room \in Int
    BY <1>1, Sizes DEF Room, DiffTypes
  <2> QED BY <1>3, <2>1 DEF GroupTokens, TooLarge
<1> QED BY <1>1, <1>2, <1>3, <1>4 DEF DiffTypes

LEMMA AppendIs ==
    ASSUME NEW X, NEW s \in Seq(X), NEW x \in X
    PROVE  /\ Append(s, x) \in Seq(X) /\ Append(s, x) # <<>>
           /\ Range(Append(s, x)) = Range(s) \cup {x}
           /\ IsInjective(s) /\ x \notin Range(s) => IsInjective(Append(s, x))
<1>1. PICK t : t = Append(s, x)
  OBVIOUS
<1>2. /\ t \in Seq(X) /\ Len(t) = Len(s) + 1 /\ Len(s) \in Nat /\ DOMAIN s = 1..Len(s)
      /\ DOMAIN t = 1..(Len(s) + 1) /\ t[Len(s) + 1] = x
      /\ \A i \in 1..Len(s) : t[i] = s[i]
  BY <1>1
<1>3. Range(t) = Range(s) \cup {x}
  <2>1. \A i \in DOMAIN t : t[i] \in Range(s) \cup {x}
    <3> SUFFICES ASSUME NEW i \in DOMAIN t PROVE t[i] \in Range(s) \cup {x}
      OBVIOUS
    <3>1. i = Len(s) + 1 \/ i \in 1..Len(s)
      BY <1>2
    <3> QED BY <1>2, <3>1 DEF Range
  <2>2. x \in Range(t)
    <3>1. Len(s) + 1 \in DOMAIN t
      BY <1>2
    <3> QED BY <1>2, <3>1 DEF Range
  <2>3. \A i \in DOMAIN s : i \in DOMAIN t /\ s[i] = t[i]
    BY <1>2
  <2> QED BY <2>1, <2>2, <2>3 DEF Range
<1>4. ASSUME IsInjective(s), x \notin Range(s)
      PROVE  IsInjective(t)
  <2>1. ASSUME NEW i \in DOMAIN t, NEW j \in DOMAIN t, t[i] = t[j]
        PROVE  i = j
    <3>1. \A k \in 1..Len(s) : s[k] # x
      BY <1>2, <1>4 DEF Range
    <3>2. CASE i \in 1..Len(s) /\ j \in 1..Len(s)
      BY <1>2, <1>4, <2>1, <3>2 DEF IsInjective
    <3>3. CASE ~(i \in 1..Len(s) /\ j \in 1..Len(s))
      BY <1>2, <2>1, <3>1, <3>3
    <3> QED BY <3>2, <3>3
  <2> QED BY <2>1 DEF IsInjective
<1> QED BY <1>1, <1>2, <1>3, <1>4

\* The elements a loop has come to.
Seen(s, i) == {s[j] : j \in 1..i}

LEMMA SeenIs ==
    ASSUME NEW X, NEW s \in Seq(X), IsInjective(s)
    PROVE  /\ Seen(s, 0) = {} /\ Seen(s, Len(s)) = Range(s)
           /\ \A i \in 1..Len(s) : s[i] \in X /\ s[i] \notin Seen(s, i - 1) /\ Seen(s, i) = Seen(s, i - 1) \cup {s[i]}
<1>1. Len(s) \in Nat /\ DOMAIN s = 1..Len(s) /\ \A i \in 1..Len(s) : s[i] \in X
  OBVIOUS
<1>2. Seen(s, 0) = {} /\ Seen(s, Len(s)) = Range(s)
  BY <1>1 DEF Seen, Range
<1>3. ASSUME NEW i \in 1..Len(s)
      PROVE  s[i] \notin Seen(s, i - 1) /\ Seen(s, i) = Seen(s, i - 1) \cup {s[i]}
  <2>1. \A j \in 1..(i - 1) : j \in DOMAIN s /\ j # i /\ s[j] # s[i]
    BY <1>1 DEF IsInjective
  <2>2. i \in 1..i /\ \A j : j \in 1..i <=> j \in 1..(i - 1) \/ j = i
    BY <1>1
  <2> QED BY <2>1, <2>2 DEF Seen
<1> QED BY <1>1, <1>2, <1>3

-----------------------------------------------------------------------------
(* One prompt: what generate_full_patch keeps while it goes through the files. *)

Packs == [files : Seq(Files), rest : Seq(Files), tokens : Nat]

\* After the files D: each is packed or waits, once, unless it is empty or the prompt was
\* full before any; what is not packed has no room any more.
PackHas(acc, D) ==
    /\ IsInjective(acc.files) /\ IsInjective(acc.rest)
    /\ Range(acc.files) \subseteq D /\ Range(acc.rest) \subseteq D /\ Range(acc.files) \cap Range(acc.rest) = {}
    /\ acc.tokens >= promptTokens
    /\ acc.tokens <= Limit - Hard \/ (acc.files = <<>> /\ acc.tokens = promptTokens)
    /\ \A f \in D : f \in Range(acc.files) \/ Kind(f).cut = 0 \/ acc.tokens + CutTokens(f) > Limit - Soft
    /\ \A f \in D : \/ f \in Range(acc.files) \cup Range(acc.rest)
                    \/ Kind(f).cut = 0
                    \/ promptTokens > Limit - Hard

LEMMA PackStepKeeps ==
    ASSUME DiffTypes, NEW D \in SUBSET Files, NEW acc \in Packs, PackHas(acc, D), NEW f \in Files, f \notin D
    PROVE  PackStep(acc, f) \in Packs /\ PackHas(PackStep(acc, f), D \cup {f})
<1>1. /\ Limit \in Nat /\ promptTokens \in Nat /\ Soft \in Nat /\ Hard \in Nat /\ Wrap \in Nat
      /\ Hard + Wrap <= Soft
      /\ \A g \in Files : /\ Kind(g).cut \in Nat /\ CutTokens(g) \in Nat /\ FinalTokens(g) \in Nat
                          /\ CutTokens(g) = 0 => Kind(g).cut = 0
                          /\ FinalTokens(g) <= CutTokens(g) + Wrap
  BY TokensAre, Sizes
<1>2. acc.files \in Seq(Files) /\ acc.rest \in Seq(Files) /\ acc.tokens \in Nat
  BY DEF Packs
<1>3. f \notin Range(acc.files) /\ f \notin Range(acc.rest)
  BY DEF PackHas
<1>4. CASE acc.tokens > Limit - Hard
  <2>1. PackStep(acc, f) = acc
    BY <1>4 DEF PackStep
  <2>2. promptTokens > Limit - Hard /\ acc.tokens + CutTokens(f) > Limit - Soft
    BY <1>1, <1>2, <1>4 DEF PackHas
  <2> QED BY <2>1, <2>2 DEF PackHas
<1>5. CASE ~(acc.tokens > Limit - Hard) /\ acc.tokens + CutTokens(f) > Limit - Soft
  <2>1. PICK t : t = Append(acc.rest, f)
    OBVIOUS
  <2>2. t \in Seq(Files) /\ Range(t) = Range(acc.rest) \cup {f} /\ IsInjective(t)
    BY <1>2, <1>3, <2>1, AppendIs DEF PackHas
  <2>3. PICK b : b = PackStep(acc, f)
    OBVIOUS
  <2>4. b = [acc EXCEPT !.rest = t]
    BY <1>5, <2>1, <2>3 DEF PackStep
  <2>5. b \in Packs /\ b.files = acc.files /\ b.rest = t /\ b.tokens = acc.tokens
    BY <2>2, <2>4 DEF Packs
  <2>6. PackHas(b, D \cup {f})
    BY <1>3, <1>5, <2>2, <2>5 DEF PackHas
  <2> QED BY <2>3, <2>5, <2>6
<1>6. CASE ~(acc.tokens > Limit - Hard) /\ ~(acc.tokens + CutTokens(f) > Limit - Soft) /\ CutTokens(f) = 0
  <2>1. PackStep(acc, f) = acc /\ Kind(f).cut = 0
    BY <1>1, <1>6 DEF PackStep
  <2> QED BY <2>1 DEF PackHas
<1>7. CASE ~(acc.tokens > Limit - Hard) /\ ~(acc.tokens + CutTokens(f) > Limit - Soft) /\ CutTokens(f) # 0
  <2>1. PICK t : t = Append(acc.files, f)
    OBVIOUS
  <2>2. t \in Seq(Files) /\ Range(t) = Range(acc.files) \cup {f} /\ IsInjective(t)
    BY <1>2, <1>3, <2>1, AppendIs DEF PackHas
  <2>3. PICK b : b = PackStep(acc, f)
    OBVIOUS
  <2>4. PICK n \in Nat : n = acc.tokens + FinalTokens(f)
    BY <1>1, <1>2
  <2>5. b \in Packs /\ b.files = t /\ b.rest = acc.rest /\ b.tokens = acc.tokens + FinalTokens(f)
    <3>1. b = [acc EXCEPT !.files = t, !.tokens = n]
      BY <1>7, <2>1, <2>3, <2>4 DEF PackStep
    <3> QED BY <1>2, <2>2, <2>4, <3>1 DEF Packs
  <2>6. b.tokens >= promptTokens /\ b.tokens >= acc.tokens /\ b.tokens <= Limit - Hard
    <3>1. acc.tokens >= promptTokens
      BY DEF PackHas
    <3>2. PICK a \in Nat, c \in Nat, k \in Nat, m \in Nat :
              a = acc.tokens /\ c = CutTokens(f) /\ k = FinalTokens(f) /\ m = Limit
      BY <1>1, <1>2
    <3>3. k <= c + Wrap /\ ~(a + c > m - Soft) /\ b.tokens = a + k /\ a >= promptTokens
      BY <1>1, <1>7, <2>5, <3>1, <3>2
    <3>4. a + k <= m - Hard /\ a + k >= a /\ a + k >= promptTokens
      BY <1>1, <3>3
    <3> QED BY <3>2, <3>3, <3>4
  <2>7. ASSUME NEW g \in D \cup {f}
        PROVE  /\ g \in Range(t) \/ Kind(g).cut = 0 \/ b.tokens + CutTokens(g) > Limit - Soft
               /\ g \in Range(t) \cup Range(acc.rest) \/ Kind(g).cut = 0 \/ promptTokens > Limit - Hard
    <3>1. CASE g = f
      BY <2>2, <3>1
    <3>2. CASE g \in D
      <4>1. /\ g \in Range(acc.files) \/ Kind(g).cut = 0 \/ acc.tokens + CutTokens(g) > Limit - Soft
            /\ g \in Range(acc.files) \cup Range(acc.rest) \/ Kind(g).cut = 0 \/ promptTokens > Limit - Hard
        BY <3>2 DEF PackHas
      <4>2. CutTokens(g) \in Nat
        BY <1>1, <3>2
      <4>3. acc.tokens + CutTokens(g) > Limit - Soft => b.tokens + CutTokens(g) > Limit - Soft
        BY <1>1, <1>2, <2>5, <2>6, <4>2
      <4> QED BY <2>2, <4>1, <4>3
    <3> QED BY <3>1, <3>2
  <2>8. PackHas(b, D \cup {f})
    BY <1>3, <2>2, <2>5, <2>6, <2>7 DEF PackHas
  <2> QED BY <2>3, <2>5, <2>8
<1> QED BY <1>4, <1>5, <1>6, <1>7

LEMMA FullPatchIs ==
    ASSUME DiffTypes, NEW s \in Seq(Files), IsInjective(s)
    PROVE  FullPatch(s) \in Packs /\ PackHas(FullPatch(s), Range(s))
<1> DEFINE start == [files |-> <<>>, rest |-> <<>>, tokens |-> promptTokens]
           T == [i \in 0..Len(s) |-> {acc \in Packs : PackHas(acc, Seen(s, i))}]
           loop(g) == [i \in 0..Len(s) |-> IF i = 0 THEN start ELSE PackStep(g[i - 1], s[i])]
<1>1. Len(s) \in Nat
  OBVIOUS
<1>2. start \in T[0]
  <2>1. start \in Packs
    BY DEF DiffTypes, Packs
  <2>2. PackHas(start, {})
    <3>1. Range(<<>>) = {} /\ IsInjective(<<>>)
      BY DEF Range, IsInjective
    <3>2. promptTokens \in Nat
      BY DEF DiffTypes
    <3>3. start.files = <<>> /\ start.rest = <<>> /\ start.tokens = promptTokens
      OBVIOUS
    <3> HIDE DEF start
    <3> QED BY <3>1, <3>2, <3>3 DEF PackHas
  <2> HIDE DEF start
  <2>3. Seen(s, 0) = {} /\ 0 \in 0..Len(s)
    BY <1>1, SeenIs
  <2> QED BY <2>1, <2>2, <2>3
<1>3. ASSUME NEW i \in 1..Len(s), NEW t \in T[i - 1]
      PROVE  PackStep(t, s[i]) \in T[i]
  <2>1. i - 1 \in 0..Len(s) /\ i \in 0..Len(s) /\ t \in Packs /\ PackHas(t, Seen(s, i - 1))
    BY <1>1
  <2>2. s[i] \in Files /\ s[i] \notin Seen(s, i - 1) /\ Seen(s, i) = Seen(s, i - 1) \cup {s[i]}
    BY SeenIs
  <2>3. Seen(s, i - 1) \in SUBSET Files
    BY <1>1 DEF Seen
  <2>4. PackStep(t, s[i]) \in Packs /\ PackHas(PackStep(t, s[i]), Seen(s, i))
    BY <2>1, <2>2, <2>3, PackStepKeeps
  <2> QED BY <2>1, <2>4
<1>4. \A i \in 0..Len(s) : T[i] \subseteq Packs
  OBVIOUS
<1>5. T[Len(s)] = {acc \in Packs : PackHas(acc, Range(s))}
  BY <1>1, SeenIs
<1> HIDE DEF start, T
<1>6. PICK next : next = [w \in (1..Len(s)) \X Packs |-> PackStep(w[2], s[w[1]])]
  OBVIOUS
<1>7. ASSUME NEW i \in 1..Len(s), NEW t \in T[i - 1]
      PROVE  next[<<i, t>>] = PackStep(t, s[i])
  <2>1. i - 1 \in 0..Len(s)
    BY <1>1
  <2>2. t \in Packs
    BY <1>4, <2>1
  <2> QED BY <1>6, <2>2
<1>8. \E g : g = loop(g)
  <2>1. \A i \in 1..Len(s) : \A t \in T[i - 1] : next[<<i, t>>] \in T[i]
    BY <1>3, <1>7
  <2>2. PICK g : /\ DOMAIN g = 0..Len(s) /\ g[0] = start
                 /\ \A i \in 1..Len(s) : g[i - 1] \in T[i - 1] /\ g[i] = next[<<i, g[i - 1]>>]
    <3>1. Leads(Len(s), T, next)
      BY <2>1 DEF Leads
    <3>2. \E g : Loop(Len(s), T, start, next, g)
      BY <1>1, <1>2, <3>1, LoopExists
    <3> QED BY <3>2 DEF Loop
  <2>3. PICK h : h = [i \in 0..Len(s) |-> g[i]]
    OBVIOUS
  <2>4. \A i \in 0..Len(s) : h[i] = IF i = 0 THEN start ELSE PackStep(h[i - 1], s[i])
    <3> SUFFICES ASSUME NEW i \in 0..Len(s)
                 PROVE  h[i] = IF i = 0 THEN start ELSE PackStep(h[i - 1], s[i])
      OBVIOUS
    <3>1. h[i] = g[i] /\ (i # 0 => i \in 1..Len(s) /\ h[i - 1] = g[i - 1])
      BY <1>1, <2>3
    <3> QED BY <1>7, <2>2, <3>1
  <2>5. h = loop(h)
    BY <2>3, <2>4
  <2> QED BY <2>5
<1>9. PICK acc : acc = (CHOOSE g : g = loop(g)) /\ FullPatch(s) = acc[Len(s)]
  BY DEF FullPatch, Over, start
<1>10. acc = loop(acc)
  BY <1>8, <1>9
<1>11. acc[0] = start /\ \A i \in 1..Len(s) : acc[i] = PackStep(acc[i - 1], s[i])
  <2>1. \A i \in 0..Len(s) : acc[i] = IF i = 0 THEN start ELSE PackStep(acc[i - 1], s[i])
    <3> HIDE DEF loop
    <3>1. \A g : g = loop(g) => \A i \in 0..Len(s) : g[i] = IF i = 0 THEN start ELSE PackStep(g[i - 1], s[i])
      BY DEF loop
    <3> QED BY <1>10, <3>1
  <2> QED BY <1>1, <2>1
<1>12. \A i \in 0..Len(s) : acc[i] \in T[i]
  BY <1>1, <1>2, <1>3, <1>11, LoopKeeps
<1> QED BY <1>1, <1>5, <1>9, <1>12

-----------------------------------------------------------------------------
(* Several prompts: the iterations of pr_generate_compressed_diff. *)

Shown(ps) == UNION {Range(ps[k].files) : k \in DOMAIN ps}
Once(ps) ==
    \A k, l \in DOMAIN ps : \A i \in DOMAIN ps[k].files, j \in DOMAIN ps[l].files :
        ps[k].files[i] = ps[l].files[j] => k = l /\ i = j

LEMMA AppendPrompt ==
    ASSUME NEW ps \in Seq(Prompts), Once(ps), NEW p \in Prompts, IsInjective(p.files),
           Range(p.files) \cap Shown(ps) = {}
    PROVE  /\ Append(ps, p) \in Seq(Prompts) /\ Len(Append(ps, p)) = Len(ps) + 1
           /\ Once(Append(ps, p)) /\ Shown(Append(ps, p)) = Shown(ps) \cup Range(p.files)
<1>1. PICK qs : qs = Append(ps, p)
  OBVIOUS
<1>2. PICK n \in Nat : n = Len(ps)
  OBVIOUS
<1>3. /\ qs \in Seq(Prompts) /\ Len(qs) = n + 1 /\ DOMAIN ps = 1..n
      /\ DOMAIN qs = 1..(n + 1) /\ qs[n + 1] = p
      /\ \A k \in 1..n : qs[k] = ps[k]
  BY <1>1, <1>2
<1>4. Shown(qs) = Shown(ps) \cup Range(p.files)
  <2>1. ASSUME NEW k \in DOMAIN qs, NEW f \in Range(qs[k].files)
        PROVE  f \in Shown(ps) \cup Range(p.files)
    <3>1. k = n + 1 \/ k \in 1..n
      BY <1>3
    <3> QED BY <1>3, <2>1, <3>1 DEF Shown
  <2>2. ASSUME NEW k \in DOMAIN ps
        PROVE  Range(ps[k].files) \subseteq Shown(qs)
    <3>1. k \in DOMAIN qs /\ qs[k] = ps[k]
      BY <1>3
    <3> QED BY <3>1 DEF Shown
  <2>3. Range(p.files) \subseteq Shown(qs)
    <3>1. n + 1 \in DOMAIN qs
      BY <1>3
    <3> QED BY <1>3, <3>1 DEF Shown
  <2>4. Shown(qs) \subseteq Shown(ps) \cup Range(p.files)
    <3>1. \A f \in Shown(qs) : \E k \in DOMAIN qs : f \in Range(qs[k].files)
      BY DEF Shown
    <3> QED BY <2>1, <3>1
  <2>5. Shown(ps) \subseteq Shown(qs)
    <3>1. \A f \in Shown(ps) : \E k \in DOMAIN ps : f \in Range(ps[k].files)
      BY DEF Shown
    <3> QED BY <2>2, <3>1
  <2> QED BY <2>3, <2>4, <2>5
<1>5. Once(qs)
  <2> SUFFICES ASSUME NEW k \in DOMAIN qs, NEW l \in DOMAIN qs, NEW i \in DOMAIN qs[k].files,
                      NEW j \in DOMAIN qs[l].files, qs[k].files[i] = qs[l].files[j]
               PROVE  k = l /\ i = j
    BY DEF Once
  <2>1. \A m \in 1..n : \A h \in DOMAIN ps[m].files, g \in DOMAIN p.files : ps[m].files[h] # p.files[g]
    <3> SUFFICES ASSUME NEW m \in 1..n, NEW h \in DOMAIN ps[m].files, NEW g \in DOMAIN p.files
                 PROVE  ps[m].files[h] # p.files[g]
      OBVIOUS
    <3>1. ps[m].files[h] \in Range(ps[m].files)
      BY DEF Range
    <3>2. ps[m].files[h] \in Shown(ps)
      BY <1>3, <3>1 DEF Shown
    <3>3. p.files[g] \in Range(p.files)
      BY DEF Range
    <3> QED BY <3>2, <3>3
  <2>2. CASE k \in 1..n /\ l \in 1..n
    <3>1. qs[k] = ps[k] /\ qs[l] = ps[l] /\ k \in DOMAIN ps /\ l \in DOMAIN ps
      BY <1>3, <2>2
    <3> QED BY <3>1 DEF Once
  <2>3. CASE k = n + 1 /\ l = n + 1
    BY <1>3, <2>3 DEF IsInjective
  <2>4. CASE k = n + 1 /\ l \in 1..n
    BY <1>3, <2>1, <2>4
  <2>5. CASE k \in 1..n /\ l = n + 1
    BY <1>3, <2>1, <2>5
  <2>6. (k \in 1..n \/ k = n + 1) /\ (l \in 1..n \/ l = n + 1)
    BY <1>3
  <2> QED BY <2>2, <2>3, <2>4, <2>5, <2>6
<1> QED BY <1>1, <1>2, <1>3, <1>4, <1>5

LEMMA FirstPrompt ==
    ASSUME NEW p \in Prompts, IsInjective(p.files)
    PROVE  <<p>> \in Seq(Prompts) /\ Once(<<p>>) /\ Shown(<<p>>) = Range(p.files)
<1>1. PICK ps : ps = <<>>
  OBVIOUS
<1>2. ps \in Seq(Prompts) /\ Once(ps) /\ Shown(ps) = {}
  BY <1>1 DEF Once, Shown
<1>3. Append(ps, p) = <<p>>
  BY <1>1
<1> QED BY <1>2, <1>3, AppendPrompt

\* With the files D, after n more iterations: what PackHas says, of all the prompts.
Rounds == [rest : Seq(Files), prompts : Seq(Prompts)]
RoundsHave(acc, n, D) ==
    /\ Len(acc.prompts) \in 1..(n + 1) /\ Once(acc.prompts) /\ IsInjective(acc.rest)
    /\ Shown(acc.prompts) \subseteq D /\ Range(acc.rest) \subseteq D
    /\ Shown(acc.prompts) \cap Range(acc.rest) = {}
    /\ \A k \in DOMAIN acc.prompts :
        LET p == acc.prompts[k]
        IN  p.tokens <= Limit - Hard \/ (p.files = <<>> /\ p.tokens = promptTokens)
    /\ \A f \in D : \/ f \in Shown(acc.prompts)
                    \/ Kind(f).cut = 0
                    \/ \A k \in DOMAIN acc.prompts : acc.prompts[k].tokens + CutTokens(f) > Limit - Soft
    /\ \A f \in D : \/ f \in Shown(acc.prompts) \cup Range(acc.rest)
                    \/ Kind(f).cut = 0
                    \/ promptTokens > Limit - Hard

LEMMA PackNextKeeps ==
    ASSUME DiffTypes, NEW D \in SUBSET Files, NEW n \in Nat, NEW i, NEW acc \in Rounds, RoundsHave(acc, n, D)
    PROVE  PackNext(acc, i) \in Rounds /\ RoundsHave(PackNext(acc, i), n + 1, D)
<1>1. acc.rest \in Seq(Files) /\ acc.prompts \in Seq(Prompts) /\ Len(acc.prompts) \in Nat
  BY DEF Rounds
<1>2. RoundsHave(acc, n + 1, D)
  <2>1. Len(acc.prompts) \in 1..(n + 1 + 1)
    BY DEF RoundsHave
  <2> QED BY <2>1 DEF RoundsHave
<1>3. CASE acc.rest = <<>>
  BY <1>2, <1>3 DEF PackNext
<1>4. CASE acc.rest # <<>>
  <2>1. PICK next : next = FullPatch(acc.rest)
    OBVIOUS
  <2>2. next \in Packs /\ PackHas(next, Range(acc.rest))
    BY <1>1, <2>1, FullPatchIs DEF RoundsHave
  <2>3. next.files \in Seq(Files) /\ next.rest \in Seq(Files) /\ next.tokens \in Nat
    BY <2>2 DEF Packs
  <2>4. /\ IsInjective(next.files) /\ IsInjective(next.rest)
        /\ Range(next.files) \subseteq Range(acc.rest) /\ Range(next.rest) \subseteq Range(acc.rest)
        /\ Range(next.files) \cap Range(next.rest) = {}
        /\ next.tokens >= promptTokens
        /\ next.tokens <= Limit - Hard \/ (next.files = <<>> /\ next.tokens = promptTokens)
        /\ \A f \in Range(acc.rest) :
            f \in Range(next.files) \/ Kind(f).cut = 0 \/ next.tokens + CutTokens(f) > Limit - Soft
        /\ \A f \in Range(acc.rest) :
            f \in Range(next.files) \cup Range(next.rest) \/ Kind(f).cut = 0 \/ promptTokens > Limit - Hard
    BY <2>2 DEF PackHas
  <2>5. PICK b : b = PackNext(acc, i)
    OBVIOUS
  <2>6. CASE next.files = <<>>
    <3>1. b = [rest |-> next.rest, prompts |-> acc.prompts]
      BY <1>4, <2>1, <2>5, <2>6 DEF PackNext
    <3>2. b \in Rounds /\ b.rest = next.rest /\ b.prompts = acc.prompts
      BY <1>1, <2>3, <3>1 DEF Rounds
    <3>3. Range(next.files) = {}
      BY <2>6 DEF Range
    <3>4. RoundsHave(b, n + 1, D)
      BY <1>2, <2>4, <3>2, <3>3 DEF RoundsHave
    <3> QED BY <2>5, <3>2, <3>4
  <2>7. CASE next.files # <<>>
    <3>1. PICK p : p = Prompt(next.files, next.tokens)
      OBVIOUS
    <3>2. p \in Prompts /\ p.files = next.files /\ p.tokens = next.tokens
      BY <2>3, <3>1 DEF Prompt, Prompts
    <3>3. PICK ps : ps = Append(acc.prompts, p)
      OBVIOUS
    <3>4. Range(p.files) \cap Shown(acc.prompts) = {} /\ IsInjective(p.files) /\ Once(acc.prompts)
      BY <2>4, <3>2 DEF RoundsHave
    <3>5. /\ ps \in Seq(Prompts) /\ Len(ps) = Len(acc.prompts) + 1
          /\ Once(ps) /\ Shown(ps) = Shown(acc.prompts) \cup Range(next.files)
      BY <1>1, <3>2, <3>3, <3>4, AppendPrompt
    <3>6. b = [rest |-> next.rest, prompts |-> ps]
      BY <1>4, <2>1, <2>5, <2>7, <3>1, <3>3 DEF PackNext
    <3>7. b \in Rounds /\ b.rest = next.rest /\ b.prompts = ps
      BY <2>3, <3>5, <3>6 DEF Rounds
    <3>8. ASSUME NEW k \in DOMAIN ps
          PROVE  (k \in DOMAIN acc.prompts /\ ps[k] = acc.prompts[k]) \/ ps[k] = p
      BY <1>1, <3>3
    <3>9. next.tokens <= Limit - Hard
      <4>1. next.files # <<>>
        BY <2>7
      <4> QED BY <2>4, <4>1
    <3>10. ASSUME NEW f \in D
           PROVE  \/ f \in Shown(ps)
                  \/ Kind(f).cut = 0
                  \/ \A k \in DOMAIN ps : ps[k].tokens + CutTokens(f) > Limit - Soft
      <4>1. CASE f \in Shown(acc.prompts) \/ Kind(f).cut = 0
        BY <3>5, <4>1
      <4>2. CASE f \notin Shown(acc.prompts) /\ Kind(f).cut # 0
        <5>1. \A k \in DOMAIN acc.prompts : acc.prompts[k].tokens + CutTokens(f) > Limit - Soft
          BY <4>2 DEF RoundsHave
        <5>2. f \in Range(acc.rest) \/ promptTokens > Limit - Hard
          BY <4>2 DEF RoundsHave
        <5>3. ~(promptTokens > Limit - Hard)
          <6>1. Limit \in Nat /\ promptTokens \in Nat /\ Hard \in Nat
            BY TokensAre, Sizes
          <6> QED BY <2>3, <2>4, <3>9, <6>1
        <5>4. f \in Range(next.files) \/ p.tokens + CutTokens(f) > Limit - Soft
          BY <2>4, <3>2, <4>2, <5>2, <5>3
        <5> QED BY <3>5, <3>8, <5>1, <5>4
      <4> QED BY <4>1, <4>2
    <3>11. RoundsHave(b, n + 1, D)
      <4>1. Len(ps) \in 1..(n + 1 + 1)
        BY <1>1, <3>5 DEF RoundsHave
      <4>2. Shown(ps) \subseteq D /\ Range(next.rest) \subseteq D /\ Shown(ps) \cap Range(next.rest) = {}
        BY <2>4, <3>5 DEF RoundsHave
      <4>3. ASSUME NEW k \in DOMAIN ps
            PROVE  ps[k].tokens <= Limit - Hard \/ (ps[k].files = <<>> /\ ps[k].tokens = promptTokens)
        BY <3>2, <3>8, <3>9 DEF RoundsHave
      <4>4. ASSUME NEW f \in D
            PROVE  f \in Shown(ps) \cup Range(next.rest) \/ Kind(f).cut = 0 \/ promptTokens > Limit - Hard
        BY <2>4, <3>5 DEF RoundsHave
      <4> QED BY <2>4, <3>5, <3>7, <3>10, <4>1, <4>2, <4>3, <4>4 DEF RoundsHave
    <3> QED BY <2>5, <3>7, <3>11
  <2> QED BY <2>6, <2>7
<1> QED BY <1>3, <1>4

DictFiles == {f \in Patched : ~Deleted(f)}

LEMMA FileDictIs ==
    ASSUME DiffTypes
    PROVE  DictFiles \in SUBSET Files /\ FileDict \in Seq(Files) /\ Listing(FileDict, DictFiles)
<1>1. DictFiles \in SUBSET Files
  BY DEF DictFiles, Patched, DiffTypes
<1>2. FileDict = InOrder(DictFiles, LargerFirst)
  BY DEF FileDict, DictFiles
<1>3. Listing(FileDict, DictFiles)
  BY <1>1, <1>2, LargerFirstLists
<1> QED BY <1>1, <1>3 DEF Listing

LEMMA PackedIs ==
    ASSUME DiffTypes, NEW large \in BOOLEAN
    PROVE  /\ Packed(large) \in Rounds /\ RoundsHave(Packed(large), MaxAiCalls - 2, DictFiles)
           /\ ~large => Len(Packed(large).prompts) = 1
<1>1. PICK N \in Nat : N = MaxAiCalls - 2
  BY BudgetAssumption
<1>2. PICK first : first = FullPatch(FileDict)
  OBVIOUS
<1>3. first \in Packs /\ PackHas(first, DictFiles) /\ DictFiles \in SUBSET Files
  BY <1>2, FileDictIs, FullPatchIs DEF Listing
<1>4. PICK p : p = Prompt(first.files, first.tokens)
  OBVIOUS
<1>5. p \in Prompts /\ p.files = first.files /\ p.tokens = first.tokens
  BY <1>3, <1>4 DEF Packs, Prompt, Prompts
<1>6. PICK ps : ps = <<p>>
  OBVIOUS
<1>7. ps \in Seq(Prompts) /\ Once(ps) /\ Shown(ps) = Range(first.files) /\ DOMAIN ps = {1} /\ ps[1] = p /\ Len(ps) = 1
  BY <1>3, <1>5, <1>6, FirstPrompt DEF PackHas
<1>8. PICK start : start = [rest |-> first.rest, prompts |-> ps]
  OBVIOUS
<1>9. start \in Rounds /\ start.prompts = ps /\ start.rest = first.rest
  BY <1>3, <1>7, <1>8 DEF Packs, Rounds
<1>10. RoundsHave(start, 0, DictFiles)
  <2>1. \A k \in DOMAIN ps : ps[k] = p
    BY <1>7
  <2> QED BY <1>3, <1>5, <1>7, <1>9, <2>1 DEF PackHas, RoundsHave
<1>11. PICK s : s = [i \in 1..(MaxAiCalls - 2) |-> i]
  OBVIOUS
<1>12. Len(s) = N
  BY <1>1, <1>11
<1>13. CASE ~large
  <2>1. Packed(large) = start
    BY <1>2, <1>4, <1>6, <1>8, <1>13 DEF Packed
  <2>2. RoundsHave(start, N, DictFiles)
    <3>1. Len(start.prompts) \in 1..(N + 1)
      <4>1. Len(start.prompts) = 1
        BY <1>7, <1>9
      <4>2. 1 \in 1..(N + 1)
        OBVIOUS
      <4> QED BY <4>1, <4>2
    <3> QED BY <1>10, <3>1, Zenon DEF RoundsHave
  <2> QED BY <1>1, <1>7, <1>9, <2>1, <2>2
<1>14. CASE large
  <2> DEFINE T == [i \in 0..N |-> {acc \in Rounds : RoundsHave(acc, i, DictFiles)}]
             loop(g) == [i \in 0..Len(s) |-> IF i = 0 THEN start ELSE PackNext(g[i - 1], s[i])]
  <2>1. start \in T[0]
    BY <1>9, <1>10
  <2>2. ASSUME NEW i \in 1..N, NEW t \in T[i - 1]
        PROVE  PackNext(t, s[i]) \in T[i]
    <3>1. i - 1 \in 0..N /\ i - 1 \in Nat /\ i - 1 + 1 = i /\ t \in Rounds /\ RoundsHave(t, i - 1, DictFiles)
      OBVIOUS
    <3>2. PackNext(t, s[i]) \in Rounds /\ RoundsHave(PackNext(t, s[i]), i - 1 + 1, DictFiles)
      BY <1>3, <3>1, PackNextKeeps
    <3> QED BY <3>1, <3>2
  <2>3. \A i \in 0..N : T[i] \subseteq Rounds
    OBVIOUS
  <2>4. T[N] = {acc \in Rounds : RoundsHave(acc, N, DictFiles)}
    OBVIOUS
  <2> HIDE DEF T
  <2>5. PICK next : next = [w \in (1..N) \X Rounds |-> PackNext(w[2], s[w[1]])]
    OBVIOUS
  <2>6. ASSUME NEW i \in 1..N, NEW t \in T[i - 1]
        PROVE  next[<<i, t>>] = PackNext(t, s[i])
    <3>1. i - 1 \in 0..N
      OBVIOUS
    <3>2. t \in Rounds
      BY <2>3, <3>1
    <3> QED BY <2>5, <3>2
  <2>7. \E g : g = loop(g)
    <3>1. Leads(N, T, next)
      BY <2>2, <2>6 DEF Leads
    <3>2. PICK g : Loop(N, T, start, next, g)
      BY <2>1, <3>1, LoopExists
    <3>3. PICK h : h = [i \in 0..Len(s) |-> g[i]]
      OBVIOUS
    <3>4. \A i \in 0..Len(s) : h[i] = IF i = 0 THEN start ELSE PackNext(h[i - 1], s[i])
      <4> SUFFICES ASSUME NEW i \in 0..Len(s)
                   PROVE  h[i] = IF i = 0 THEN start ELSE PackNext(h[i - 1], s[i])
        OBVIOUS
      <4>1. h[i] = g[i] /\ (i # 0 => i \in 1..N /\ h[i - 1] = g[i - 1])
        BY <1>12, <3>3
      <4> QED BY <2>6, <3>2, <4>1 DEF Loop
    <3>5. h = loop(h)
      BY <3>3, <3>4
    <3> QED BY <3>5
  <2>8. PICK acc : acc = (CHOOSE g : g = loop(g)) /\ Packed(large) = acc[Len(s)]
    BY <1>2, <1>4, <1>6, <1>8, <1>11, <1>14 DEF Packed, Over
  <2>9. acc[0] = start /\ \A i \in 1..N : acc[i] = PackNext(acc[i - 1], s[i])
    <3>1. acc = loop(acc)
      BY <2>7, <2>8
    <3>2. \A g : g = loop(g) => \A i \in 0..Len(s) : g[i] = IF i = 0 THEN start ELSE PackNext(g[i - 1], s[i])
      OBVIOUS
    <3> HIDE DEF loop
    <3>3. \A i \in 0..Len(s) : acc[i] = IF i = 0 THEN start ELSE PackNext(acc[i - 1], s[i])
      BY <3>1, <3>2
    <3> QED BY <1>12, <3>3
  <2>10. \A i \in 0..N : acc[i] \in T[i]
    BY <2>1, <2>2, <2>9, LoopKeeps
  <2>11. Packed(large) \in T[N]
    <3>1. N \in 0..N
      OBVIOUS
    <3> QED BY <1>12, <2>8, <2>10, <3>1
  <2> QED BY <1>1, <1>14, <2>4, <2>11
<1> QED BY <1>13, <1>14

-----------------------------------------------------------------------------
(* The names of the files that are left out. *)

Naming == [names : SUBSET Files, tokens : Nat]

LEMMA NameStepIs ==
    ASSUME DiffTypes, NEW acc \in Naming, acc.tokens <= Limit - Hard, NEW list \in Seq(Files), NEW b,
           b = NameStep(acc, list)
    PROVE  /\ b \in Naming /\ acc.names \subseteq b.names /\ b.names \subseteq acc.names \cup Range(list)
           /\ acc.tokens <= b.tokens /\ b.tokens <= Limit - Hard
           /\ Range(list) \subseteq b.names \/ b.tokens + 1 >= Limit - Hard
<1>1. PICK room \in Int : room = Limit - Hard - acc.tokens
  BY TokensAre, Sizes DEF Naming
<1>2. /\ Limit \in Nat /\ Hard \in Nat /\ acc.tokens \in Nat /\ acc.names \in SUBSET Files
      /\ Len(list) \in Nat /\ DOMAIN list = 1..Len(list) /\ \A i \in 1..Len(list) : list[i] \in Files
  BY TokensAre, Sizes DEF Naming
<1>3. PICK n : n = IF 1 + Len(list) <= room THEN Len(list) ELSE IF room > 1 THEN room - 1 ELSE 0
  OBVIOUS
<1>4. n \in Nat /\ n <= Len(list) /\ (n = Len(list) \/ n = 0 \/ n + 1 = room) /\ (n # 0 => n + 1 <= room)
      /\ (n = 0 => Len(list) = 0 \/ room <= 1)
  BY <1>1, <1>2, <1>3
<1>5. CASE list = <<>> \/ n = 0
  <2>1. b = acc
    BY <1>1, <1>3, <1>5 DEF NameStep
  <2>2. Range(list) \subseteq b.names \/ b.tokens + 1 >= Limit - Hard
    <3>1. CASE Len(list) = 0
      BY <1>2, <3>1 DEF Range
    <3>2. CASE Len(list) # 0
      <4>1. room <= 1
        BY <1>4, <1>5, <3>2
      <4> QED BY <1>1, <1>2, <2>1, <4>1
    <3> QED BY <3>1, <3>2
  <2> QED BY <1>2, <2>1, <2>2
<1>6. CASE list # <<>> /\ n # 0
  <2>1. PICK part : part = SubSeq(list, 1, n)
    OBVIOUS
  <2>2. Len(part) = n /\ DOMAIN part = 1..n /\ \A i \in 1..n : part[i] = list[i]
    BY <1>2, <1>4, <2>1
  <2>3. Range(part) \subseteq Range(list) /\ Range(list) \subseteq Files
    <3>1. \A i \in 1..n : i \in DOMAIN list /\ part[i] = list[i]
      <4>1. n \in Nat /\ n <= Len(list) /\ Len(list) \in Nat /\ DOMAIN list = 1..Len(list)
        BY <1>2, <1>4
      <4> QED BY <2>2, <4>1, SMTT(40)
    <3>2. Range(part) \subseteq Range(list)
      BY <2>2, <3>1 DEF Range
    <3>3. Range(list) \subseteq Files
      BY <1>2 DEF Range
    <3> QED BY <3>2, <3>3
  <2>4. n = Len(list) => Range(part) = Range(list)
    BY <1>2, <2>2, SMTT(40) DEF Range
  <2>5. PICK m \in Nat : m = acc.tokens + 1 + n
    <3>1. acc.tokens \in Nat /\ n \in Nat
      BY <1>2, <1>4
    <3>2. acc.tokens + 1 + n \in Nat
      BY <3>1
    <3> QED BY <3>2, SMTT(40)
  <2>6. b = [names |-> acc.names \cup Range(part), tokens |-> m]
    <3>1. b = NameAll(acc, part)
      BY <1>1, <1>3, <1>6, <2>1 DEF NameStep
    <3> QED BY <2>2, <2>5, <3>1 DEF NameAll
  <2>7. b.names = acc.names \cup Range(part) /\ b.tokens = m /\ b \in Naming
    BY <1>2, <2>3, <2>5, <2>6 DEF Naming
  <2>8. acc.tokens <= m /\ m <= Limit - Hard /\ (n # Len(list) => m + 1 >= Limit - Hard)
    BY <1>1, <1>2, <1>4, <1>6, <2>5, SMTT(40)
  <2> QED BY <2>3, <2>4, <2>7, <2>8
<1> QED BY <1>5, <1>6

LEMMA LeftOutIs ==
    ASSUME DiffTypes, NEW types, NEW files
    PROVE  /\ LeftOut(types, files) \in Seq(Files)
           /\ Range(LeftOut(types, files)) = {f \in DictFiles : Kind(f).type \in types /\ f \notin Range(files)}
<1>1. PICK S : S = {f \in Patched : ~Deleted(f) /\ Kind(f).type \in types /\ f \notin Range(files)}
  OBVIOUS
<1>2. S \in SUBSET Files /\ S = {f \in DictFiles : Kind(f).type \in types /\ f \notin Range(files)}
  BY <1>1 DEF DictFiles, Patched, DiffTypes
<1>3. LeftOut(types, files) = InOrder(S, LargerFirst)
  BY <1>1 DEF LeftOut
<1>4. Listing(InOrder(S, LargerFirst), S)
  BY <1>2, LargerFirstLists
<1> QED BY <1>2, <1>3, <1>4 DEF Listing

LEMMA NamedFilesAre ==
    ASSUME DiffTypes, NEW p \in Prompts, NEW b, b = NamedFiles(p)
    PROVE  /\ b.tokens \in Nat /\ b.names \subseteq DictFiles /\ p.tokens <= b.tokens
           /\ b.tokens <= Limit - Hard \/ b.tokens = p.tokens
           /\ \A f \in DictFiles : \/ f \in Range(p.files) \cup b.names
                                   \/ Kind(f).type \notin {"ADDED", "MODIFIED", "RENAMED"}
                                   \/ b.tokens + Delta + 1 >= Limit - Hard
<1>1. PICK none : none = [names |-> {}, tokens |-> p.tokens]
  OBVIOUS
<1>2. /\ Limit \in Nat /\ Hard \in Nat /\ Delta \in Nat /\ p.tokens \in Nat
      /\ none.names = {} /\ none.tokens = p.tokens /\ none \in Naming
  BY <1>1, TokensAre, Sizes DEF Prompts, Naming
<1>3. CASE Limit - Hard - p.tokens <= Delta
  <2>1. b = none
    BY <1>1, <1>3 DEF NamedFiles
  <2>2. b.tokens + Delta + 1 >= Limit - Hard
    BY <1>2, <1>3, <2>1
  <2> QED BY <1>2, <2>1, <2>2
<1>4. CASE ~(Limit - Hard - p.tokens <= Delta)
  <2>1. PICK added, changed : added = LeftOut({"ADDED"}, p.files)
                              /\ changed = LeftOut({"MODIFIED", "RENAMED"}, p.files)
    OBVIOUS
  <2>2. added \in Seq(Files) /\ Range(added) = {f \in DictFiles : Kind(f).type = "ADDED" /\ f \notin Range(p.files)}
    BY <2>1, LeftOutIs
  <2>3. /\ changed \in Seq(Files)
        /\ Range(changed) = {f \in DictFiles : Kind(f).type \in {"MODIFIED", "RENAMED"} /\ f \notin Range(p.files)}
    BY <2>1, LeftOutIs
  <2>4. PICK a : a = NameStep(none, added)
    OBVIOUS
  <2>5. b = NameStep(a, changed)
    BY <1>1, <1>4, <2>1, <2>4 DEF NamedFiles
  <2>6. none.tokens <= Limit - Hard
    BY <1>2, <1>4
  <2>7. /\ a \in Naming /\ a.names \subseteq Range(added) /\ p.tokens <= a.tokens /\ a.tokens <= Limit - Hard
        /\ Range(added) \subseteq a.names \/ a.tokens + 1 >= Limit - Hard
    BY <1>2, <2>2, <2>4, <2>6, NameStepIs
  <2>8. /\ b \in Naming /\ a.names \subseteq b.names /\ b.names \subseteq a.names \cup Range(changed)
        /\ a.tokens <= b.tokens /\ b.tokens <= Limit - Hard
        /\ Range(changed) \subseteq b.names \/ b.tokens + 1 >= Limit - Hard
    BY <2>3, <2>5, <2>7, NameStepIs
  <2>9. a.tokens \in Nat /\ b.tokens \in Nat
    BY <2>7, <2>8 DEF Naming
  <2>10. ASSUME NEW f \in DictFiles, f \notin Range(p.files), Kind(f).type \in {"ADDED", "MODIFIED", "RENAMED"}
         PROVE  f \in b.names \/ b.tokens + Delta + 1 >= Limit - Hard
    <3>1. f \in Range(added) \/ f \in Range(changed)
      BY <2>2, <2>3, <2>10
    <3>2. f \in b.names \/ a.tokens + 1 >= Limit - Hard \/ b.tokens + 1 >= Limit - Hard
      BY <2>7, <2>8, <3>1
    <3> QED BY <1>2, <2>8, <2>9, <3>2
  <2> QED BY <1>2, <2>2, <2>3, <2>7, <2>8, <2>9, <2>10
<1> QED BY <1>3, <1>4

-----------------------------------------------------------------------------
(* The prompts of /improve: get_pr_multi_diffs. *)

Groupings == [out : Seq(Prompts), files : Seq(Files), tokens : Nat]

\* After the files D: each is in a finished prompt or in the current one, once, unless all
\* calls are used or it is too large for any; no finished prompt is empty or too full.
GroupHas(acc, D) ==
    /\ Once(acc.out) /\ IsInjective(acc.files)
    /\ Shown(acc.out) \subseteq D /\ Range(acc.files) \subseteq D /\ Shown(acc.out) \cap Range(acc.files) = {}
    /\ Len(acc.out) <= MaxCalls /\ (Len(acc.out) = MaxCalls => acc.files = <<>>)
    /\ \A k \in DOMAIN acc.out : acc.out[k].files # <<>> /\ acc.out[k].tokens <= Limit - Soft
    /\ IF acc.files = <<>> THEN acc.tokens = promptTokens ELSE acc.tokens <= Limit - Soft
    /\ \A f \in D : f \in Shown(acc.out) \cup Range(acc.files) \/ Len(acc.out) = MaxCalls \/ GroupTokens(f) = 0

LEMMA FlushKeeps ==
    ASSUME DiffTypes, NEW D \in SUBSET Files, NEW acc \in Groupings, GroupHas(acc, D), acc.files # <<>>,
           NEW b, b = Flush(acc)
    PROVE  /\ b \in Groupings /\ GroupHas(b, D)
           /\ b.files = <<>> /\ b.tokens = promptTokens /\ Len(b.out) = Len(acc.out) + 1
<1>1. acc.out \in Seq(Prompts) /\ acc.files \in Seq(Files) /\ acc.tokens \in Nat /\ Len(acc.out) \in Nat
  BY DEF Groupings
<1>2. MaxCalls \in Nat /\ promptTokens \in Nat
  BY BudgetAssumption DEF DiffTypes
<1>3. Len(acc.out) + 1 <= MaxCalls /\ acc.tokens <= Limit - Soft
  <2>1. Len(acc.out) <= MaxCalls /\ Len(acc.out) # MaxCalls /\ acc.tokens <= Limit - Soft
    BY DEF GroupHas
  <2> QED BY <1>1, <1>2, <2>1
<1>4. PICK p : p = Prompt(acc.files, acc.tokens)
  OBVIOUS
<1>5. p \in Prompts /\ p.files = acc.files /\ p.tokens = acc.tokens
  BY <1>1, <1>4 DEF Prompt, Prompts
<1>6. PICK ps : ps = Append(acc.out, p)
  OBVIOUS
<1>7. /\ ps \in Seq(Prompts) /\ Len(ps) = Len(acc.out) + 1
      /\ Once(ps) /\ Shown(ps) = Shown(acc.out) \cup Range(acc.files)
  <2>1. Once(acc.out) /\ IsInjective(p.files) /\ Range(p.files) \cap Shown(acc.out) = {}
    BY <1>5 DEF GroupHas
  <2> QED BY <1>1, <1>5, <1>6, <2>1, AppendPrompt
<1>8. b = [acc EXCEPT !.out = ps, !.files = <<>>, !.tokens = promptTokens]
  BY <1>4, <1>6 DEF Flush
<1>9. b \in Groupings /\ b.out = ps /\ b.files = <<>> /\ b.tokens = promptTokens
  <2>1. PICK e \in Seq(Files) : e = <<>>
    <3>1. <<>> \in Seq(Files)
      OBVIOUS
    <3> QED BY <3>1
  <2>2. b = [acc EXCEPT !.out = ps, !.files = e, !.tokens = promptTokens]
    BY <1>8, <2>1
  <2>3. b \in Groupings
    BY <1>2, <1>7, <2>2 DEF Groupings
  <2>4. b.out = ps /\ b.files = e /\ b.tokens = promptTokens
    BY <2>2 DEF Groupings
  <2> QED BY <2>1, <2>3, <2>4
<1>10. \A k \in DOMAIN ps : ps[k].files # <<>> /\ ps[k].tokens <= Limit - Soft
  <2>1. \A k \in DOMAIN ps : (k \in DOMAIN acc.out /\ ps[k] = acc.out[k]) \/ ps[k] = p
    BY <1>1, <1>6
  <2> QED BY <1>3, <1>5, <2>1 DEF GroupHas
<1>11. Range(<<>>) = {} /\ IsInjective(<<>>)
  BY DEF Range, IsInjective
<1>12. Shown(ps) \subseteq D /\ Len(ps) <= MaxCalls
  BY <1>3, <1>7 DEF GroupHas
<1>13. ASSUME NEW f \in D
       PROVE  f \in Shown(ps) \/ Len(ps) = MaxCalls \/ GroupTokens(f) = 0
  BY <1>1, <1>2, <1>3, <1>7 DEF GroupHas
<1>14. GroupHas(b, D)
  BY <1>7, <1>9, <1>10, <1>11, <1>12, <1>13 DEF GroupHas
<1> QED BY <1>7, <1>9, <1>14

LEMMA AddFileKeeps ==
    ASSUME DiffTypes, NEW D \in SUBSET Files, NEW acc \in Groupings, GroupHas(acc, D), Len(acc.out) # MaxCalls,
           NEW f \in Files, f \notin D, acc.tokens + GroupTokens(f) <= Limit - Soft
    PROVE  AddFile(acc, f) \in Groupings /\ GroupHas(AddFile(acc, f), D \cup {f})
<1>1. acc.out \in Seq(Prompts) /\ acc.files \in Seq(Files) /\ acc.tokens \in Nat
  BY DEF Groupings
<1>2. f \notin Range(acc.files) /\ f \notin Shown(acc.out)
  BY DEF GroupHas
<1>3. PICK t : t = Append(acc.files, f)
  OBVIOUS
<1>4. t \in Seq(Files) /\ Range(t) = Range(acc.files) \cup {f} /\ IsInjective(t) /\ t # <<>>
  BY <1>1, <1>2, <1>3, AppendIs DEF GroupHas
<1>5. PICK n \in Nat : n = acc.tokens + GroupTokens(f)
  <2>1. GroupTokens(f) \in Nat
    BY TokensAre
  <2>2. acc.tokens + GroupTokens(f) \in Nat
    BY <1>1, <2>1
  <2> QED BY <2>2
<1>6. PICK b : b = AddFile(acc, f)
  OBVIOUS
<1>7. b \in Groupings /\ b.out = acc.out /\ b.files = t /\ b.tokens = n
  <2>1. b = [acc EXCEPT !.files = t, !.tokens = n]
    BY <1>3, <1>5, <1>6 DEF AddFile
  <2> QED BY <1>1, <1>4, <1>5, <2>1 DEF Groupings
<1>8. n <= Limit - Soft
  BY <1>5
<1>9. GroupHas(b, D \cup {f})
  BY <1>2, <1>4, <1>7, <1>8 DEF GroupHas
<1> QED BY <1>6, <1>7, <1>9

LEMMA GroupStepKeeps ==
    ASSUME DiffTypes, NEW D \in SUBSET Files, NEW acc \in Groupings, GroupHas(acc, D), NEW f \in Files, f \notin D
    PROVE  GroupStep(acc, f) \in Groupings /\ GroupHas(GroupStep(acc, f), D \cup {f})
<1>1. acc.out \in Seq(Prompts) /\ acc.files \in Seq(Files) /\ acc.tokens \in Nat /\ Len(acc.out) \in Nat
  BY DEF Groupings
<1>2. /\ Limit \in Nat /\ Soft \in Nat /\ promptTokens \in Nat /\ MaxCalls \in Nat /\ GroupTokens(f) \in Nat
      /\ GroupTokens(f) # 0 => GroupTokens(f) <= Limit - Soft - promptTokens
  BY TokensAre, Sizes, BudgetAssumption DEF Room
<1>3. CASE Len(acc.out) = MaxCalls \/ GroupTokens(f) = 0
  <2>1. GroupStep(acc, f) = acc
    BY <1>3 DEF GroupStep
  <2> QED BY <1>3, <2>1 DEF GroupHas
<1>4. CASE ~(Len(acc.out) = MaxCalls \/ GroupTokens(f) = 0) /\ acc.tokens + GroupTokens(f) > Limit - Soft
  <2>1. acc.files # <<>>
    <3>1. ASSUME acc.files = <<>> PROVE FALSE
      <4>1. acc.tokens = promptTokens
        BY <3>1 DEF GroupHas
      <4> QED BY <1>1, <1>2, <1>4, <4>1
    <3> QED BY <3>1
  <2>2. PICK b : b = Flush(acc)
    OBVIOUS
  <2>3. /\ b \in Groupings /\ GroupHas(b, D)
        /\ b.files = <<>> /\ b.tokens = promptTokens /\ Len(b.out) = Len(acc.out) + 1
    BY <2>1, <2>2, FlushKeeps
  <2>4. CASE Len(acc.out) + 1 = MaxCalls
    <3>1. GroupStep(acc, f) = b
      BY <1>4, <2>2, <2>4 DEF GroupStep, FlushAndAdd
    <3> QED BY <2>3, <2>4, <3>1 DEF GroupHas
  <2>5. CASE Len(acc.out) + 1 # MaxCalls
    <3>1. GroupStep(acc, f) = AddFile(b, f)
      BY <1>4, <2>2, <2>5 DEF GroupStep, FlushAndAdd
    <3>2. b.tokens + GroupTokens(f) <= Limit - Soft
      BY <1>2, <1>4, <2>3
    <3> QED BY <2>3, <2>5, <3>1, <3>2, AddFileKeeps
  <2> QED BY <2>4, <2>5
<1>5. CASE ~(Len(acc.out) = MaxCalls \/ GroupTokens(f) = 0) /\ ~(acc.tokens + GroupTokens(f) > Limit - Soft)
  <2>1. GroupStep(acc, f) = AddFile(acc, f)
    BY <1>5 DEF GroupStep
  <2>2. acc.tokens + GroupTokens(f) <= Limit - Soft
    BY <1>1, <1>2, <1>5
  <2> QED BY <1>5, <2>1, <2>2, AddFileKeeps
<1> QED BY <1>3, <1>4, <1>5

LEMMA GroupedIs ==
    ASSUME DiffTypes, NEW ps, ps = Grouped
    PROVE  /\ ps \in Seq(Prompts) /\ Once(ps) /\ Shown(ps) \subseteq DictFiles /\ Len(ps) <= MaxCalls
           /\ \A k \in DOMAIN ps : ps[k].files # <<>> /\ ps[k].tokens <= Limit - Soft
           /\ \A f \in DictFiles : f \in Shown(ps) \/ Len(ps) = MaxCalls \/ GroupTokens(f) = 0
<1> DEFINE start == [out |-> <<>>, files |-> <<>>, tokens |-> promptTokens]
           s == FileDict
           T == [i \in 0..Len(s) |-> {acc \in Groupings : GroupHas(acc, Seen(s, i))}]
           loop(g) == [i \in 0..Len(s) |-> IF i = 0 THEN start ELSE GroupStep(g[i - 1], s[i])]
<1>1. /\ s \in Seq(Files) /\ IsInjective(s) /\ Range(s) = DictFiles /\ DictFiles \in SUBSET Files
      /\ Len(s) \in Nat
  BY FileDictIs DEF Listing
<1>2. Over(GroupStep, start, s) = (CHOOSE g : g = loop(g))[Len(s)]
  BY DEF Over
<1>3. PICK end : end = Over(GroupStep, start, s)
  OBVIOUS
<1>4. ps = IF end.files = <<>> THEN end.out ELSE Flush(end).out
  BY <1>3 DEF Grouped
<1> HIDE DEF s
<1>5. start \in Groupings /\ GroupHas(start, {})
  <2>1. start.out = <<>> /\ start.files = <<>> /\ start.tokens = promptTokens /\ start \in Groupings
    BY DEF DiffTypes, Groupings
  <2>2. Range(<<>>) = {} /\ IsInjective(<<>>) /\ Once(<<>>) /\ Shown(<<>>) = {} /\ Len(<<>>) = 0 /\ DOMAIN <<>> = {}
    BY DEF Range, IsInjective, Once, Shown
  <2>3. MaxCalls \in Nat /\ MaxCalls >= 1
    BY BudgetAssumption
  <2> HIDE DEF start
  <2> QED BY <2>1, <2>2, <2>3 DEF GroupHas
<1>6. start \in T[0]
  <2>1. Seen(s, 0) = {} /\ 0 \in 0..Len(s)
    BY <1>1, SeenIs
  <2> HIDE DEF start
  <2> QED BY <1>5, <2>1
<1>7. ASSUME NEW i \in 1..Len(s), NEW t \in T[i - 1]
      PROVE  GroupStep(t, s[i]) \in T[i]
  <2>1. i - 1 \in 0..Len(s) /\ i \in 0..Len(s) /\ t \in Groupings /\ GroupHas(t, Seen(s, i - 1))
    BY <1>1
  <2>2. s[i] \in Files /\ s[i] \notin Seen(s, i - 1) /\ Seen(s, i) = Seen(s, i - 1) \cup {s[i]}
    BY <1>1, SeenIs
  <2>3. Seen(s, i - 1) \in SUBSET Files
    BY <1>1 DEF Seen
  <2>4. GroupStep(t, s[i]) \in Groupings /\ GroupHas(GroupStep(t, s[i]), Seen(s, i))
    BY <2>1, <2>2, <2>3, GroupStepKeeps
  <2> QED BY <2>1, <2>4
<1>8. \A i \in 0..Len(s) : T[i] \subseteq Groupings
  OBVIOUS
<1>9. T[Len(s)] = {acc \in Groupings : GroupHas(acc, DictFiles)}
  BY <1>1, SeenIs
<1> HIDE DEF start, T
<1>10. PICK next : next = [w \in (1..Len(s)) \X Groupings |-> GroupStep(w[2], s[w[1]])]
  OBVIOUS
<1>11. ASSUME NEW i \in 1..Len(s), NEW t \in T[i - 1]
       PROVE  next[<<i, t>>] = GroupStep(t, s[i])
  <2>1. i - 1 \in 0..Len(s)
    BY <1>1
  <2>2. t \in Groupings
    BY <1>8, <2>1
  <2> QED BY <1>10, <2>2
<1>12. \E g : g = loop(g)
  <2>1. Leads(Len(s), T, next)
    BY <1>7, <1>11 DEF Leads
  <2>2. PICK g : Loop(Len(s), T, start, next, g)
    BY <1>1, <1>6, <2>1, LoopExists
  <2>3. PICK h : h = [i \in 0..Len(s) |-> g[i]]
    OBVIOUS
  <2>4. \A i \in 0..Len(s) : h[i] = IF i = 0 THEN start ELSE GroupStep(h[i - 1], s[i])
    <3> SUFFICES ASSUME NEW i \in 0..Len(s)
                 PROVE  h[i] = IF i = 0 THEN start ELSE GroupStep(h[i - 1], s[i])
      OBVIOUS
    <3>1. h[i] = g[i] /\ (i # 0 => i \in 1..Len(s) /\ h[i - 1] = g[i - 1])
      BY <1>1, <2>3
    <3> QED BY <1>11, <2>2, <3>1 DEF Loop
  <2>5. h = loop(h)
    BY <2>3, <2>4
  <2> QED BY <2>5
<1>13. PICK acc : acc = (CHOOSE g : g = loop(g)) /\ end = acc[Len(s)]
  BY <1>2, <1>3
<1>14. acc[0] = start /\ \A i \in 1..Len(s) : acc[i] = GroupStep(acc[i - 1], s[i])
  <2>1. acc = loop(acc)
    BY <1>12, <1>13
  <2>2. \A g : g = loop(g) => \A i \in 0..Len(s) : g[i] = IF i = 0 THEN start ELSE GroupStep(g[i - 1], s[i])
    OBVIOUS
  <2> HIDE DEF loop
  <2>3. \A i \in 0..Len(s) : acc[i] = IF i = 0 THEN start ELSE GroupStep(acc[i - 1], s[i])
    BY <2>1, <2>2
  <2> QED BY <1>1, <2>3
<1>15. \A i \in 0..Len(s) : acc[i] \in T[i]
  BY <1>1, <1>6, <1>7, <1>14, LoopKeeps
<1>16. end \in Groupings /\ GroupHas(end, DictFiles)
  BY <1>1, <1>9, <1>13, <1>15
<1>17. CASE end.files = <<>>
  <2>1. ps = end.out /\ Range(end.files) = {} /\ ps \in Seq(Prompts)
    BY <1>4, <1>16, <1>17 DEF Groupings, Range
  <2> QED BY <1>16, <2>1 DEF GroupHas
<1>18. CASE end.files # <<>>
  <2>1. PICK b : b = Flush(end)
    OBVIOUS
  <2>2. b \in Groupings /\ GroupHas(b, DictFiles) /\ b.files = <<>>
    BY <1>1, <1>16, <1>18, <2>1, FlushKeeps
  <2>3. ps = b.out /\ Range(b.files) = {} /\ ps \in Seq(Prompts)
    BY <1>4, <1>18, <2>1, <2>2 DEF Groupings, Range
  <2> QED BY <2>2, <2>3 DEF GroupHas
<1> QED BY <1>17, <1>18

-----------------------------------------------------------------------------
(* The size of the whole diff. *)

LEMMA SumOfIs ==
    ASSUME DiffTypes, NEW s \in Seq(Files)
    PROVE  SumOf(s) \in Nat
<1> DEFINE T == [i \in 0..Len(s) |-> Nat]
           loop(g) == [i \in 0..Len(s) |-> IF i = 0 THEN promptTokens ELSE AddWide(g[i - 1], s[i])]
<1>1. Len(s) \in Nat /\ promptTokens \in Nat
  BY DEF DiffTypes
<1>2. ASSUME NEW i \in 1..Len(s), NEW t \in Nat
      PROVE  AddWide(t, s[i]) \in Nat
  <2>1. WideTokens(s[i]) \in Nat
    BY TokensAre, SMTT(40)
  <2> QED BY <2>1 DEF AddWide
<1>3. \A i \in 0..Len(s) : T[i] = Nat
  OBVIOUS
<1>4. \A i \in 1..Len(s) : i \in 0..Len(s) /\ i - 1 \in 0..Len(s)
  BY <1>1
<1> HIDE DEF T
<1>5. promptTokens \in T[0]
  BY <1>1, <1>3
<1>6. PICK next : next = [w \in (1..Len(s)) \X Nat |-> AddWide(w[2], s[w[1]])]
  OBVIOUS
<1>7. \A i \in 1..Len(s) : \A t \in Nat : next[<<i, t>>] = AddWide(t, s[i])
  BY <1>6
<1>8. \E g : g = loop(g)
  <2>1. Leads(Len(s), T, next)
    <3>1. ASSUME NEW i \in 1..Len(s), NEW t \in T[i - 1]
          PROVE  next[<<i, t>>] \in T[i]
      <4>1. T[i - 1] = Nat /\ T[i] = Nat
        BY <1>3, <1>4
      <4> QED BY <1>2, <1>7, <4>1
    <3> QED BY <3>1 DEF Leads
  <2>2. PICK g : Loop(Len(s), T, promptTokens, next, g)
    BY <1>1, <1>5, <2>1, LoopExists
  <2>3. PICK h : h = [i \in 0..Len(s) |-> g[i]]
    OBVIOUS
  <2>4. \A i \in 0..Len(s) : h[i] = IF i = 0 THEN promptTokens ELSE AddWide(h[i - 1], s[i])
    <3> SUFFICES ASSUME NEW i \in 0..Len(s)
                 PROVE  h[i] = IF i = 0 THEN promptTokens ELSE AddWide(h[i - 1], s[i])
      OBVIOUS
    <3>1. h[i] = g[i] /\ (i # 0 => i \in 1..Len(s) /\ h[i - 1] = g[i - 1])
      BY <1>1, <2>3
    <3>2. i # 0 => g[i - 1] \in Nat /\ g[i] = next[<<i, g[i - 1]>>]
      BY <1>3, <1>4, <2>2, <3>1 DEF Loop
    <3> QED BY <1>7, <2>2, <3>1, <3>2 DEF Loop
  <2>5. h = loop(h)
    BY <2>3, <2>4
  <2> QED BY <2>5
<1>9. PICK acc : acc = (CHOOSE g : g = loop(g)) /\ SumOf(s) = acc[Len(s)]
  BY DEF SumOf, Over
<1>10. acc[0] = promptTokens /\ \A i \in 1..Len(s) : acc[i] = AddWide(acc[i - 1], s[i])
  <2>1. acc = loop(acc)
    BY <1>8, <1>9
  <2>2. \A g : g = loop(g) => \A i \in 0..Len(s) : g[i] = IF i = 0 THEN promptTokens ELSE AddWide(g[i - 1], s[i])
    OBVIOUS
  <2> HIDE DEF loop
  <2>3. \A i \in 0..Len(s) : acc[i] = IF i = 0 THEN promptTokens ELSE AddWide(acc[i - 1], s[i])
    BY <2>1, <2>2
  <2> QED BY <1>1, <2>3
<1>11. ASSUME NEW i \in 1..Len(s), acc[i - 1] \in T[i - 1]
       PROVE  acc[i] \in T[i]
  BY <1>2, <1>3, <1>4, <1>10, <1>11
<1>12. \A i \in 0..Len(s) : acc[i] \in T[i]
  BY <1>1, <1>5, <1>10, <1>11, LoopKeeps
<1> QED BY <1>1, <1>3, <1>9, <1>12

-----------------------------------------------------------------------------
(* The invariant: what a tool has when its prompts are made. *)

MayCall == IF diffTool = "improve" THEN MaxCalls ELSE IF diffTool = "describe" THEN MaxAiCalls - 1 ELSE 1

\* The prompts ps, with the names nm and the files rem left over, account for the diff.
Accounts(ps, nm, rem) ==
    /\ ps \in Seq(Prompts) /\ Once(ps) /\ Shown(ps) \cup nm \subseteq Patched /\ Len(ps) <= MayCall
    /\ \A k \in DOMAIN ps :
        /\ ps[k].tokens <= Limit - Hard \/ (ps[k].files = <<>> /\ ps[k].tokens = promptTokens)
        /\ diffTool = "improve" => ps[k].tokens <= Limit - Soft /\ ps[k].files # <<>>
    /\ \A f \in Patched :
        \/ f \in Shown(ps)
        \/ Deleted(f) \/ Kind(f).cut = 0
        \/ diffTool = "improve" /\ (Len(ps) = MaxCalls \/ GroupTokens(f) = 0)
        \/ diffTool # "improve" /\ (\A k \in DOMAIN ps : ps[k].tokens + CutTokens(f) > Limit - Soft)
    /\ diffTool # "improve" /\ promptTokens <= Limit - Hard =>
        \A f \in Patched :
            \/ f \in Shown(ps) \cup nm
            \/ Deleted(f) \/ Kind(f).cut = 0
            \/ IF Len(ps) > 1 THEN f \in Range(rem)
               ELSE Kind(f).type = "UNKNOWN" \/ ps[1].tokens + Delta + 1 >= Limit - Hard

DiffInv ==
    /\ DiffTypes
    /\ step = "prune" => diffTool # "improve"
    /\ step = "group" => diffTool = "improve"
    /\ step = "idle" => prompts = <<>> /\ named = {} /\ diffFiles = {} /\ calls = 0
    /\ Once(prompts)
    /\ Shown(prompts) \cup named \subseteq Patched
    /\ Ready => Accounts(prompts, named, remaining)
    /\ calls <= IF diffTool = "improve" THEN MaxCalls ELSE IF diffTool = "describe" THEN MaxAiCalls ELSE 1

LEMMA CallBounds ==
    /\ MaxCalls \in Nat /\ MaxCalls >= 1 /\ MaxAiCalls \in Nat /\ MaxAiCalls >= 2
    /\ MayCall \in Nat /\ MayCall >= 1
<1>1. MaxCalls \in Nat /\ MaxCalls >= 1 /\ MaxAiCalls \in Nat /\ MaxAiCalls >= 2
  BY BudgetAssumption
<1> QED BY <1>1 DEF MayCall

\* The whole diff accounts for itself.
LEMMA WholeAccounts ==
    ASSUME DiffTypes, NEW files, files = InOrder(Patched, ByLanguage), Fits(SumOf(files)),
           NEW ps, ps = IF diffTool = "improve" /\ files = <<>> THEN <<>> ELSE <<Prompt(files, SumOf(files))>>,
           NEW rem
    PROVE  Accounts(ps, {}, rem)
<1>1. Patched \in SUBSET Files
  BY DEF Patched, DiffTypes
<1>2. files \in Seq(Files) /\ IsInjective(files) /\ Range(files) = Patched
  <2>1. Listing(files, Patched)
    BY <1>1, ByLanguageLists
  <2> QED BY <1>1, <2>1 DEF Listing
<1>3. PICK n \in Nat : n = SumOf(files)
  BY <1>2, SumOfIs
<1>4. n <= Limit - Soft /\ n <= Limit - Hard
  BY <1>3, TokensAre, Sizes DEF Fits
<1>5. CASE diffTool = "improve" /\ files = <<>>
  <2>1. ps = <<>> /\ Patched = {}
    BY <1>2, <1>5 DEF Range
  <2>2. ps \in Seq(Prompts) /\ Once(ps) /\ Shown(ps) = {} /\ DOMAIN ps = {} /\ Len(ps) = 0
    BY <2>1 DEF Once, Shown
  <2> QED BY <1>5, <2>1, <2>2, CallBounds DEF Accounts
<1>6. CASE ~(diffTool = "improve" /\ files = <<>>)
  <2>1. PICK p : p = Prompt(files, n)
    OBVIOUS
  <2>2. p \in Prompts /\ p.files = files /\ p.tokens = n
    BY <1>2, <2>1 DEF Prompt, Prompts
  <2>3. ps = <<p>>
    BY <1>3, <1>6, <2>1
  <2>4. ps \in Seq(Prompts) /\ Once(ps) /\ Shown(ps) = Patched /\ DOMAIN ps = {1} /\ ps[1] = p /\ Len(ps) = 1
    <3>1. <<p>> \in Seq(Prompts) /\ Once(<<p>>) /\ Shown(<<p>>) = Range(p.files)
      BY <1>2, <2>2, FirstPrompt
    <3>2. DOMAIN <<p>> = {1} /\ <<p>>[1] = p /\ Len(<<p>>) = 1
      OBVIOUS
    <3> QED BY <1>2, <2>2, <2>3, <3>1, <3>2
  <2>5. \A k \in DOMAIN ps : ps[k] = p
    BY <2>4
  <2>6. Len(ps) <= MayCall
    BY <2>4, CallBounds
  <2> QED BY <1>4, <1>6, <2>2, <2>4, <2>5, <2>6 DEF Accounts
<1> QED BY <1>5, <1>6

\* So does a pruned one.
LEMMA PrunedAccounts ==
    ASSUME DiffTypes, diffTool # "improve",
           NEW packed, packed = Packed(diffTool = "describe"),
           NEW first, first = packed.prompts[1], NEW lists, lists = NamedFiles(first),
           NEW ps, NEW nm,
           IF Len(packed.prompts) > 1 THEN ps = packed.prompts /\ nm = {}
           ELSE ps = <<[first EXCEPT !.tokens = lists.tokens]>> /\ nm = lists.names
    PROVE  Accounts(ps, nm, packed.rest)
<1>1. /\ packed \in Rounds /\ RoundsHave(packed, MaxAiCalls - 2, DictFiles)
      /\ diffTool # "describe" => Len(packed.prompts) = 1
  <2>1. PICK large \in BOOLEAN : large = (diffTool = "describe")
    OBVIOUS
  <2>2. packed = Packed(large)
    BY <2>1
  <2> QED BY <2>1, <2>2, PackedIs
<1>2. PICK qs : qs = packed.prompts
  OBVIOUS
<1>3. /\ qs \in Seq(Prompts) /\ Len(qs) \in Nat /\ Len(qs) >= 1 /\ DOMAIN qs = 1..Len(qs)
      /\ Len(qs) <= MayCall
  <2>1. qs \in Seq(Prompts) /\ Len(qs) \in 1..(MaxAiCalls - 2 + 1)
    BY <1>1, <1>2 DEF Rounds, RoundsHave
  <2>2. Len(qs) \in Nat /\ Len(qs) >= 1 /\ DOMAIN qs = 1..Len(qs) /\ Len(qs) <= MaxAiCalls - 1
    BY <2>1, CallBounds
  <2>3. Len(qs) <= MayCall
    BY <1>1, <1>2, <2>2 DEF MayCall
  <2> QED BY <2>1, <2>2, <2>3
<1>4. /\ Once(qs) /\ Shown(qs) \subseteq DictFiles
      /\ \A k \in DOMAIN qs :
            qs[k].tokens <= Limit - Hard \/ (qs[k].files = <<>> /\ qs[k].tokens = promptTokens)
      /\ \A f \in DictFiles : \/ f \in Shown(qs)
                              \/ Kind(f).cut = 0
                              \/ \A k \in DOMAIN qs : qs[k].tokens + CutTokens(f) > Limit - Soft
      /\ \A f \in DictFiles : \/ f \in Shown(qs) \cup Range(packed.rest)
                              \/ Kind(f).cut = 0
                              \/ promptTokens > Limit - Hard
  BY <1>1, <1>2 DEF RoundsHave
<1>5. DictFiles \subseteq Patched /\ \A f \in Patched : f \in DictFiles \/ Deleted(f)
  BY DEF DictFiles
<1>6. Limit \in Nat /\ Hard \in Nat /\ promptTokens \in Nat
  BY TokensAre, Sizes
<1>7. CASE Len(qs) > 1
  <2>1. ps = qs /\ nm = {}
    BY <1>2, <1>7
  <2>2. ~(promptTokens <= Limit - Hard) <=> promptTokens > Limit - Hard
    BY <1>6
  <2> QED BY <1>3, <1>4, <1>5, <1>7, <2>1, <2>2 DEF Accounts
<1>8. CASE ~(Len(qs) > 1)
  <2>1. Len(qs) = 1 /\ DOMAIN qs = {1} /\ first = qs[1] /\ first \in Prompts
    BY <1>2, <1>3, <1>8
  <2>2. /\ lists.tokens \in Nat /\ lists.names \subseteq DictFiles /\ first.tokens <= lists.tokens
        /\ lists.tokens <= Limit - Hard \/ lists.tokens = first.tokens
        /\ \A f \in DictFiles : \/ f \in Range(first.files) \cup lists.names
                                \/ Kind(f).type \notin {"ADDED", "MODIFIED", "RENAMED"}
                                \/ lists.tokens + Delta + 1 >= Limit - Hard
    BY <2>1, NamedFilesAre
  <2>3. PICK p : p = [first EXCEPT !.tokens = lists.tokens]
    OBVIOUS
  <2>4. p \in Prompts /\ p.files = first.files /\ p.tokens = lists.tokens
    BY <2>1, <2>2, <2>3 DEF Prompts
  <2>5. ps = <<p>> /\ nm = lists.names
    BY <1>2, <1>8, <2>3
  <2>6. Shown(qs) = Range(first.files) /\ IsInjective(first.files)
    <3>1. Shown(qs) = Range(first.files)
      BY <2>1 DEF Shown
    <3>2. IsInjective(first.files)
      BY <1>4, <2>1 DEF Once, IsInjective
    <3> QED BY <3>1, <3>2
  <2>7. /\ ps \in Seq(Prompts) /\ Once(ps) /\ Shown(ps) = Shown(qs) /\ DOMAIN ps = {1} /\ ps[1] = p
        /\ Len(ps) = 1 /\ \A k \in DOMAIN ps : ps[k] = p
    BY <2>4, <2>5, <2>6, FirstPrompt
  <2>8. p.tokens <= Limit - Hard \/ (p.files = <<>> /\ p.tokens = promptTokens)
    BY <1>4, <2>1, <2>2, <2>4
  <2>9. ASSUME NEW f \in Patched
        PROVE  /\ f \in Shown(ps) \/ Deleted(f) \/ Kind(f).cut = 0 \/ p.tokens + CutTokens(f) > Limit - Soft
               /\ \/ f \in Shown(ps) \cup nm
                  \/ Deleted(f)
                  \/ Kind(f).type = "UNKNOWN"
                  \/ p.tokens + Delta + 1 >= Limit - Hard
    <3>1. CASE Deleted(f)
      BY <3>1
    <3>2. CASE ~Deleted(f)
      <4>1. f \in DictFiles /\ f \in Files
        BY <1>5, <3>2 DEF Patched, DiffTypes
      <4>2. Kind(f).type \in FileTypes /\ Kind(f).type # "DELETED" /\ CutTokens(f) \in Nat
        BY <3>2, <4>1, TokensAre DEF Deleted
      <4>3. Kind(f).type = "UNKNOWN" \/ Kind(f).type \in {"ADDED", "MODIFIED", "RENAMED"}
        BY <4>2 DEF FileTypes
      <4>4. first.tokens \in Nat /\ Soft \in Nat
        BY <2>1, Sizes DEF Prompts
      <4>5. first.tokens + CutTokens(f) > Limit - Soft => p.tokens + CutTokens(f) > Limit - Soft
        BY <1>6, <2>2, <2>4, <4>2, <4>4, SMTT(40)
      <4> QED BY <1>4, <2>1, <2>2, <2>4, <2>5, <2>6, <2>7, <4>1, <4>3, <4>5
    <3> QED BY <3>1, <3>2
  <2>10. Shown(ps) \cup nm \subseteq Patched /\ Len(ps) <= MayCall
    BY <1>3, <1>4, <1>5, <2>1, <2>2, <2>5, <2>7
  <2>11. ~(Len(ps) > 1)
    BY <2>7
  <2> QED BY <2>7, <2>8, <2>9, <2>10, <2>11 DEF Accounts
<1> QED BY <1>7, <1>8

\* So do the prompts of /improve.
LEMMA GroupedAccounts ==
    ASSUME DiffTypes, diffTool = "improve", NEW ps, ps = Grouped, NEW nm \in SUBSET Patched, NEW rem
    PROVE  Accounts(ps, nm, rem)
<1>1. /\ ps \in Seq(Prompts) /\ Once(ps) /\ Shown(ps) \subseteq DictFiles /\ Len(ps) <= MaxCalls
      /\ \A k \in DOMAIN ps : ps[k].files # <<>> /\ ps[k].tokens <= Limit - Soft
      /\ \A f \in DictFiles : f \in Shown(ps) \/ Len(ps) = MaxCalls \/ GroupTokens(f) = 0
  BY GroupedIs
<1>2. DictFiles \subseteq Patched /\ \A f \in Patched : f \in DictFiles \/ Deleted(f)
  BY DEF DictFiles
<1>3. ASSUME NEW k \in DOMAIN ps
      PROVE  ps[k].tokens <= Limit - Hard
  <2>1. ps[k].tokens \in Nat /\ ps[k].tokens <= Limit - Soft
    <3>1. ps[k] \in Prompts
      BY <1>1
    <3> QED BY <1>1, <3>1 DEF Prompts
  <2> QED BY <2>1, TokensAre, Sizes
<1>4. Len(ps) <= MayCall
  BY <1>1 DEF MayCall
<1> QED BY <1>1, <1>2, <1>3, <1>4 DEF Accounts

-----------------------------------------------------------------------------
(* The steps. *)

\* The merge request, the question and the model stay as they are.
SameQuestion == UNCHANGED <<changes, diffFiles, diffTool, promptTokens, policy, model>>

LEMMA AccountsStay ==
    ASSUME SameQuestion, NEW ps, NEW nm, NEW rem, Accounts(ps, nm, rem)
    PROVE  Accounts(ps, nm, rem)' /\ Patched' = Patched
<1>1. /\ changes' = changes /\ diffFiles' = diffFiles /\ diffTool' = diffTool
      /\ promptTokens' = promptTokens /\ policy' = policy /\ model' = model
  BY DEF SameQuestion
<1>2. Limit' = Limit /\ Numbers' = Numbers /\ Room' = Room /\ MayCall' = MayCall
  BY <1>1 DEF Limit, Numbers, Room, MayCall
<1>3. \A f : Kind(f)' = Kind(f) /\ Full(f)' = Full(f)
  BY <1>1 DEF Kind, Full
<1>4. \A f : /\ CutTokens(f)' = CutTokens(f) /\ FinalTokens(f)' = FinalTokens(f)
             /\ Deleted(f)' <=> Deleted(f)
  BY <1>2, <1>3 DEF CutTokens, FinalTokens, Deleted
<1>5. \A f : GroupTokens(f)' = GroupTokens(f)
  BY <1>1, <1>2, <1>4 DEF GroupTokens, TooLarge
<1>6. Patched' = Patched
  BY <1>1, <1>3 DEF Patched
<1> QED BY <1>1, <1>2, <1>3, <1>4, <1>5, <1>6 DEF Accounts

LEMMA DiffStarts == DiffInit => DiffInv
<1> SUFFICES ASSUME DiffInit PROVE DiffInv
  OBVIOUS
<1>1. DiffTypes
  <2>1. FileKinds # {} /\ DiffTools # {} /\ Limits \in Seq(Nat) /\ Limits # <<>>
    BY BudgetAssumption
  <2>2. 1 \in DOMAIN Limits
    BY <2>1
  <2>3. (CHOOSE k \in FileKinds : TRUE) \in FileKinds /\ (CHOOSE d \in DiffTools : TRUE) \in DiffTools
    BY <2>1
  <2>4. changes \in [Files -> FileKinds] /\ diffTool \in DiffTools
    BY <2>3 DEF DiffInit, Files
  <2>5. measured \in [Files -> Int] /\ prompts \in Seq(Prompts)
    BY DEF DiffInit, Files
  <2> QED BY <2>2, <2>4, <2>5 DEF DiffInit, DiffTypes
<1>2. Once(prompts) /\ Shown(prompts) = {} /\ named = {}
  BY DEF DiffInit, Once, Shown
<1>3. calls <= IF diffTool = "improve" THEN MaxCalls ELSE IF diffTool = "describe" THEN MaxAiCalls ELSE 1
  BY CallBounds DEF DiffInit
<1> QED BY <1>1, <1>2, <1>3 DEF DiffInit, DiffInv, Ready

LEMMA StartToolKeeps == DiffInv /\ StartTool => DiffInv'
<1> SUFFICES ASSUME DiffInv, StartTool PROVE DiffInv'
  OBVIOUS
<1>1. DiffTypes'
  <2>1. promptTokens' \in Nat
    BY BudgetAssumption DEF StartTool
  <2> QED BY <2>1 DEF DiffInv, DiffTypes, StartTool, Files
<1>2. prompts' = <<>> /\ named' = {} /\ calls' = 0 /\ step' = "fetch"
  BY DEF DiffInv, StartTool
<1>3. Once(prompts)' /\ Shown(prompts)' = {}
  BY <1>2 DEF Once, Shown
<1>4. (calls <= IF diffTool = "improve" THEN MaxCalls ELSE IF diffTool = "describe" THEN MaxAiCalls ELSE 1)'
  BY <1>2, CallBounds
<1> QED BY <1>1, <1>2, <1>3, <1>4 DEF DiffInv, Ready

LEMMA GetDiffFilesKeeps == DiffInv /\ GetDiffFiles => DiffInv'
<1> SUFFICES ASSUME DiffInv, GetDiffFiles PROVE DiffInv'
  OBVIOUS
<1>1. Fetched \in SUBSET Files
  BY DEF Fetched, Files
<1>2. DiffTypes'
  BY <1>1 DEF DiffInv, DiffTypes, GetDiffFiles, Chosen
<1>3. Shown(prompts)' \cup named' \subseteq Patched'
  <2>1. Shown(prompts)' = Shown(prompts) /\ named' = named
    BY DEF GetDiffFiles, Shown
  <2>2. CASE diffFiles # {}
    BY <2>1, <2>2 DEF DiffInv, GetDiffFiles, Chosen, Patched, Kind
  <2>3. CASE diffFiles = {}
    BY <2>1, <2>3 DEF DiffInv, Patched
  <2> QED BY <2>2, <2>3
<1>4. Once(prompts)'
  BY DEF DiffInv, GetDiffFiles, Once
<1> QED BY <1>2, <1>3, <1>4 DEF DiffInv, GetDiffFiles, Chosen, Ready

LEMMA MeasureDiffKeeps == DiffInv /\ MeasureDiff => DiffInv'
<1> SUFFICES ASSUME DiffInv, MeasureDiff PROVE DiffInv'
  OBVIOUS
<1>1. DiffTypes /\ step = "measure"
  BY DEF DiffInv, MeasureDiff
<1>2. PICK files : files = InOrder(Patched, ByLanguage)
  OBVIOUS
<1>3. /\ measured' = [f \in 1..FileCount |-> IF f \in Patched THEN WideTokens(f) ELSE measured[f]]
      /\ IF Fits(SumOf(files))
         THEN /\ prompts' = IF diffTool = "improve" /\ files = <<>> THEN <<>> ELSE <<Prompt(files, SumOf(files))>>
              /\ step' = "ask"
         ELSE prompts' = <<>> /\ step' = IF diffTool = "improve" THEN "group" ELSE "prune"
      /\ remaining' = <<>> /\ named' = {} /\ Chosen /\ UNCHANGED <<diffFiles, model, calls>>
  BY <1>2 DEF MeasureDiff
<1>4. measured' \in [Files -> Int]
  <2>1. \A f \in Files : WideTokens(f) \in Int /\ measured[f] \in Int
    BY <1>1, TokensAre DEF DiffTypes
  <2> QED BY <1>3, <2>1 DEF Files
<1>5. SameQuestion
  BY <1>3 DEF SameQuestion, Chosen
<1>6. PICK ps : ps = prompts'
  OBVIOUS
<1>7. ps \in Seq(Prompts) /\ (Ready' => Accounts(ps, {}, <<>>)) /\ Once(ps) /\ Shown(ps) \subseteq Patched
  <2>1. CASE Fits(SumOf(files))
    <3>1. Accounts(ps, {}, <<>>)
      BY <1>1, <1>2, <1>3, <1>6, <2>1, WholeAccounts
    <3> QED BY <3>1 DEF Accounts
  <2>2. CASE ~Fits(SumOf(files))
    <3>1. ps = <<>> /\ ~Ready'
      BY <1>3, <1>6, <2>2 DEF Ready
    <3> QED BY <3>1 DEF Once, Shown
  <2> QED BY <2>1, <2>2
<1>8. Ready' => Accounts(prompts, named, remaining)'
  BY <1>3, <1>5, <1>6, <1>7, AccountsStay
<1>9. Patched' = Patched
  BY <1>5 DEF SameQuestion, Patched, Kind
<1>10. Once(prompts)' /\ Shown(prompts)' \cup named' \subseteq Patched'
  BY <1>3, <1>6, <1>7, <1>9 DEF Once, Shown
<1>11. DiffTypes'
  <2>1. step' \in {"ask", "group", "prune"}
    BY <1>3
  <2> QED BY <1>1, <1>3, <1>4, <1>6, <1>7, <2>1 DEF DiffTypes, Chosen
<1>12. /\ (step = "prune" => diffTool # "improve")' /\ (step = "group" => diffTool = "improve")'
       /\ step' # "idle"
  BY <1>3 DEF Chosen
<1>13. (calls <= IF diffTool = "improve" THEN MaxCalls ELSE IF diffTool = "describe" THEN MaxAiCalls ELSE 1)'
  BY <1>3 DEF DiffInv, Chosen
<1> QED BY <1>8, <1>10, <1>11, <1>12, <1>13 DEF DiffInv

\* Any step that makes the prompts of the question at hand.
LEMMA PromptsAreMade ==
    ASSUME DiffInv, NEW ps, NEW nm, NEW rem, Accounts(ps, nm, rem), SameQuestion, UNCHANGED <<measured, calls>>,
           prompts' = ps, named' = nm, remaining' = rem, step' = "ask"
    PROVE  DiffInv'
<1>1. Accounts(prompts, named, remaining)' /\ Patched' = Patched
  BY AccountsStay
<1>2. ps \in Seq(Prompts) /\ Once(ps) /\ Shown(ps) \cup nm \subseteq Patched
  BY DEF Accounts
<1>3. Once(prompts)' /\ Shown(prompts)' \cup named' \subseteq Patched'
  BY <1>1, <1>2 DEF Once, Shown
<1>4. DiffTypes'
  BY <1>2 DEF DiffInv, DiffTypes, SameQuestion
<1>5. (calls <= IF diffTool = "improve" THEN MaxCalls ELSE IF diffTool = "describe" THEN MaxAiCalls ELSE 1)'
  BY DEF DiffInv, SameQuestion
<1> QED BY <1>1, <1>3, <1>4, <1>5 DEF DiffInv

LEMMA PruneDiffKeeps == DiffInv /\ PruneDiff => DiffInv'
<1> SUFFICES ASSUME DiffInv, PruneDiff PROVE DiffInv'
  OBVIOUS
<1>1. DiffTypes /\ diffTool # "improve"
  BY DEF DiffInv, PruneDiff
<1>2. PICK packed : packed = Packed(diffTool = "describe")
  OBVIOUS
<1>3. PICK first, lists : first = packed.prompts[1] /\ lists = NamedFiles(first)
  OBVIOUS
<1>4. /\ IF Len(packed.prompts) > 1
         THEN prompts' = packed.prompts /\ named' = {}
         ELSE prompts' = <<[first EXCEPT !.tokens = lists.tokens]>> /\ named' = lists.names
      /\ remaining' = packed.rest /\ step' = "ask" /\ SameQuestion /\ UNCHANGED <<measured, calls>>
  BY <1>2, <1>3 DEF PruneDiff, Chosen, SameQuestion
<1>5. PICK ps, nm : ps = prompts' /\ nm = named'
  OBVIOUS
<1>6. IF Len(packed.prompts) > 1
      THEN ps = packed.prompts /\ nm = {}
      ELSE ps = <<[first EXCEPT !.tokens = lists.tokens]>> /\ nm = lists.names
  BY <1>4, <1>5
<1>7. Accounts(ps, nm, packed.rest)
  BY <1>1, <1>2, <1>3, <1>6, PrunedAccounts
<1> QED BY <1>4, <1>5, <1>7, PromptsAreMade

LEMMA GroupDiffsKeeps == DiffInv /\ GroupDiffs => DiffInv'
<1> SUFFICES ASSUME DiffInv, GroupDiffs PROVE DiffInv'
  OBVIOUS
<1>1. DiffTypes /\ diffTool = "improve" /\ named \in SUBSET Patched
  BY DEF DiffInv, GroupDiffs
<1>2. PICK ps : ps = Grouped
  OBVIOUS
<1>3. Accounts(ps, named, remaining)
  BY <1>1, <1>2, GroupedAccounts
<1>4. /\ prompts' = ps /\ named' = named /\ remaining' = remaining /\ step' = "ask"
      /\ SameQuestion /\ UNCHANGED <<measured, calls>>
  BY <1>2 DEF GroupDiffs, Chosen, SameQuestion
<1> QED BY <1>3, <1>4, PromptsAreMade

LEMMA AskModelKeeps == DiffInv /\ AskModel => DiffInv'
<1> SUFFICES ASSUME DiffInv, AskModel PROVE DiffInv'
  OBVIOUS
<1>1. /\ SameQuestion /\ step' = "done" /\ calls' = CallsFor
      /\ prompts' = prompts /\ named' = named /\ remaining' = remaining /\ measured' = measured
  BY DEF AskModel, SameQuestion, Chosen
<1>2. Accounts(prompts, named, remaining)
  BY DEF DiffInv, AskModel, Ready
<1>3. PICK ps, nm, rem : ps = prompts /\ nm = named /\ rem = remaining
  OBVIOUS
<1>4. Accounts(prompts, named, remaining)' /\ Patched' = Patched
  BY <1>1, <1>2, <1>3, AccountsStay
<1>5. CallsFor <= IF diffTool = "improve" THEN MaxCalls ELSE IF diffTool = "describe" THEN MaxAiCalls ELSE 1
  <2>1. Len(prompts) \in Nat /\ Len(prompts) <= MayCall
    BY <1>2 DEF Accounts
  <2> QED BY <2>1, CallBounds DEF CallsFor, MayCall
<1>6. DiffTypes'
  BY <1>1 DEF DiffInv, DiffTypes, SameQuestion
<1>7. Once(prompts)' /\ Shown(prompts)' \cup named' \subseteq Patched'
  BY <1>1, <1>4 DEF DiffInv, Once, Shown
<1>8. (calls <= IF diffTool = "improve" THEN MaxCalls ELSE IF diffTool = "describe" THEN MaxAiCalls ELSE 1)'
  BY <1>1, <1>5 DEF SameQuestion
<1> QED BY <1>1, <1>4, <1>6, <1>7, <1>8 DEF DiffInv

LEMMA TryNextModelKeeps == DiffInv /\ TryNextModel => DiffInv'
<1> SUFFICES ASSUME DiffInv, TryNextModel PROVE DiffInv'
  OBVIOUS
<1>1. model' \in DOMAIN Limits
  <2>1. Limits \in Seq(Nat)
    BY BudgetAssumption
  <2>2. DOMAIN Limits = 1..Len(Limits) /\ Len(Limits) \in Nat
    BY <2>1
  <2> QED BY <2>2 DEF TryNextModel, DiffInv, DiffTypes
<1>2. DiffTypes'
  BY <1>1 DEF DiffInv, DiffTypes, TryNextModel, Chosen
<1>3. step' \in {"fetch", "failed"}
  BY DEF TryNextModel
<1>4. Shown(prompts)' = Shown(prompts) /\ named' = named /\ Patched' = Patched /\ (Once(prompts)' <=> Once(prompts))
  BY DEF TryNextModel, Chosen, Shown, Patched, Kind, Once
<1>5. (calls <= IF diffTool = "improve" THEN MaxCalls ELSE IF diffTool = "describe" THEN MaxAiCalls ELSE 1)'
  BY DEF DiffInv, TryNextModel, Chosen
<1> QED BY <1>2, <1>3, <1>4, <1>5 DEF DiffInv, Ready

LEMMA DiffInvHolds == DiffSpec => []DiffInv
<1>1. DiffInv /\ [DiffNext]_diffVars => DiffInv'
  <2> SUFFICES ASSUME DiffInv, [DiffNext]_diffVars PROVE DiffInv'
    OBVIOUS
  <2>1. ASSUME UNCHANGED diffVars PROVE DiffInv'
    <3>1. SameQuestion /\ step' = step /\ calls' = calls /\ measured' = measured
          /\ prompts' = prompts /\ named' = named /\ remaining' = remaining
      BY <2>1 DEF diffVars, SameQuestion
    <3>2. PICK ps, nm, rem : ps = prompts /\ nm = named /\ rem = remaining
      OBVIOUS
    <3>3. Ready' => Accounts(prompts, named, remaining)'
      <4>1. Ready' => Accounts(ps, nm, rem)
        BY <3>1, <3>2 DEF DiffInv, Ready
      <4> QED BY <3>1, <3>2, <4>1, AccountsStay
    <3>4. DiffTypes'
      BY <3>1 DEF DiffInv, DiffTypes, SameQuestion
    <3>5. Shown(prompts)' = Shown(prompts) /\ Patched' = Patched /\ (Once(prompts)' <=> Once(prompts))
      BY <3>1 DEF SameQuestion, Shown, Patched, Kind, Once
    <3> QED BY <3>1, <3>3, <3>4, <3>5 DEF DiffInv, SameQuestion
  <2>2. CASE StartTool
    BY <2>2, StartToolKeeps
  <2>3. CASE GetDiffFiles
    BY <2>3, GetDiffFilesKeeps
  <2>4. CASE MeasureDiff
    BY <2>4, MeasureDiffKeeps
  <2>5. CASE PruneDiff
    BY <2>5, PruneDiffKeeps
  <2>6. CASE GroupDiffs
    BY <2>6, GroupDiffsKeeps
  <2>7. CASE AskModel
    BY <2>7, AskModelKeeps
  <2>8. CASE TryNextModel
    BY <2>8, TryNextModelKeeps
  <2> QED BY <2>1, <2>2, <2>3, <2>4, <2>5, <2>6, <2>7, <2>8 DEF DiffNext
<1> QED BY <1>1, DiffStarts, PTL DEF DiffSpec

\* A step of the pipeline is where it is, a model is tried, only files with a patch are
\* shown or named, and no tool makes more calls than it may.
THEOREM DiffTypesHold == DiffSpec => []DiffTypeOK
<1>1. DiffInv => DiffTypeOK
  BY DEF DiffInv, DiffTypes, DiffTypeOK, InPrompts, Shown
<1> QED BY <1>1, DiffInvHolds, PTL

\* Every prompt fits the model that is asked, for any files, sizes and limits, with the
\* lists of names and across fallback models.
THEOREM PromptsFit == DiffSpec => []PromptFits
<1>1. DiffInv => PromptFits
  BY DEF DiffInv, PromptFits, Accounts
<1> QED BY <1>1, DiffInvHolds, PTL

\* Every file of a diff is in one prompt once, or there is a reason for it to be in none,
\* and what is left out for want of room is said.
THEOREM FilesAccounted == DiffSpec => []FilesAreAccountedFor
<1>1. DiffInv => ShownOnce
  BY DEF DiffInv, ShownOnce, Once, Accounts
<1>2. InPrompts = Shown(prompts)
  BY DEF InPrompts, Shown
<1>3. DiffInv => NothingForgotten
  BY <1>2 DEF DiffInv, NothingForgotten, Accounts
<1>4. DiffInv => LeftOverIsSaid
  <2> SUFFICES ASSUME DiffInv, Ready, diffTool # "improve", promptTokens <= Limit - Hard, NEW f \in Unsaid
               PROVE  IF Len(prompts) > 1 THEN f \in Range(remaining)
                      ELSE Kind(f).type = "UNKNOWN" \/ prompts[1].tokens + Delta + 1 >= Limit - Hard
    BY DEF LeftOverIsSaid
  <2>1. f \in Patched /\ f \notin Shown(prompts) \cup named /\ ~Deleted(f) /\ Kind(f).cut > 0
    BY <1>2 DEF Unsaid
  <2>2. Kind(f).cut # 0
    <3>1. f \in Files /\ DiffTypes
      BY <2>1 DEF Patched, DiffInv, DiffTypes
    <3>2. Kind(f).cut \in Nat
      BY <3>1, TokensAre
    <3> QED BY <2>1, <3>2
  <2> QED BY <2>1, <2>2 DEF DiffInv, Accounts
<1>5. DiffInv => FilesAreAccountedFor
  BY <1>1, <1>3, <1>4 DEF FilesAreAccountedFor
<1> QED BY <1>5, DiffInvHolds, PTL
=============================================================================
