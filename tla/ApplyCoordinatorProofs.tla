------------------------ MODULE ApplyCoordinatorProofs ------------------------
(***************************************************************************)
(* What ApplyCoordinator promises for any projects, merge requests,        *)
(* commits, tasks and TTL.                                                 *)
(*                                                                         *)
(* None of the invariants is inductive alone.  DrainInv adds that a job is *)
(* filed under its own key; ClaimInv ties a claim to the last acceptance   *)
(* of its commit.                                                          *)
(***************************************************************************)
EXTENDS ApplyCoordinator, TLAPS

(* A job is filed under its own key. *)
FiledUnderKey ==
    /\ \A k \in Key : running[k] # NoJob => KeyOf(running[k]) = k
    /\ \A k \in Key : pending[k] # NoJob => KeyOf(pending[k]) = k

DrainInv ==
    /\ TypeOK
    /\ FiledUnderKey
    /\ RunningIsDrained
    /\ PendingHasDrainer
    /\ OneDrainerPerMR
    /\ NewestIsKept

(* The last acceptance of a commit is its claim, or is older than the TTL. *)
LastAccepted(c) == accepted[c][Len(accepted[c])]

ClaimIsLastAcceptance ==
    \A c \in ClaimKey :
        /\ \A i \in 1..Len(accepted[c]) : accepted[c][i] <= LastAccepted(c)
        /\ accepted[c] # <<>> => LastAccepted(c) <= now
        /\ claims[c] # NoClaim => accepted[c] # <<>> /\ claims[c] = LastAccepted(c)
        /\ claims[c] = NoClaim /\ accepted[c] # <<>> => now - LastAccepted(c) > ClaimTTL

ClaimInv == TypeOK /\ ClaimIsLastAcceptance /\ OncePerTTL

-----------------------------------------------------------------------------
LEMMA KeyOfJob == \A job \in Job : KeyOf(job) \in Key /\ ClaimOf(job) \in ClaimKey
BY DEF Job, Key, ClaimKey, KeyOf, ClaimOf

(* The claims that are left after expiry are claims. *)
LEMMA LiveClaimsType ==
    ASSUME TypeOK
    PROVE  /\ LiveClaims \in [ClaimKey -> Nat \cup {NoClaim}]
           /\ \A c \in ClaimKey :
                 LiveClaims[c] = IF Expired(c) THEN NoClaim ELSE claims[c]
BY DEF TypeOK, LiveClaims

LEMMA InitTypeOK == Init => TypeOK
BY DEF Init, TypeOK

LEMMA NextTypeOK == TypeOK /\ [Next]_vars => TypeOK'
<1> SUFFICES ASSUME TypeOK, [Next]_vars PROVE TypeOK'
  OBVIOUS
<1> USE CoordinatorAssumption
<1>1. ASSUME NEW t \in Tasks, NEW job \in Job, Webhook(t, job)
      PROVE  TypeOK'
  <2>1. KeyOf(job) \in Key /\ ClaimOf(job) \in ClaimKey
    BY KeyOfJob
  <2>2. LiveClaims \in [ClaimKey -> Nat \cup {NoClaim}]
    BY LiveClaimsType
  <2>3. CASE EnqueueDuplicate(job) /\ UNCHANGED drainer
    BY <1>1, <2>2, <2>3 DEF TypeOK, Webhook, EnqueueDuplicate
  <2>4. ASSUME Claim(job)
        PROVE  /\ claims' \in [ClaimKey -> Nat \cup {NoClaim}]
               /\ newest' \in [Key -> Job \cup {NoJob}]
               /\ accepted' \in [ClaimKey -> Seq(Nat)]
    BY <2>1, <2>2, <2>4 DEF TypeOK, Claim
  <2>5. CASE EnqueueQueued(job) /\ UNCHANGED drainer
    BY <1>1, <2>1, <2>4, <2>5 DEF TypeOK, Webhook, EnqueueQueued
  <2>6. CASE EnqueueStart(job) /\ drainer' = [drainer EXCEPT ![t] = job]
    BY <1>1, <2>1, <2>4, <2>6 DEF TypeOK, Webhook, EnqueueStart
  <2>7. QED
    BY <1>1, <2>3, <2>5, <2>6 DEF Webhook
<1>2. ASSUME NEW t \in Tasks, DrainNext(t)
      PROVE  TypeOK'
  <2>1. drainer[t] \in Job
    BY <1>2 DEF TypeOK, DrainNext
  <2>2. KeyOf(drainer[t]) \in Key
    BY <2>1, KeyOfJob
  <2>3. QED
    BY <1>2, <2>1, <2>2 DEF TypeOK, DrainNext, Complete
<1>3. CASE Tick
  BY <1>3 DEF TypeOK, Tick
<1>4. CASE UNCHANGED vars
  BY <1>4 DEF TypeOK, vars
<1>5. QED
  BY <1>1, <1>2, <1>3, <1>4 DEF Next

(* Every variable keeps its type. *)
THEOREM TypeCorrect == Spec => []TypeOK
<1>1. QED
  BY InitTypeOK, NextTypeOK, PTL DEF Spec

-----------------------------------------------------------------------------
LEMMA InitDrainInv == Init => DrainInv
BY InitTypeOK, CoordinatorAssumption
   DEF Init, DrainInv, FiledUnderKey, RunningIsDrained, PendingHasDrainer,
       OneDrainerPerMR, NewestIsKept

LEMMA NextDrainInv == DrainInv /\ [Next]_vars => DrainInv'
<1> SUFFICES ASSUME DrainInv, [Next]_vars PROVE DrainInv'
  OBVIOUS
<1> USE CoordinatorAssumption
<1>0. TypeOK /\ TypeOK'
  BY NextTypeOK DEF DrainInv
<1>1. ASSUME NEW t \in Tasks, NEW job \in Job, Webhook(t, job)
      PROVE  DrainInv'
  <2> DEFINE k == KeyOf(job)
  <2>1. k \in Key /\ job # NoJob
    BY KeyOfJob
  <2>2. CASE EnqueueDuplicate(job) /\ UNCHANGED drainer
    BY <1>0, <1>1, <2>2
       DEF Webhook, EnqueueDuplicate, DrainInv, FiledUnderKey, RunningIsDrained,
           PendingHasDrainer, OneDrainerPerMR, NewestIsKept
  <2>3. CASE EnqueueQueued(job) /\ UNCHANGED drainer
    <3>1. /\ running[k] # NoJob
          /\ running' = running
          /\ drainer' = drainer
          /\ pending' = [pending EXCEPT ![k] = job]
          /\ newest' = [newest EXCEPT ![k] = job]
      BY <2>3 DEF EnqueueQueued, Claim
    <3>2. FiledUnderKey'
      BY <1>0, <2>1, <3>1 DEF DrainInv, TypeOK, FiledUnderKey
    <3>3. RunningIsDrained' /\ OneDrainerPerMR'
      BY <3>1 DEF DrainInv, RunningIsDrained, OneDrainerPerMR
    <3>4. PendingHasDrainer'
      BY <1>0, <2>1, <3>1 DEF DrainInv, TypeOK, PendingHasDrainer
    <3>5. NewestIsKept'
      BY <1>0, <2>1, <3>1 DEF DrainInv, TypeOK, NewestIsKept
    <3>6. QED
      BY <1>0, <3>2, <3>3, <3>4, <3>5 DEF DrainInv
  <2>4. CASE EnqueueStart(job) /\ drainer' = [drainer EXCEPT ![t] = job]
    <3>1. /\ running[k] = NoJob
          /\ drainer[t] = NoJob
          /\ running' = [running EXCEPT ![k] = job]
          /\ pending' = pending
          /\ drainer' = [drainer EXCEPT ![t] = job]
          /\ newest' = [newest EXCEPT ![k] = job]
      BY <1>1, <2>4 DEF Webhook, EnqueueStart, Claim
    <3>2. pending[k] = NoJob
      BY <2>1, <3>1 DEF DrainInv, PendingHasDrainer
    <3>3. \A s \in Tasks : drainer[s] # NoJob => KeyOf(drainer[s]) # k
      BY <3>1 DEF DrainInv, RunningIsDrained
    <3>4. FiledUnderKey'
      BY <1>0, <2>1, <3>1 DEF DrainInv, TypeOK, FiledUnderKey
    <3>5. RunningIsDrained'
      <4>1. ASSUME NEW l \in Key, running'[l] # NoJob
            PROVE  \E s \in Tasks : drainer'[s] = running'[l]
        <5>1. CASE l = k
          BY <1>0, <2>1, <3>1, <5>1 DEF TypeOK
        <5>2. CASE l # k
          <6>1. running'[l] = running[l]
            BY <1>0, <3>1, <5>2 DEF TypeOK
          <6>2. PICK s \in Tasks : drainer[s] = running[l]
            BY <4>1, <6>1 DEF DrainInv, RunningIsDrained
          <6>3. s # t
            BY <3>1, <4>1, <6>1, <6>2
          <6>4. QED
            BY <1>0, <3>1, <6>1, <6>2, <6>3 DEF TypeOK
        <5>3. QED
          BY <5>1, <5>2
      <4>2. ASSUME NEW s \in Tasks, drainer'[s] # NoJob
            PROVE  running'[KeyOf(drainer'[s])] = drainer'[s]
        <5>1. CASE s = t
          BY <1>0, <2>1, <3>1, <5>1 DEF TypeOK
        <5>2. CASE s # t
          <6>1. drainer'[s] = drainer[s]
            BY <1>0, <3>1, <5>2 DEF TypeOK
          <6>2. drainer[s] \in Job /\ KeyOf(drainer[s]) \in Key
            BY <1>0, <4>2, <6>1, KeyOfJob DEF TypeOK
          <6>3. QED
            BY <1>0, <3>1, <3>3, <4>2, <6>1, <6>2
               DEF TypeOK, DrainInv, RunningIsDrained
        <5>3. QED
          BY <5>1, <5>2
      <4>3. QED
        BY <4>1, <4>2 DEF RunningIsDrained
    <3>6. PendingHasDrainer'
      BY <1>0, <2>1, <3>1 DEF DrainInv, TypeOK, PendingHasDrainer
    <3>7. OneDrainerPerMR'
      BY <1>0, <3>1, <3>3 DEF DrainInv, TypeOK, OneDrainerPerMR
    <3>8. NewestIsKept'
      BY <1>0, <2>1, <3>1, <3>2 DEF DrainInv, TypeOK, NewestIsKept
    <3>9. QED
      BY <1>0, <3>4, <3>5, <3>6, <3>7, <3>8 DEF DrainInv
  <2>5. QED
    BY <1>1, <2>2, <2>3, <2>4 DEF Webhook
<1>2. ASSUME NEW t \in Tasks, DrainNext(t)
      PROVE  DrainInv'
  <2> DEFINE job == drainer[t]
             k == KeyOf(job)
             next == pending[k]
  <2>1. job \in Job /\ job # NoJob /\ k \in Key
    BY <1>0, <1>2, KeyOfJob DEF TypeOK, DrainNext
  <2>2. running[k] = job
    BY <2>1 DEF DrainInv, RunningIsDrained
  <2>3. /\ running' = [running EXCEPT ![k] = next]
        /\ pending' = [pending EXCEPT ![k] = NoJob]
        /\ drainer' = [drainer EXCEPT ![t] = next]
        /\ newest' = [newest EXCEPT ![k] = IF @ = job THEN NoJob ELSE @]
    BY <1>2, <2>1, <2>2 DEF DrainNext, Complete
  <2>4. next # NoJob => KeyOf(next) = k
    BY <2>1 DEF DrainInv, FiledUnderKey
  <2>5. \A s \in Tasks : s # t /\ drainer[s] # NoJob => KeyOf(drainer[s]) # k
    BY <2>1 DEF DrainInv, OneDrainerPerMR
  <2>6. FiledUnderKey'
    BY <1>0, <2>1, <2>3, <2>4 DEF DrainInv, TypeOK, FiledUnderKey
  <2>7. RunningIsDrained'
    <3>1. ASSUME NEW l \in Key, running'[l] # NoJob
          PROVE  \E s \in Tasks : drainer'[s] = running'[l]
      <4>1. CASE l = k
        BY <1>0, <2>1, <2>3, <4>1 DEF TypeOK
      <4>2. CASE l # k
        <5>1. running'[l] = running[l]
          BY <1>0, <2>3, <4>2 DEF TypeOK
        <5>2. PICK s \in Tasks : drainer[s] = running[l]
          BY <3>1, <5>1 DEF DrainInv, RunningIsDrained
        <5>3. s # t
          BY <3>1, <4>2, <5>1, <5>2 DEF DrainInv, FiledUnderKey
        <5>4. QED
          BY <1>0, <2>3, <5>1, <5>2, <5>3 DEF TypeOK
      <4>3. QED
        BY <4>1, <4>2
    <3>2. ASSUME NEW s \in Tasks, drainer'[s] # NoJob
          PROVE  running'[KeyOf(drainer'[s])] = drainer'[s]
      <4>1. CASE s = t
        BY <1>0, <2>1, <2>3, <2>4, <3>2, <4>1 DEF TypeOK
      <4>2. CASE s # t
        <5>1. drainer'[s] = drainer[s]
          BY <1>0, <2>3, <4>2 DEF TypeOK
        <5>2. drainer[s] \in Job /\ KeyOf(drainer[s]) \in Key
          BY <1>0, <3>2, <5>1, KeyOfJob DEF TypeOK
        <5>3. QED
          BY <1>0, <2>3, <2>5, <3>2, <4>2, <5>1, <5>2
             DEF TypeOK, DrainInv, RunningIsDrained
      <4>3. QED
        BY <4>1, <4>2
    <3>3. QED
      BY <3>1, <3>2 DEF RunningIsDrained
  <2>8. PendingHasDrainer'
    BY <1>0, <2>1, <2>3 DEF DrainInv, TypeOK, PendingHasDrainer
  <2>9. OneDrainerPerMR'
    BY <1>0, <2>3, <2>4, <2>5 DEF DrainInv, TypeOK, OneDrainerPerMR
  <2>10. NewestIsKept'
    BY <1>0, <2>1, <2>2, <2>3 DEF DrainInv, TypeOK, NewestIsKept
  <2>11. QED
    BY <1>0, <2>6, <2>7, <2>8, <2>9, <2>10 DEF DrainInv
<1>3. CASE Tick
  BY <1>0, <1>3
     DEF Tick, DrainInv, FiledUnderKey, RunningIsDrained, PendingHasDrainer,
         OneDrainerPerMR, NewestIsKept
<1>4. CASE UNCHANGED vars
  BY <1>0, <1>4
     DEF vars, DrainInv, FiledUnderKey, RunningIsDrained, PendingHasDrainer,
         OneDrainerPerMR, NewestIsKept
<1>5. QED
  BY <1>1, <1>2, <1>3, <1>4 DEF Next

(* At most one task drains a merge request. *)
THEOREM DrainersAreUnique == Spec => []OneDrainerPerMR
<1>1. DrainInv => OneDrainerPerMR
  BY DEF DrainInv
<1>2. QED
  BY <1>1, InitDrainInv, NextDrainInv, PTL DEF Spec

(* A merge request marked as running is being drained, and conversely. *)
THEOREM RunningMeansDrained == Spec => []RunningIsDrained
<1>1. DrainInv => RunningIsDrained
  BY DEF DrainInv
<1>2. QED
  BY <1>1, InitDrainInv, NextDrainInv, PTL DEF Spec

(* What waits, waits behind a run that will hand it on. *)
THEOREM PendingJobsHaveDrainers == Spec => []PendingHasDrainer
<1>1. DrainInv => PendingHasDrainer
  BY DEF DrainInv
<1>2. QED
  BY <1>1, InitDrainInv, NextDrainInv, PTL DEF Spec

(* The newest accepted job waits or runs until it is completed. *)
THEOREM NewestIsNeverLost == Spec => []NewestIsKept
<1>1. DrainInv => NewestIsKept
  BY DEF DrainInv
<1>2. QED
  BY <1>1, InitDrainInv, NextDrainInv, PTL DEF Spec

-----------------------------------------------------------------------------
LEMMA InitClaimInv == Init => ClaimInv
BY InitTypeOK DEF Init, ClaimInv, ClaimIsLastAcceptance, OncePerTTL

LEMMA AppendFacts ==
    ASSUME NEW s \in Seq(Nat), NEW n \in Nat
    PROVE  /\ Len(s) \in Nat
           /\ Len(Append(s, n)) = Len(s) + 1
           /\ Append(s, n) # <<>>
           /\ Append(s, n)[Len(s) + 1] = n
           /\ \A i \in 1..Len(s) : Append(s, n)[i] = s[i]
OBVIOUS

(* Accepting a job: its commit had no live claim, so its last acceptance, and
   with it every earlier one, is older than the TTL. *)
LEMMA ClaimStep ==
    ASSUME ClaimInv, NEW job \in Job, Claim(job), UNCHANGED now
    PROVE  ClaimIsLastAcceptance' /\ OncePerTTL'
<1> DEFINE a == ClaimOf(job)
<1> USE CoordinatorAssumption
<1>1. a \in ClaimKey
  BY KeyOfJob
<1>2. TypeOK
  BY DEF ClaimInv
<1>3. now \in Nat /\ ClaimTTL \in Nat /\ now' = now
  BY <1>2 DEF TypeOK
<1>4. /\ accepted[a] # <<>> => now - LastAccepted(a) > ClaimTTL
      /\ \A i \in 1..Len(accepted[a]) : accepted[a][i] \in Nat
      /\ \A i \in 1..Len(accepted[a]) : now - accepted[a][i] > ClaimTTL
  <2>1. accepted[a] \in Seq(Nat)
    BY <1>1, <1>2 DEF TypeOK
  <2>2. claims[a] = NoClaim \/ now - claims[a] > ClaimTTL
    BY <1>1, <1>2, LiveClaimsType DEF Claim, Claimed, Expired
  <2>3. accepted[a] # <<>> => now - LastAccepted(a) > ClaimTTL
    BY <1>1, <2>2 DEF ClaimInv, ClaimIsLastAcceptance
  <2>4. \A i \in 1..Len(accepted[a]) : accepted[a][i] <= LastAccepted(a)
    BY <1>1 DEF ClaimInv, ClaimIsLastAcceptance
  <2>5. accepted[a] # <<>> => LastAccepted(a) \in Nat
    BY <2>1 DEF LastAccepted
  <2>6. QED
    BY <1>3, <2>1, <2>3, <2>4, <2>5
<1>5. ASSUME NEW c \in ClaimKey
      PROVE  /\ accepted'[c] = IF c = a THEN Append(accepted[c], now) ELSE accepted[c]
             /\ claims'[c] = IF c = a THEN now ELSE LiveClaims[c]
             /\ accepted[c] \in Seq(Nat)
             /\ claims[c] \in Nat \cup {NoClaim}
             /\ LiveClaims[c] = IF Expired(c) THEN NoClaim ELSE claims[c]
  BY <1>2, LiveClaimsType DEF Claim, TypeOK
(* What the new history of a commit looks like, element by element. *)
<1>a. ASSUME NEW c \in ClaimKey
      PROVE  /\ Len(accepted[c]) \in Nat
             /\ \A m \in 1..Len(accepted[c]) : accepted'[c][m] = accepted[c][m]
             /\ c # a => accepted'[c] = accepted[c]
             /\ c = a => /\ Len(accepted'[c]) = Len(accepted[c]) + 1
                         /\ accepted'[c] # <<>>
                         /\ accepted'[c][Len(accepted[c]) + 1] = now
  <2>1. accepted[c] \in Seq(Nat) /\ Len(accepted[c]) \in Nat
    BY <1>5, AppendFacts, <1>3
  <2>2. CASE c # a
    BY <1>5, <2>1, <2>2
  <2>3. CASE c = a
    <3>1. accepted'[c] = Append(accepted[c], now)
      BY <1>5, <2>3
    <3>2. QED
      BY <1>3, <2>1, <2>3, <3>1, AppendFacts
  <2>4. QED
    BY <2>2, <2>3
<1>6. ClaimIsLastAcceptance'
  <2> SUFFICES ASSUME NEW c \in ClaimKey
               PROVE  /\ \A i \in 1..Len(accepted'[c]) : accepted'[c][i] <= LastAccepted(c)'
                      /\ accepted'[c] # <<>> => LastAccepted(c)' <= now'
                      /\ claims'[c] # NoClaim =>
                            accepted'[c] # <<>> /\ claims'[c] = LastAccepted(c)'
                      /\ claims'[c] = NoClaim /\ accepted'[c] # <<>> =>
                            now' - LastAccepted(c)' > ClaimTTL
    BY DEF ClaimIsLastAcceptance
  <2>1. CASE c = a
    <3>1. /\ Len(accepted'[c]) = Len(accepted[c]) + 1
          /\ accepted'[c] # <<>>
          /\ LastAccepted(c)' = now
          /\ \A i \in 1..Len(accepted[c]) : accepted'[c][i] = accepted[c][i]
      BY <1>a, <2>1 DEF LastAccepted
    <3>2. \A i \in 1..Len(accepted[c]) : accepted[c][i] <= now
      BY <1>3, <1>4, <2>1
    <3>3. claims'[c] = now
      BY <1>5, <2>1
    <3>4. \A i \in 1..Len(accepted'[c]) : accepted'[c][i] <= LastAccepted(c)'
      <4>1. TAKE i \in 1..Len(accepted'[c])
      <4>2. CASE i = Len(accepted'[c])
        BY <1>3, <3>1, <4>2 DEF LastAccepted
      <4>3. CASE i # Len(accepted'[c])
        <5>1. i \in 1..Len(accepted[c])
          BY <1>5, <3>1, <4>3
        <5>2. QED
          BY <3>1, <3>2, <5>1
      <4>4. QED
        BY <4>2, <4>3
    <3>5. QED
      BY <1>3, <3>1, <3>3, <3>4
  <2>2. CASE c # a
    <3>1. accepted'[c] = accepted[c] /\ LastAccepted(c)' = LastAccepted(c)
      BY <1>5, <2>2 DEF LastAccepted
    <3>2. claims'[c] = LiveClaims[c]
      BY <1>5, <2>2
    <3>3. QED
      BY <1>3, <1>5, <3>1, <3>2 DEF ClaimInv, ClaimIsLastAcceptance, Expired
  <2>3. QED
    BY <2>1, <2>2
<1>7. OncePerTTL'
  <2> SUFFICES ASSUME NEW c \in ClaimKey,
                      NEW i \in 1..Len(accepted'[c]), NEW j \in 1..Len(accepted'[c]),
                      i < j
               PROVE  accepted'[c][j] - accepted'[c][i] > ClaimTTL
    BY DEF OncePerTTL
  <2>1. CASE c = a /\ j = Len(accepted'[c])
    <3>1. i \in 1..Len(accepted[c])
      BY <1>a, <2>1
    <3>2. accepted'[c][i] = accepted[c][i] /\ accepted'[c][j] = now
      BY <1>a, <2>1, <3>1
    <3>3. QED
      BY <1>4, <2>1, <3>1, <3>2
  <2>2. CASE ~(c = a /\ j = Len(accepted'[c]))
    <3>1. i \in 1..Len(accepted[c]) /\ j \in 1..Len(accepted[c])
      BY <1>a, <2>2
    <3>2. accepted'[c][i] = accepted[c][i] /\ accepted'[c][j] = accepted[c][j]
      BY <1>a, <3>1
    <3>3. QED
      BY <3>1, <3>2 DEF ClaimInv, OncePerTTL
  <2>3. QED
    BY <2>1, <2>2
<1>8. QED
  BY <1>6, <1>7

LEMMA NextClaimInv == ClaimInv /\ [Next]_vars => ClaimInv'
<1> SUFFICES ASSUME ClaimInv, [Next]_vars PROVE ClaimInv'
  OBVIOUS
<1> USE CoordinatorAssumption
<1>0. TypeOK /\ TypeOK'
  BY NextTypeOK DEF ClaimInv
<1>1. ASSUME NEW t \in Tasks, NEW job \in Job, Webhook(t, job)
      PROVE  ClaimIsLastAcceptance' /\ OncePerTTL'
  <2>1. CASE Claim(job)
    BY <1>1, <2>1, ClaimStep DEF Webhook
  <2>2. CASE EnqueueDuplicate(job)
    <3>1. claims' = LiveClaims /\ accepted' = accepted /\ now' = now
      BY <1>1, <2>2 DEF Webhook, EnqueueDuplicate
    <3>2. now \in Nat /\ ClaimTTL \in Nat
      BY <1>0 DEF TypeOK
    <3>3. ASSUME NEW c \in ClaimKey
          PROVE  /\ claims'[c] = IF Expired(c) THEN NoClaim ELSE claims[c]
                 /\ claims[c] \in Nat \cup {NoClaim}
                 /\ LastAccepted(c)' = LastAccepted(c)
      BY <1>0, <3>1, LiveClaimsType DEF TypeOK, LastAccepted
    <3>4. ClaimIsLastAcceptance'
      BY <3>1, <3>2, <3>3 DEF ClaimInv, ClaimIsLastAcceptance, Expired
    <3>5. OncePerTTL'
      BY <3>1 DEF ClaimInv, OncePerTTL
    <3>6. QED
      BY <3>4, <3>5
  <2>3. QED
    BY <1>1, <2>1, <2>2 DEF Webhook, EnqueueQueued, EnqueueStart
<1>2. ASSUME NEW t \in Tasks, DrainNext(t)
      PROVE  ClaimIsLastAcceptance' /\ OncePerTTL'
  BY <1>2 DEF DrainNext, ClaimInv, ClaimIsLastAcceptance, OncePerTTL, LastAccepted
<1>3. CASE Tick
  <2>1. now' = now + 1 /\ claims' = claims /\ accepted' = accepted
    BY <1>3 DEF Tick
  <2>2. now \in Nat /\ ClaimTTL \in Nat
    BY <1>0 DEF TypeOK
  <2>3. \A c \in ClaimKey : accepted[c] # <<>> => LastAccepted(c) \in Nat
    BY <1>0 DEF TypeOK, LastAccepted
  <2>4. ClaimIsLastAcceptance'
    BY <2>1, <2>2, <2>3 DEF ClaimInv, ClaimIsLastAcceptance, LastAccepted
  <2>5. OncePerTTL'
    BY <2>1 DEF ClaimInv, OncePerTTL
  <2>6. QED
    BY <1>0, <2>4, <2>5 DEF ClaimInv
<1>4. CASE UNCHANGED vars
  BY <1>0, <1>4 DEF vars, ClaimInv, ClaimIsLastAcceptance, OncePerTTL, LastAccepted
<1>5. QED
  BY <1>0, <1>1, <1>2, <1>3, <1>4 DEF Next, ClaimInv

(* A commit is accepted at most once per TTL. *)
THEOREM AcceptedOncePerTTL == Spec => []OncePerTTL
<1>1. ClaimInv => OncePerTTL
  BY DEF ClaimInv
<1>2. QED
  BY <1>1, InitClaimInv, NextClaimInv, PTL DEF Spec
=============================================================================
