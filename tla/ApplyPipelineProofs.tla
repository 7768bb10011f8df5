-------------------------- MODULE ApplyPipelineProofs --------------------------
(***************************************************************************)
(* What ApplyPipeline promises for any merge requests, commits, tasks,     *)
(* TTL, cooldown and number of commands: the slot excludes and cools down, *)
(* and the pipeline is a refinement of the coordinator.                    *)
(***************************************************************************)
EXTENDS ApplyPipeline, TLAPS

(* An idle task drains nothing, and a task at the slot has a payload that has
   a slot. *)
SlotWork ==
    \A t \in Tasks :
        /\ pc[t] = "idle" => drainer[t] = NoJob
        /\ pc[t] \in {"slot", "queuedSlot", "commands"} => Work(t) # NoRun
        /\ pc[t] \in {"slot", "queuedSlot"} => Work(t).hook # "note"

SlotInv == TypeOK /\ SlotWork /\ SlotExclusion /\ CooldownKept

CoordinatorSafety == Coordinator!Init /\ [][Coordinator!Next]_(Coordinator!vars)

-----------------------------------------------------------------------------
LEMMA CoordinatorStep == [Next]_vars => [Coordinator!Next]_(Coordinator!vars)
<1> SUFFICES ASSUME [Next]_vars PROVE [Coordinator!Next]_(Coordinator!vars)
  OBVIOUS
<1>1. ASSUME NEW t \in Tasks, NEW job \in Coordinator!Job, ReceiveApply(t, job)
      PROVE  Coordinator!Next
  BY <1>1 DEF ReceiveApply, Coordinator!Next
<1>2. ASSUME NEW t \in Tasks, Drain(t)
      PROVE  Coordinator!Next
  BY <1>2 DEF Drain, Coordinator!Next
<1>3. CASE Tick
  BY <1>3 DEF Tick, Coordinator!Next
<1>4. CASE UNCHANGED coordVars
  BY <1>4 DEF coordVars, Coordinator!vars
<1>5. ASSUME NEW t \in Tasks,
             \/ Decline(t) \/ RefuseSlot(t) \/ AcquireSlot(t) \/ ReleaseSlot(t)
             \/ Return(t) \/ EndCommand(t)
             \/ \E project \in Projects, iid \in Iids :
                   ReceiveMR(t, project, iid) \/ ReceiveNote(t, project, iid)
      PROVE  UNCHANGED coordVars
  BY <1>5 DEF Decline, RefuseSlot, AcquireSlot, ReleaseSlot, Return, EndCommand,
              ReceiveMR, ReceiveNote
<1>6. CASE UNCHANGED vars
  BY <1>4, <1>6 DEF vars
<1>7. QED
  BY <1>1, <1>2, <1>3, <1>4, <1>5, <1>6 DEF Next, Receive, HoldsLoop

(* Every step of the pipeline is a step of the coordinator or leaves it alone. *)
THEOREM PipelineRefinesCoordinator == Spec => CoordinatorSafety
<1>1. Init => Coordinator!Init
  BY DEF Init
<1>2. QED
  BY <1>1, CoordinatorStep, PTL DEF Spec, CoordinatorSafety

-----------------------------------------------------------------------------
(* The coordinator's theorems, which the refinement carries over. *)
CP == INSTANCE ApplyCoordinatorProofs

LEMMA CoordinatorAssumed == CP!CoordinatorAssumption
BY PipelineAssumption DEF CP!CoordinatorAssumption, CP!Job, Coordinator!Job

LEMMA CoordinatorInit == Init => CP!Init
BY DEF Init, Coordinator!Init, CP!Init, Coordinator!ClaimKey, CP!ClaimKey,
       Coordinator!Key, CP!Key

LEMMA CoordinatorNext == [Next]_vars => [CP!Next]_(CP!vars)
<1>1. [Coordinator!Next]_(Coordinator!vars) => [CP!Next]_(CP!vars)
  BY DEF Coordinator!Next, CP!Next, Coordinator!vars, CP!vars,
         Coordinator!Tick, CP!Tick, Coordinator!Webhook, CP!Webhook,
         Coordinator!DrainNext, CP!DrainNext, Coordinator!Complete, CP!Complete,
         Coordinator!EnqueueDuplicate, CP!EnqueueDuplicate,
         Coordinator!EnqueueStart, CP!EnqueueStart,
         Coordinator!EnqueueQueued, CP!EnqueueQueued,
         Coordinator!Claim, CP!Claim, Coordinator!Claimed, CP!Claimed,
         Coordinator!LiveClaims, CP!LiveClaims, Coordinator!Expired, CP!Expired,
         Coordinator!KeyOf, CP!KeyOf, Coordinator!ClaimOf, CP!ClaimOf,
         Coordinator!Job, CP!Job, Coordinator!Key, CP!Key,
         Coordinator!ClaimKey, CP!ClaimKey
<1>2. QED
  BY <1>1, CoordinatorStep, SMTT(30)

LEMMA CoordinatorTypeOK ==
    /\ Init => Coordinator!TypeOK
    /\ Coordinator!TypeOK /\ [Next]_vars => Coordinator!TypeOK'
<1>1. Coordinator!TypeOK <=> CP!TypeOK
  BY DEF Coordinator!TypeOK, CP!TypeOK, Coordinator!Job, CP!Job, Coordinator!Key,
         CP!Key, Coordinator!ClaimKey, CP!ClaimKey
<1>2. (Coordinator!TypeOK <=> CP!TypeOK)'
  BY DEF Coordinator!TypeOK, CP!TypeOK, Coordinator!Job, CP!Job, Coordinator!Key,
         CP!Key, Coordinator!ClaimKey, CP!ClaimKey
<1>3. QED
  BY <1>1, <1>2, CoordinatorAssumed, CoordinatorInit, CoordinatorNext,
     CP!InitTypeOK, CP!NextTypeOK

(* No merge request is drained by two tasks, whatever the hooks, the slots and
   the comment commands do meanwhile. *)
THEOREM ApplyRunsAreSerialized == Spec => []ApplyRunsAreSerial
<1>1. CP!DrainInv => ApplyRunsAreSerial
  BY DEF CP!DrainInv, CP!OneDrainerPerMR, CP!KeyOf, ApplyRunsAreSerial, MROf, Work
<1>2. Init => CP!DrainInv
  BY CoordinatorAssumed, CoordinatorInit, CP!InitDrainInv
<1>3. CP!DrainInv /\ [Next]_vars => CP!DrainInv'
  BY CoordinatorAssumed, CoordinatorNext, CP!NextDrainInv
<1>4. QED
  BY <1>1, <1>2, <1>3, PTL DEF Spec

-----------------------------------------------------------------------------
LEMMA WorkType ==
    ASSUME TypeOK, NEW t \in Tasks, Work(t) # NoRun
    PROVE  MROf(t) \in MR /\ SlotOf(t) \in SlotKey
BY DEF TypeOK, Coordinator!TypeOK, Coordinator!Job, Work, MROf, SlotOf, MR, SlotKey, Run

LEMMA InitSlotInv == Init => SlotInv
BY CoordinatorTypeOK, PipelineAssumption
   DEF Init, Coordinator!Init, SlotInv, TypeOK, SlotWork, SlotExclusion, CooldownKept,
       InSlot, Work

LEMMA NextPipelineTypeOK == TypeOK /\ SlotWork /\ [Next]_vars => TypeOK'
<1> SUFFICES ASSUME TypeOK, SlotWork, [Next]_vars PROVE TypeOK'
  OBVIOUS
<1> USE PipelineAssumption
<1>0. Coordinator!TypeOK'
  BY CoordinatorTypeOK DEF TypeOK
<1>1. ASSUME NEW t \in Tasks, NEW job \in Coordinator!Job, ReceiveApply(t, job)
      PROVE  TypeOK'
  BY <1>0, <1>1 DEF ReceiveApply, TypeOK, slotVars
<1>2. ASSUME NEW t \in Tasks, NEW project \in Projects, NEW iid \in Iids,
             ReceiveMR(t, project, iid) \/ ReceiveNote(t, project, iid)
      PROVE  TypeOK'
  <2>1. /\ [project |-> project, iid |-> iid, hook |-> "update"] \in Run
        /\ [project |-> project, iid |-> iid, hook |-> "note"] \in Run
    BY DEF Run
  <2>2. QED
    BY <1>0, <1>2, <2>1 DEF ReceiveMR, ReceiveNote, TypeOK, slotVars
<1>3. ASSUME NEW t \in Tasks, Decline(t) \/ RefuseSlot(t) \/ AcquireSlot(t)
      PROVE  TypeOK'
  <2>1. MROf(t) \in MR /\ SlotOf(t) \in SlotKey
    BY <1>3, WorkType DEF Decline, RefuseSlot, AcquireSlot, AtSlot, SlotWork
  <2>2. CASE Decline(t)
    BY <1>0, <2>2 DEF Decline, TypeOK, slotVars
  <2>3. CASE RefuseSlot(t)
    BY <1>0, <2>3 DEF RefuseSlot, TypeOK, slotVars
  <2>4. CASE AcquireSlot(t)
    <3>1. PICK n \in CommandCounts : /\ left' = [left EXCEPT ![t] = n]
                                     /\ loop' = IF n = 0 THEN t ELSE NoTask
      BY <2>4 DEF AcquireSlot
    <3>2. now \in Nat
      BY DEF TypeOK, Coordinator!TypeOK
    <3>3. QED
      BY <1>0, <2>1, <2>4, <3>1, <3>2 DEF AcquireSlot, TypeOK
  <2>5. QED
    BY <1>3, <2>2, <2>3, <2>4
<1>4. ASSUME NEW t \in Tasks, EndCommand(t) \/ Return(t) \/ Drain(t)
      PROVE  TypeOK'
  BY <1>0, <1>4 DEF EndCommand, Return, Drain, TypeOK, slotVars
<1>5. ASSUME NEW t \in Tasks, ReleaseSlot(t)
      PROVE  TypeOK'
  <2>1. SlotOf(t) \in SlotKey /\ now \in Nat
    BY <1>5, WorkType DEF ReleaseSlot, SlotWork, TypeOK, Coordinator!TypeOK
  <2>2. QED
    BY <1>0, <1>5, <2>1 DEF ReleaseSlot, TypeOK
<1>6. CASE Tick
  BY <1>0, <1>6 DEF Tick, TypeOK, slotVars
<1>7. CASE UNCHANGED vars
  BY <1>0, <1>7 DEF vars, TypeOK, slotVars
<1>8. QED
  BY <1>1, <1>2, <1>3, <1>4, <1>5, <1>6, <1>7 DEF Next, Receive, HoldsLoop

-----------------------------------------------------------------------------
(* What a step of task t leaves to the other tasks, and what it does to the
   payload of t itself. *)
OthersStay(t) ==
    \A u \in Tasks \ {t} : pc'[u] = pc[u] /\ drainer'[u] = drainer[u] /\ run'[u] = run[u]

(* A step of t that neither enters nor leaves a slot. *)
Quiet(t) ==
    /\ OthersStay(t)
    /\ UNCHANGED <<holder, lastFinished, startedAt>>
    /\ ~InSlot(t)
    /\ ~InSlot(t)'

LEMMA OthersKeepWork ==
    ASSUME NEW t \in Tasks, NEW u \in Tasks, u # t, OthersStay(t)
    PROVE  /\ Work(u)' = Work(u)
           /\ SlotOf(u)' = SlotOf(u)
           /\ InSlot(u)' = InSlot(u)
BY DEF OthersStay, Work, SlotOf, InSlot

LEMMA WebhookStep ==
    ASSUME TypeOK, NEW t \in Tasks, NEW job \in Coordinator!Job, Coordinator!Webhook(t, job)
    PROVE  /\ drainer'[t] \in Coordinator!Job \cup {NoJob}
           /\ \A u \in Tasks \ {t} : drainer'[u] = drainer[u]
BY DEF Coordinator!Webhook, TypeOK, Coordinator!TypeOK

LEMMA DrainStep ==
    ASSUME TypeOK, NEW t \in Tasks, Coordinator!DrainNext(t)
    PROVE  /\ drainer'[t] \in Coordinator!Job \cup {NoJob}
           /\ \A u \in Tasks \ {t} : drainer'[u] = drainer[u]
BY DEF Coordinator!DrainNext, TypeOK, Coordinator!TypeOK

LEMMA JobWork ==
    ASSUME NEW job \in Coordinator!Job
    PROVE  job # NoRun /\ job.hook # "note"
BY PipelineAssumption DEF Coordinator!Job, Hooks

(* The actions that are quiet, and that they keep SlotWork. *)
LEMMA QuietReceive ==
    ASSUME TypeOK, SlotWork, NEW t \in Tasks, Receive(t)
    PROVE  Quiet(t) /\ SlotWork'
<1>1. ASSUME NEW job \in Coordinator!Job, ReceiveApply(t, job)
      PROVE  Quiet(t) /\ SlotWork'
  <2>1. OthersStay(t)
    BY <1>1, WebhookStep DEF ReceiveApply, OthersStay, TypeOK
  <2>2. Quiet(t)
    BY <1>1, <2>1 DEF ReceiveApply, Quiet, InSlot, slotVars, TypeOK
  <2>3. pc'[t] # "idle" => pc'[t] = "slot" /\ Work(t)' \in Coordinator!Job
    BY <1>1, WebhookStep DEF ReceiveApply, TypeOK, Work
  <2>4. pc'[t] = "idle" => drainer'[t] = NoJob
    BY <1>1 DEF ReceiveApply, TypeOK
  <2>5. QED
    BY <2>1, <2>2, <2>3, <2>4, JobWork, OthersKeepWork DEF SlotWork, OthersStay
<1>2. ASSUME NEW project \in Projects, NEW iid \in Iids, ReceiveMR(t, project, iid)
      PROVE  Quiet(t) /\ SlotWork'
  <2>1. OthersStay(t)
    BY <1>2 DEF ReceiveMR, OthersStay, TypeOK, coordVars
  <2>2. Quiet(t)
    BY <1>2, <2>1 DEF ReceiveMR, Quiet, InSlot, slotVars, TypeOK
  <2>3. Work(t)' = [project |-> project, iid |-> iid, hook |-> "update"]
    BY <1>2 DEF ReceiveMR, Work, SlotWork, TypeOK, coordVars
  <2>4. Work(t)' # NoRun /\ Work(t)'.hook # "note" /\ pc'[t] = "slot"
    BY <1>2, <2>3, PipelineAssumption DEF ReceiveMR, Run, TypeOK
  <2>5. QED
    BY <2>1, <2>2, <2>4, OthersKeepWork DEF SlotWork, OthersStay
<1>3. ASSUME NEW project \in Projects, NEW iid \in Iids, ReceiveNote(t, project, iid)
      PROVE  Quiet(t) /\ SlotWork'
  <2>1. OthersStay(t)
    BY <1>3 DEF ReceiveNote, OthersStay, TypeOK, coordVars
  <2>2. Work(t)' = [project |-> project, iid |-> iid, hook |-> "note"]
    BY <1>3 DEF ReceiveNote, Work, SlotWork, TypeOK, coordVars
  <2>3. Quiet(t)
    BY <1>3, <2>1, <2>2 DEF ReceiveNote, Quiet, InSlot, slotVars, TypeOK
  <2>4. Work(t)' # NoRun /\ pc'[t] = "commands"
    BY <1>3, <2>2, PipelineAssumption DEF ReceiveNote, Run, TypeOK
  <2>5. QED
    BY <2>1, <2>3, <2>4, OthersKeepWork DEF SlotWork, OthersStay
<1>4. QED
  BY <1>1, <1>2, <1>3 DEF Receive

LEMMA QuietHoldsLoop ==
    ASSUME TypeOK, SlotWork, NEW t \in Tasks,
           Decline(t) \/ RefuseSlot(t) \/ Return(t) \/ Drain(t)
    PROVE  Quiet(t) /\ SlotWork'
<1>1. CASE Decline(t) \/ RefuseSlot(t)
  <2>1. OthersStay(t) /\ pc'[t] = "finished"
    BY <1>1 DEF Decline, RefuseSlot, OthersStay, TypeOK, coordVars
  <2>2. Quiet(t)
    BY <1>1, <2>1 DEF Decline, RefuseSlot, AtSlot, Quiet, InSlot, slotVars
  <2>3. QED
    BY <2>1, <2>2, OthersKeepWork DEF SlotWork, OthersStay
<1>2. CASE Return(t)
  <2>1. OthersStay(t) /\ pc'[t] = "idle" /\ drainer'[t] = NoJob
    BY <1>2 DEF Return, OthersStay, TypeOK, coordVars
  <2>2. Quiet(t)
    BY <1>2, <2>1 DEF Return, Quiet, InSlot, slotVars
  <2>3. QED
    BY <2>1, <2>2, OthersKeepWork DEF SlotWork, OthersStay
<1>3. CASE Drain(t)
  <2>1. OthersStay(t)
    BY <1>3, DrainStep DEF Drain, OthersStay, TypeOK
  <2>2. Quiet(t)
    BY <1>3, <2>1 DEF Drain, Quiet, InSlot, TypeOK, slotVars
  <2>3. pc'[t] # "idle" => pc'[t] = "queuedSlot" /\ Work(t)' \in Coordinator!Job
    BY <1>3, DrainStep DEF Drain, TypeOK, Work
  <2>4. pc'[t] = "idle" => drainer'[t] = NoJob
    BY <1>3 DEF Drain, TypeOK
  <2>5. QED
    BY <2>1, <2>2, <2>3, <2>4, JobWork, OthersKeepWork DEF SlotWork, OthersStay
<1>4. QED
  BY <1>1, <1>2, <1>3

LEMMA QuietKeepsSlots ==
    ASSUME SlotExclusion, CooldownKept, NEW t \in Tasks, Quiet(t)
    PROVE  SlotExclusion' /\ CooldownKept'
<1>1. \A u \in Tasks : u # t => SlotOf(u)' = SlotOf(u) /\ InSlot(u)' = InSlot(u)
  BY OthersKeepWork DEF Quiet
<1>2. SlotExclusion'
  BY <1>1 DEF SlotExclusion, Quiet
<1>3. CooldownKept'
  BY <1>1 DEF CooldownKept, Quiet
<1>4. QED
  BY <1>2, <1>3

LEMMA AcquireKeepsSlots ==
    ASSUME SlotInv, NEW t \in Tasks, AcquireSlot(t)
    PROVE  SlotWork' /\ SlotExclusion' /\ CooldownKept'
<1> USE DEF SlotInv
<1> DEFINE own == SlotOf(t)
<1>1. /\ Work(t) # NoRun /\ Work(t).hook # "note"
      /\ own \in SlotKey
  BY WorkType DEF AcquireSlot, AtSlot, SlotWork
<1>2. OthersStay(t) /\ pc'[t] = "commands" /\ Work(t)' = Work(t) /\ SlotOf(t)' = own
  BY DEF AcquireSlot, OthersStay, TypeOK, coordVars, Work, SlotOf
<1>3. \A u \in Tasks : u # t => SlotOf(u)' = SlotOf(u) /\ InSlot(u)' = InSlot(u)
  BY <1>2, OthersKeepWork
<1>4. InSlot(t)' /\ ~InSlot(t)
  BY <1>1, <1>2 DEF InSlot, AcquireSlot, AtSlot
<1>5. /\ holder[own] = NoTask /\ holder' = [holder EXCEPT ![own] = t]
      /\ startedAt' = [startedAt EXCEPT ![own] = now]
      /\ lastFinished' = lastFinished
  BY DEF AcquireSlot, SlotFree
<1>6. SlotWork'
  BY <1>1, <1>2, OthersKeepWork DEF SlotWork, OthersStay
<1>7. SlotExclusion'
  <2> SUFFICES ASSUME NEW s \in SlotKey, NEW u \in Tasks
               PROVE  (holder[s] = u <=> InSlot(u) /\ SlotOf(u) = s)'
    BY DEF SlotExclusion
  <2>0. \A v \in Tasks, r \in SlotKey : holder[r] = v <=> InSlot(v) /\ SlotOf(v) = r
    BY DEF SlotExclusion
  <2>1. holder'[s] = IF s = own THEN t ELSE holder[s]
    BY <1>5 DEF TypeOK
  <2>2. CASE u = t
    <3>1. (holder[s] = t) <=> FALSE
      BY <1>4, <2>0
    <3>2. QED
      BY <1>2, <1>4, <2>1, <2>2, <3>1
  <2>3. CASE u # t /\ s = own
    <3>1. ~(InSlot(u) /\ SlotOf(u) = s)
      BY <1>5, <2>0, <2>3, PipelineAssumption
    <3>2. QED
      BY <1>3, <2>1, <2>3, <3>1
  <2>4. CASE u # t /\ s # own
    BY <1>3, <2>0, <2>1, <2>4
  <2>5. QED
    BY <2>2, <2>3, <2>4
<1>8. CooldownKept'
  <2> SUFFICES ASSUME NEW u \in Tasks, InSlot(u)'
               PROVE  \/ lastFinished'[SlotOf(u)'] = NoClaim
                      \/ startedAt'[SlotOf(u)'] >= lastFinished'[SlotOf(u)'] + Cooldown
    BY DEF CooldownKept
  <2>1. CASE u = t
    <3>1. startedAt'[own] = now
      BY <1>1, <1>5 DEF TypeOK
    <3>2. \/ lastFinished[own] = NoClaim
          \/ /\ lastFinished[own] \in Nat
             /\ ~(now - lastFinished[own] < Cooldown)
      BY <1>1 DEF AcquireSlot, SlotFree, Cooling, TypeOK
    <3>3. now \in Nat /\ Cooldown \in Nat
      BY PipelineAssumption DEF TypeOK, Coordinator!TypeOK
    <3>4. QED
      BY <1>2, <1>5, <2>1, <3>1, <3>2, <3>3
  <2>2. CASE u # t
    <3>1. InSlot(u) /\ SlotOf(u)' = SlotOf(u)
      BY <1>3, <2>2
    <3>2. SlotOf(u) # own
      BY <1>1, <1>5, <3>1, PipelineAssumption DEF SlotExclusion
    <3>3. startedAt'[SlotOf(u)] = startedAt[SlotOf(u)]
      BY <1>5, <3>2 DEF TypeOK
    <3>4. QED
      BY <1>5, <3>1, <3>3 DEF CooldownKept
  <2>3. QED
    BY <2>1, <2>2
<1>9. QED
  BY <1>6, <1>7, <1>8

LEMMA ReleaseKeepsSlots ==
    ASSUME SlotInv, NEW t \in Tasks, ReleaseSlot(t)
    PROVE  SlotWork' /\ SlotExclusion' /\ CooldownKept'
<1> USE DEF SlotInv
<1> DEFINE own == SlotOf(t)
<1>1. own \in SlotKey
  BY WorkType DEF ReleaseSlot, SlotWork
<1>2. OthersStay(t) /\ pc'[t] = "finished"
  BY DEF ReleaseSlot, OthersStay, TypeOK, coordVars
<1>3. \A u \in Tasks : u # t => SlotOf(u)' = SlotOf(u) /\ InSlot(u)' = InSlot(u)
  BY <1>2, OthersKeepWork
<1>4. SlotWork' /\ ~InSlot(t)'
  BY <1>2, OthersKeepWork DEF SlotWork, OthersStay, InSlot
<1>5. CASE Work(t).hook = "note"
  <2>1. Quiet(t)
    BY <1>2, <1>4, <1>5 DEF Quiet, InSlot, ReleaseSlot
  <2>2. QED
    BY <1>4, <2>1, QuietKeepsSlots
<1>6. CASE Work(t).hook # "note"
  <2>1. InSlot(t)
    BY <1>6 DEF InSlot, ReleaseSlot
  <2>2. /\ holder' = [holder EXCEPT ![own] = NoTask]
        /\ startedAt' = [startedAt EXCEPT ![own] = 0]
        /\ lastFinished' = [lastFinished EXCEPT ![own] = now]
    BY <1>6 DEF ReleaseSlot
  <2>3. \A v \in Tasks, r \in SlotKey : holder[r] = v <=> InSlot(v) /\ SlotOf(v) = r
    BY DEF SlotExclusion
  <2>4. holder[own] = t
    BY <1>1, <2>1, <2>3
  <2>5. \A u \in Tasks : u # t /\ InSlot(u) => SlotOf(u) # own
    BY <1>1, <2>3, <2>4
  <2>6. SlotExclusion'
    <3> SUFFICES ASSUME NEW s \in SlotKey, NEW u \in Tasks
                 PROVE  (holder[s] = u <=> InSlot(u) /\ SlotOf(u) = s)'
      BY DEF SlotExclusion
    <3>1. holder'[s] = IF s = own THEN NoTask ELSE holder[s]
      BY <2>2 DEF TypeOK
    <3>2. CASE u = t
      <4>1. holder'[s] # t
        BY <2>1, <2>3, <3>1, PipelineAssumption
      <4>2. QED
        BY <1>4, <3>2, <4>1
    <3>3. CASE u # t /\ s = own
      <4>1. ~(InSlot(u)' /\ SlotOf(u)' = s)
        BY <1>3, <2>5, <3>3
      <4>2. holder'[s] # u
        BY <3>1, <3>3, PipelineAssumption
      <4>3. QED
        BY <4>1, <4>2
    <3>4. CASE u # t /\ s # own
      BY <1>3, <2>3, <3>1, <3>4
    <3>5. QED
      BY <3>2, <3>3, <3>4
  <2>7. CooldownKept'
    <3> SUFFICES ASSUME NEW u \in Tasks, InSlot(u)'
                 PROVE  \/ lastFinished'[SlotOf(u)'] = NoClaim
                        \/ startedAt'[SlotOf(u)'] >= lastFinished'[SlotOf(u)'] + Cooldown
      BY DEF CooldownKept
    <3>1. u # t
      BY <1>4
    <3>2. InSlot(u) /\ SlotOf(u)' = SlotOf(u) /\ SlotOf(u) # own
      BY <1>3, <2>5, <3>1
    <3>3. /\ startedAt'[SlotOf(u)] = startedAt[SlotOf(u)]
          /\ lastFinished'[SlotOf(u)] = lastFinished[SlotOf(u)]
      BY <2>2, <3>2 DEF TypeOK
    <3>4. QED
      BY <3>2, <3>3 DEF CooldownKept
  <2>8. QED
    BY <1>4, <2>6, <2>7
<1>7. QED
  BY <1>5, <1>6

LEMMA StillKeepsSlots ==
    ASSUME SlotInv, UNCHANGED <<pc, drainer, run, holder, lastFinished, startedAt>>
    PROVE  SlotWork' /\ SlotExclusion' /\ CooldownKept'
BY DEF SlotInv, SlotWork, SlotExclusion, CooldownKept, Work, SlotOf, InSlot

LEMMA NextSlotInv == SlotInv /\ [Next]_vars => SlotInv'
<1> SUFFICES ASSUME SlotInv, [Next]_vars PROVE SlotInv'
  OBVIOUS
<1>0. TypeOK'
  BY NextPipelineTypeOK DEF SlotInv
<1>1. ASSUME NEW t \in Tasks,
             Receive(t) \/ Decline(t) \/ RefuseSlot(t) \/ Return(t) \/ Drain(t)
      PROVE  SlotInv'
  BY <1>0, <1>1, QuietReceive, QuietHoldsLoop, QuietKeepsSlots DEF SlotInv
<1>2. ASSUME NEW t \in Tasks, AcquireSlot(t) PROVE SlotInv'
  BY <1>0, <1>2, AcquireKeepsSlots DEF SlotInv
<1>3. ASSUME NEW t \in Tasks, ReleaseSlot(t) PROVE SlotInv'
  BY <1>0, <1>3, ReleaseKeepsSlots DEF SlotInv
<1>4. CASE UNCHANGED <<pc, drainer, run, holder, lastFinished, startedAt>>
  BY <1>0, <1>4, StillKeepsSlots DEF SlotInv
<1>5. ASSUME NEW t \in Tasks, EndCommand(t)
      PROVE  UNCHANGED <<pc, drainer, run, holder, lastFinished, startedAt>>
  BY <1>5 DEF EndCommand, coordVars, slotVars
<1>6. ASSUME Tick \/ UNCHANGED vars
      PROVE  UNCHANGED <<pc, drainer, run, holder, lastFinished, startedAt>>
  BY <1>6 DEF Tick, Coordinator!Tick, vars, coordVars, slotVars
<1>7. QED
  BY <1>1, <1>2, <1>3, <1>4, <1>5, <1>6 DEF Next, HoldsLoop

-----------------------------------------------------------------------------
(* The variables keep their types. *)
THEOREM PipelineTypeCorrect == Spec => []TypeOK
BY InitSlotInv, NextSlotInv, PTL DEF Spec, SlotInv

(* A slot serves one run at a time and its lock is held exactly by that run,
   for any number of tasks, merge requests and commands. *)
THEOREM SlotIsExclusive == Spec => []SlotExclusion
BY InitSlotInv, NextSlotInv, PTL DEF Spec, SlotInv

(* A run in a slot started a cooldown or more after the previous one ended,
   whatever the cooldown. *)
THEOREM CooldownIsKept == Spec => []CooldownKept
BY InitSlotInv, NextSlotInv, PTL DEF Spec, SlotInv
=============================================================================
