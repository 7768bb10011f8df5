----------------------------- MODULE ApplyPipeline -----------------------------
(***************************************************************************)
(* The runs of the GitLab webhook server on its event loop                 *)
(* (pr_agent/servers/gitlab_webhook.py): the per-MR run slot with its      *)
(* cooldown, _perform_commands_gitlab, the drain loop over the coordinator *)
(* of ApplyCoordinator, and the comment commands that use neither.         *)
(*                                                                         *)
(* asyncio is cooperative: a handler keeps the event loop from one await   *)
(* to the next.  `loop' is the task that holds it; only that task can step *)
(* until it awaits a command or returns.  Time passes all the same: what   *)
(* runs between two awaits makes blocking HTTP calls.                      *)
(***************************************************************************)
EXTENDS Integers, Sequences

CONSTANTS
    Projects, Iids, Shas, Tasks, NoJob, NoClaim, ClaimTTL, MaxTime,
    NoIid,      \* the iid part of a slot key when the payload names no MR
    NoTask,     \* nobody
    NoRun,      \* no run outside the apply pipeline
    Cooldown,   \* _MR_RUN_COOLDOWN_S
    CommandCounts \* how many commands a configured list may hold

Hooks == {"push", "update"}

VARIABLES
    now, claims, running, pending, drainer, newest, accepted,
    loop,         \* the task that holds the event loop, or NoTask
    pc,           \* where each task is
    run,          \* what a task that is not a drainer runs
    left,         \* commands a task still has to run
    holder,       \* _MR_RUN_LOCKS: the task that holds each slot's lock
    lastFinished, \* _MR_LAST_RUN_FINISHED, NoClaim when there is no entry
    startedAt     \* history: when the run in a slot acquired it

coordVars == <<now, claims, running, pending, drainer, newest, accepted>>
slotVars == <<holder, lastFinished, startedAt>>
vars == <<coordVars, loop, pc, run, left, slotVars>>

Coordinator == INSTANCE ApplyCoordinator

MR == Projects \X Iids
SlotKey == Projects \X (Iids \cup {NoIid})

(* A run outside the apply pipeline: a merge_request hook that triggers
   pr_commands or push_commands, or a comment that holds a command. *)
Run == [project: Projects, iid: Iids, hook: {"update", "note"}]

ASSUME PipelineAssumption ==
    /\ ClaimTTL \in Nat
    /\ MaxTime \in Nat
    /\ NoJob \notin Coordinator!Job
    /\ NoClaim \notin Nat
    /\ Cooldown \in Nat
    /\ CommandCounts \subseteq Nat
    /\ NoTask \notin Tasks
    /\ NoIid \notin Iids
    /\ NoRun \notin Run
    /\ NoRun \notin Coordinator!Job

TypeOK ==
    /\ Coordinator!TypeOK
    /\ loop \in Tasks \cup {NoTask}
    /\ pc \in [Tasks -> {"idle", "slot", "queuedSlot", "commands", "finished"}]
    /\ run \in [Tasks -> Run \cup {NoRun}]
    /\ left \in [Tasks -> Nat]
    /\ holder \in [SlotKey -> Tasks \cup {NoTask}]
    /\ lastFinished \in [SlotKey -> Nat \cup {NoClaim}]
    /\ startedAt \in [SlotKey -> Nat]

Init ==
    /\ Coordinator!Init
    /\ loop = NoTask
    /\ pc = [t \in Tasks |-> "idle"]
    /\ run = [t \in Tasks |-> NoRun]
    /\ left = [t \in Tasks |-> 0]
    /\ holder = [s \in SlotKey |-> NoTask]
    /\ lastFinished = [s \in SlotKey |-> NoClaim]
    /\ startedAt = [s \in SlotKey |-> 0]

-----------------------------------------------------------------------------
(* The payload a task works on, its merge request and its slot.  The slot key
   is read from the payload: a push hook names no merge request, so its key is
   that of the project alone. *)
Work(t) == IF drainer[t] # NoJob THEN drainer[t] ELSE run[t]

MROf(t) == <<Work(t).project, Work(t).iid>>

SlotOf(t) == <<Work(t).project, IF Work(t).hook = "push" THEN NoIid ELSE Work(t).iid>>

(* Mutant: the cooldown is one tick short. *)
CoolingShort(s) == lastFinished[s] # NoClaim /\ now - lastFinished[s] + 1 < Cooldown

Cooling(s) == lastFinished[s] # NoClaim /\ now - lastFinished[s] < Cooldown

(* Mutant: the lock itself is not looked at. *)
SlotFreeUnlocked(s) == ~Cooling(s)

SlotFree(s) == holder[s] = NoTask /\ ~Cooling(s)

(* A hook for an Apply commit: only the handler that is told "start" goes on,
   without an await, to the slot. *)
ReceiveApply(t, job) ==
    /\ loop = NoTask
    /\ pc[t] = "idle"
    /\ Coordinator!Webhook(t, job)
    /\ IF drainer'[t] = NoJob
         THEN UNCHANGED <<loop, pc>>
         ELSE loop' = t /\ pc' = [pc EXCEPT ![t] = "slot"]
    /\ UNCHANGED <<run, left, slotVars>>

(* An opened merge request (pr_commands) or a push to one (push_commands). *)
ReceiveMR(t, project, iid) ==
    /\ loop = NoTask
    /\ pc[t] = "idle"
    /\ loop' = t
    /\ pc' = [pc EXCEPT ![t] = "slot"]
    /\ run' = [run EXCEPT ![t] = [project |-> project, iid |-> iid, hook |-> "update"]]
    /\ UNCHANGED <<coordVars, left, slotVars>>

(* A comment with a command (/improve, /review...): awaits the agent at once. *)
ReceiveNote(t, project, iid) ==
    /\ loop = NoTask
    /\ pc[t] = "idle"
    /\ pc' = [pc EXCEPT ![t] = "commands"]
    /\ run' = [run EXCEPT ![t] = [project |-> project, iid |-> iid, hook |-> "note"]]
    /\ left' = [left EXCEPT ![t] = 1]
    /\ UNCHANGED <<coordVars, loop, slotVars>>

-----------------------------------------------------------------------------
(* _perform_commands_gitlab, from its call to its first await. *)
AtSlot(t) == loop = t /\ pc[t] \in {"slot", "queuedSlot"}

(* Feedback is disabled, an ignore rule matches, or the settings cannot be
   read: the function returns, or raises, before it looks at the slot. *)
Decline(t) ==
    /\ AtSlot(t)
    /\ pc' = [pc EXCEPT ![t] = "finished"]
    /\ UNCHANGED <<coordVars, loop, run, left, slotVars>>

(* "cohort-skip": the slot is held or cools down, and the run is dropped. *)
RefuseSlot(t) ==
    /\ AtSlot(t)
    /\ ~SlotFree(SlotOf(t))
    /\ pc' = [pc EXCEPT ![t] = "finished"]
    /\ UNCHANGED <<coordVars, loop, run, left, slotVars>>

(* The lock is free, so its acquire() does not suspend the task. *)
AcquireSlot(t) ==
    /\ AtSlot(t)
    /\ SlotFree(SlotOf(t))
    /\ holder' = [holder EXCEPT ![SlotOf(t)] = t]
    /\ startedAt' = [startedAt EXCEPT ![SlotOf(t)] = now]
    /\ pc' = [pc EXCEPT ![t] = "commands"]
    /\ \E n \in CommandCounts :
          /\ left' = [left EXCEPT ![t] = n]
          /\ loop' = IF n = 0 THEN t ELSE NoTask
    /\ UNCHANGED <<coordVars, run, lastFinished>>

(* An awaited command ends, well or with an exception that is logged. *)
EndCommand(t) ==
    /\ loop = NoTask
    /\ pc[t] = "commands"
    /\ left[t] > 0
    /\ left' = [left EXCEPT ![t] = @ - 1]
    /\ loop' = IF left[t] = 1 THEN t ELSE NoTask
    /\ UNCHANGED <<coordVars, pc, run, slotVars>>

(* Mutant: the time noted is the one at which the cooldown began to matter. *)
ReleaseSlotBackdated(t) ==
    /\ loop = t
    /\ pc[t] = "commands"
    /\ left[t] = 0
    /\ pc' = [pc EXCEPT ![t] = "finished"]
    /\ IF Work(t).hook = "note"
         THEN UNCHANGED <<holder, lastFinished, startedAt>>
         ELSE /\ lastFinished' = [lastFinished EXCEPT ![SlotOf(t)] = now - Cooldown]
              /\ holder' = [holder EXCEPT ![SlotOf(t)] = NoTask]
              /\ startedAt' = [startedAt EXCEPT ![SlotOf(t)] = 0]
    /\ UNCHANGED <<coordVars, loop, run, left>>

(* The finally clause: the time is noted and the lock released.  A comment
   command has no slot to release. *)
ReleaseSlot(t) ==
    /\ loop = t
    /\ pc[t] = "commands"
    /\ left[t] = 0
    /\ pc' = [pc EXCEPT ![t] = "finished"]
    /\ IF Work(t).hook = "note"
         THEN UNCHANGED <<holder, lastFinished, startedAt>>
         ELSE /\ lastFinished' = [lastFinished EXCEPT ![SlotOf(t)] = now]
              /\ holder' = [holder EXCEPT ![SlotOf(t)] = NoTask]
              /\ startedAt' = [startedAt EXCEPT ![SlotOf(t)] = 0]
    /\ UNCHANGED <<coordVars, loop, run, left>>

-----------------------------------------------------------------------------
(* A handler that drains nothing returns. *)
Return(t) ==
    /\ loop = t
    /\ pc[t] = "finished"
    /\ drainer[t] = NoJob
    /\ pc' = [pc EXCEPT ![t] = "idle"]
    /\ run' = [run EXCEPT ![t] = NoRun]
    /\ loop' = NoTask
    /\ UNCHANGED <<coordVars, left, slotVars>>

(* Mutant: an exception of the job leaves the loop past complete(). *)
DrainEscapes(t) ==
    /\ loop = t
    /\ pc[t] = "finished"
    /\ drainer[t] # NoJob
    /\ drainer' = [drainer EXCEPT ![t] = NoJob]
    /\ loop' = NoTask
    /\ pc' = [pc EXCEPT ![t] = "idle"]
    /\ UNCHANGED <<now, claims, running, pending, newest, accepted, run, left, slotVars>>

(* Mutant: the loop goes on with the job it has. *)
DrainRepeats(t) ==
    /\ loop = t
    /\ pc[t] = "finished"
    /\ drainer[t] # NoJob
    /\ pc' = [pc EXCEPT ![t] = "queuedSlot"]
    /\ UNCHANGED <<coordVars, loop, run, left, slotVars>>

(* The drain loop completes its job and, without an await, performs the next
   one or returns. *)
Drain(t) ==
    /\ loop = t
    /\ pc[t] = "finished"
    /\ Coordinator!DrainNext(t)
    /\ IF drainer'[t] = NoJob
         THEN loop' = NoTask /\ pc' = [pc EXCEPT ![t] = "idle"]
         ELSE UNCHANGED loop /\ pc' = [pc EXCEPT ![t] = "queuedSlot"]
    /\ UNCHANGED <<run, left, slotVars>>

Tick == Coordinator!Tick /\ UNCHANGED <<loop, pc, run, left, slotVars>>

Receive(t) ==
    \/ \E job \in Coordinator!Job : ReceiveApply(t, job)
    \/ \E project \in Projects, iid \in Iids :
          ReceiveMR(t, project, iid) \/ ReceiveNote(t, project, iid)

HoldsLoop(t) ==
    \/ Decline(t) \/ RefuseSlot(t) \/ AcquireSlot(t)
    \/ ReleaseSlot(t) \/ Return(t) \/ Drain(t)

Next ==
    \/ \E t \in Tasks : Receive(t) \/ HoldsLoop(t) \/ EndCommand(t)
    \/ Tick

(* A task that holds the loop goes on.  A command ends (its LLM calls time out)
   and asyncio resumes ready tasks in FIFO order, so a task whose command has
   ended is not passed over for ever: strong fairness, as the loop is free only
   now and then. *)
Fairness == \A t \in Tasks : WF_vars(HoldsLoop(t)) /\ SF_vars(EndCommand(t))

Spec == Init /\ [][Next]_vars /\ Fairness

-----------------------------------------------------------------------------
InSlot(t) == pc[t] = "commands" /\ Work(t).hook # "note"

(* A slot serves one run at a time, and its lock is held exactly by that run:
   a lock left behind would refuse every later run of the merge request. *)
SlotExclusion ==
    \A s \in SlotKey, t \in Tasks : holder[s] = t <=> InSlot(t) /\ SlotOf(t) = s

(* "the next /improve run is allowed to start only after the previous cohort's
   fingerprints ... have been written": whoever is in a slot started at least
   a cooldown after the previous run of the slot had ended. *)
CooldownKept ==
    \A t \in Tasks : InSlot(t) =>
        \/ lastFinished[SlotOf(t)] = NoClaim
        \/ startedAt[SlotOf(t)] >= lastFinished[SlotOf(t)] + Cooldown

(* The apply pipeline never runs one merge request twice at once, whatever the
   hooks its jobs came with. *)
ApplyRunsAreSerial ==
    \A s, t \in Tasks :
        /\ s # t
        /\ drainer[s] # NoJob
        /\ drainer[t] # NoJob
        => MROf(s) # MROf(t)

(* The pipeline keeps every promise of the coordinator, its liveness included. *)
ImplementsCoordinator == Coordinator!Spec

(* Nothing wedges: every handler returns. *)
HandlersReturn == \A t \in Tasks : pc[t] # "idle" ~> pc[t] = "idle"

-----------------------------------------------------------------------------
(* What comments and tests claim and the code does not do. *)

(* tests/unittest/test_webhook_logic_core.py asserts that the drain loop runs
   the commands of the job that was queued behind the first: the slot takes it. *)
QueuedJobIsRun ==
    \A t \in Tasks : pc[t] = "queuedSlot" => SlotFree(SlotOf(t))

(* "run only one instance per (project_id, mr_iid) at a time", of the runs that
   go through the slot. *)
OneAutoRunPerMR ==
    \A s, t \in Tasks : InSlot(s) /\ InSlot(t) /\ MROf(s) = MROf(t) => s = t
=============================================================================
