--------------------------- MODULE ApplyCoordinator ---------------------------
(***************************************************************************)
(* The coordinator of the apply pipeline                                   *)
(* (pr_agent/servers/apply_pipeline_coordinator.py) with the loop that     *)
(* drains it (_drain_apply_pipeline in servers/gitlab_webhook.py).         *)
(*                                                                         *)
(* GitLab reports one "Apply suggestion" click with a push hook and a      *)
(* merge_request hook.  A handler wraps the hook in a job and calls        *)
(* enqueue(); the handler that is told "start" becomes the drainer of that *)
(* merge request: it runs the job, calls complete() and runs the job that  *)
(* complete() hands back, until there is none.                             *)
(*                                                                         *)
(* The three dictionaries of the class are functions over their possible   *)
(* keys (NoClaim / NoJob marks an absent key), its lock makes enqueue and  *)
(* complete atomic, and its monotonic clock is the counter `now'.          *)
(***************************************************************************)
EXTENDS Integers, Sequences

CONSTANTS
    Projects,   \* project_id of a job
    Iids,       \* mr_iid of a job
    Shas,       \* sha of the Apply commit
    Hooks,      \* the payload a job carries: one value per kind of webhook
    Tasks,      \* handler tasks of the event loop, one per delivery in progress
    NoJob,      \* None, and an absent key of _running or _pending
    NoClaim,    \* an absent key of _claims
    ClaimTTL,   \* claim_ttl_seconds
    MaxTime     \* bound on the clock

Key == Projects \X Iids
ClaimKey == Projects \X Shas
Job == [project: Projects, iid: Iids, sha: Shas, hook: Hooks]

KeyOf(job) == <<job.project, job.iid>>
ClaimOf(job) == <<job.project, job.sha>>

ASSUME CoordinatorAssumption ==
    /\ ClaimTTL \in Nat
    /\ MaxTime \in Nat
    /\ NoJob \notin Job
    /\ NoClaim \notin Nat

VARIABLES
    now,        \* the clock the coordinator reads
    claims,     \* _claims
    running,    \* _running
    pending,    \* _pending
    drainer,    \* current_job of each task's drain loop, NoJob outside it
    newest,     \* history: the newest accepted job of a merge request whose
                \*   drain has not ended, NoJob when there is none
    accepted    \* history: when a job was accepted for a commit, in order

vars == <<now, claims, running, pending, drainer, newest, accepted>>

TypeOK ==
    /\ now \in Nat
    /\ claims \in [ClaimKey -> Nat \cup {NoClaim}]
    /\ running \in [Key -> Job \cup {NoJob}]
    /\ pending \in [Key -> Job \cup {NoJob}]
    /\ drainer \in [Tasks -> Job \cup {NoJob}]
    /\ newest \in [Key -> Job \cup {NoJob}]
    /\ accepted \in [ClaimKey -> Seq(Nat)]

Init ==
    /\ now = 0
    /\ claims = [c \in ClaimKey |-> NoClaim]
    /\ running = [k \in Key |-> NoJob]
    /\ pending = [k \in Key |-> NoJob]
    /\ drainer = [t \in Tasks |-> NoJob]
    /\ newest = [k \in Key |-> NoJob]
    /\ accepted = [c \in ClaimKey |-> <<>>]

-----------------------------------------------------------------------------
(* Mutant: a claim lapses one tick early. *)
ExpiredEarly(c) == claims[c] # NoClaim /\ now - claims[c] >= ClaimTTL

(* _expire_claims: the claims that are still held at the current time. *)
Expired(c) == claims[c] # NoClaim /\ now - claims[c] > ClaimTTL

LiveClaims == [c \in ClaimKey |-> IF Expired(c) THEN NoClaim ELSE claims[c]]

Claimed(job) == LiveClaims[ClaimOf(job)] # NoClaim

(* Mutant: a claim is stamped with the time it was to lapse, wrongly signed. *)
ClaimBackdated(job) ==
    /\ ~Claimed(job)
    /\ claims' = [LiveClaims EXCEPT ![ClaimOf(job)] = now - ClaimTTL]
    /\ newest' = [newest EXCEPT ![KeyOf(job)] = job]
    /\ accepted' = [accepted EXCEPT ![ClaimOf(job)] = Append(@, now)]

(* The common half of the two accepting outcomes of enqueue. *)
Claim(job) ==
    /\ ~Claimed(job)
    /\ claims' = [LiveClaims EXCEPT ![ClaimOf(job)] = now]
    /\ newest' = [newest EXCEPT ![KeyOf(job)] = job]
    /\ accepted' = [accepted EXCEPT ![ClaimOf(job)] = Append(@, now)]

(* enqueue(job) = "duplicate": the commit has been claimed. *)
EnqueueDuplicate(job) ==
    /\ Claimed(job)
    /\ claims' = LiveClaims
    /\ UNCHANGED <<running, pending, newest, accepted>>

(* Mutant: _running is not looked at. *)
EnqueueStartAlways(job) ==
    /\ Claim(job)
    /\ running' = [running EXCEPT ![KeyOf(job)] = job]
    /\ UNCHANGED pending

(* enqueue(job) = "start": the caller has to drain the merge request. *)
EnqueueStart(job) ==
    /\ Claim(job)
    /\ running[KeyOf(job)] = NoJob
    /\ running' = [running EXCEPT ![KeyOf(job)] = job]
    /\ UNCHANGED pending

(* Mutant: the job that already waits is kept. *)
EnqueueQueuedKeepsOldest(job) ==
    /\ Claim(job)
    /\ running[KeyOf(job)] # NoJob
    /\ pending' = [pending EXCEPT ![KeyOf(job)] = IF @ = NoJob THEN job ELSE @]
    /\ UNCHANGED running

(* enqueue(job) = "queued": replaces what was waiting. *)
EnqueueQueued(job) ==
    /\ Claim(job)
    /\ running[KeyOf(job)] # NoJob
    /\ pending' = [pending EXCEPT ![KeyOf(job)] = job]
    /\ UNCHANGED running

(* Mutant: the job handed back is not marked as running. *)
CompleteForgetsNext(job, next) ==
    /\ next = IF running[KeyOf(job)] = job THEN pending[KeyOf(job)] ELSE NoJob
    /\ running' = [running EXCEPT ![KeyOf(job)] = NoJob]
    /\ pending' = [pending EXCEPT ![KeyOf(job)] = NoJob]

(* Mutant: the mark is cleared and what waits is left where it is. *)
CompleteLeavesPending(job, next) ==
    /\ next = NoJob
    /\ running' = [running EXCEPT ![KeyOf(job)] = NoJob]
    /\ UNCHANGED pending

(* complete(job) = next. *)
Complete(job, next) ==
    LET k == KeyOf(job)
    IN  \/ /\ running[k] # job
           /\ next = NoJob
           /\ UNCHANGED <<running, pending>>
        \/ /\ running[k] = job
           /\ next = pending[k]
           /\ running' = [running EXCEPT ![k] = next]
           /\ pending' = [pending EXCEPT ![k] = NoJob]

-----------------------------------------------------------------------------
(* A webhook for an Apply commit reaches an idle task. *)
Webhook(t, job) ==
    /\ drainer[t] = NoJob
    /\ \/ EnqueueDuplicate(job) /\ UNCHANGED drainer
       \/ EnqueueQueued(job) /\ UNCHANGED drainer
       \/ EnqueueStart(job) /\ drainer' = [drainer EXCEPT ![t] = job]
    /\ UNCHANGED now

(* The finally clause of the drain loop: the job of task t has run, failed or
   been skipped, and the loop goes on with what complete returns. *)
DrainNext(t) ==
    LET job == drainer[t]
    IN  /\ job # NoJob
        /\ \E next \in Job \cup {NoJob} :
              /\ Complete(job, next)
              /\ drainer' = [drainer EXCEPT ![t] = next]
        /\ newest' = [newest EXCEPT ![KeyOf(job)] = IF @ = job THEN NoJob ELSE @]
        /\ UNCHANGED <<now, claims, accepted>>

Tick ==
    /\ now < MaxTime
    /\ now' = now + 1
    /\ UNCHANGED <<claims, running, pending, drainer, newest, accepted>>

Next ==
    \/ \E t \in Tasks, job \in Job : Webhook(t, job)
    \/ \E t \in Tasks : DrainNext(t)
    \/ Tick

(* The event loop resumes a task whose await is over, and the await of a job is
   bounded by the timeouts of the commands it runs.  Deliveries and time owe
   nothing to anybody. *)
Fairness == \A t \in Tasks : WF_vars(DrainNext(t))

Spec == Init /\ [][Next]_vars /\ Fairness

-----------------------------------------------------------------------------
(* A merge request is drained by one task at a time: what _running is for.
   Two drainers would run two /improve over the same merge request. *)
OneDrainerPerMR ==
    \A s, t \in Tasks :
        /\ drainer[s] # NoJob
        /\ drainer[t] # NoJob
        /\ KeyOf(drainer[s]) = KeyOf(drainer[t])
        => s = t

(* _running and the drain loops agree: a merge request marked as running has a
   task that will complete it (or it would refuse work for ever), and a task
   that drains is marked (or complete() would drop what waits behind it). *)
RunningIsDrained ==
    /\ \A k \in Key : running[k] # NoJob => \E t \in Tasks : drainer[t] = running[k]
    /\ \A t \in Tasks : drainer[t] # NoJob => running[KeyOf(drainer[t])] = drainer[t]

(* A job waits only behind a drainer, which will find it. *)
PendingHasDrainer ==
    \A k \in Key : pending[k] # NoJob => running[k] # NoJob

(* "queued latest Apply commit": of the jobs accepted for a merge request the
   newest is never lost, it is the one that waits or else the one that runs. *)
NewestIsKept ==
    \A k \in Key : newest[k] # NoJob =>
        \/ pending[k] = newest[k]
        \/ pending[k] = NoJob /\ running[k] = newest[k]

(* The two hooks of a click, and the redeliveries of each, start or queue one
   pipeline: any two acceptances of a commit are more than the TTL apart. *)
OncePerTTL ==
    \A c \in ClaimKey : \A i, j \in 1..Len(accepted[c]) :
        i < j => accepted[c][j] - accepted[c][i] > ClaimTTL

(* An accepted job that waits is started in the end, or gives way to a newer
   one: the finally clause of the drain loop hands it on whatever the job
   before it did. *)
PendingIsServed ==
    \A k \in Key, job \in Job :
        pending[k] = job ~> (running[k] = job \/ newest[k] # job)
=============================================================================
