-------------------------- MODULE GithubPushTrigger --------------------------
(* The GitHub app's webhook handlers (servers/github_app.py). A push to a pull
   request starts one run; a second push waits for it on a condition; further
   pushes are dropped, for the waiting one will see their commits. The counters
   and the conditions are kept in dictionaries whose entries expire
   (servers/utils.py, DefaultDictWithTimeout). *)
EXTENDS Integers, Sequences, FiniteSets

CONSTANTS
    PushTasks,      \* requests the server handles
    PRs,
    Events,         \* the payloads a hook may have
    KeyTTL,         \* github_app.push_trigger_pending_tasks_ttl
    RefreshInterval,
    MaxActive,      \* 2 with push_trigger_pending_tasks_backlog, else 1
    MaxClock        \* bounds the time

\* Requests are told apart by their order, a time to live is no negative time, and the
\* settings allow one run of a pull request or one and its successor.
ASSUME PushBounds ==
    /\ PushTasks \subseteq Nat
    /\ KeyTTL \in Nat /\ RefreshInterval \in Nat
    /\ MaxActive \in {1, 2}

VARIABLES
    hooks,          \* each request's place: [pc, pr, cond]
    counters,       \* _duplicate_push_triggers
    conditions,     \* _pending_task_duplicate_push_conditions
    waiting,        \* tasks in wait(), in order
    prHead,         \* number of accepted pushes of a pull request
    reviewed,       \* the newest head a run of it has started on
    spoilt,         \* pull requests whose entries expired in use
    clock

pushVars == <<hooks, counters, conditions, waiting, prHead, reviewed, spoilt, clock>>

NoHook == [pc |-> "new", pr |-> "none", cond |-> 0]
EmptyDict == [val |-> <<>>, times |-> <<>>, last |-> 0, made |-> 0]

PushInit ==
    /\ hooks = [t \in PushTasks |-> NoHook]
    /\ counters = EmptyDict
    /\ conditions = EmptyDict
    /\ waiting = <<>>
    /\ prHead = [p \in PRs |-> 0]
    /\ reviewed = [p \in PRs |-> 0]
    /\ spoilt = {}
    /\ clock = RefreshInterval   \* __last_refresh starts an interval back

-----------------------------------------------------------------------------
(* DefaultDictWithTimeout. *)

Put(f, k, v) == [x \in DOMAIN f \cup {k} |-> IF x = k THEN v ELSE f[x]]
Without1(f, k) == [x \in DOMAIN f \ {k} |-> f[x]]
Touch(d, k) == [d EXCEPT !.times = Put(@, k, clock)]
Stale(d) == {k \in DOMAIN d.times : clock - d.times[k] > KeyTTL}
Due(d) == clock - d.last >= RefreshInterval

\* The times of a key that is not in the dictionary: deleting it raises.
Ghosts(d) == Stale(d) \ DOMAIN d.val
Swept(d) ==
    LET kept(f) == [k \in DOMAIN f \ Stale(d) |-> f[k]]
    IN  [d EXCEPT !.val = kept(@), !.times = kept(@), !.last = clock]

\* __getitem__ up to the look-up: the key is as good as new, the others may expire.
Read(d, k) ==
    LET touched == Touch(d, k)
    IN  IF ~Due(touched) THEN touched
        ELSE IF Ghosts(touched) # {} THEN [touched EXCEPT !.times = Without1(@, CHOOSE g \in Ghosts(touched) : TRUE)]
        ELSE Swept(touched)
Raises(d, k) == Due(d) /\ Ghosts(Touch(d, k)) # {}
Store(d, k, v) == [Touch(d, k) EXCEPT !.val = Put(@, k, v)]

\* A condition that is not there is made; its number tells objects apart.
Condition(d, k) ==
    LET read == Read(d, k)
    IN  IF k \in DOMAIN read.val THEN read ELSE [Store(read, k, read.made + 1) EXCEPT !.made = @ + 1]

\* Entries of others that go away while a request counts on them.
InUse == {hooks[t].pr : t \in {u \in PushTasks : hooks[u].pc \in {"entered", "waiting", "notified", "running"}}}
Lost(d, new) == (DOMAIN d.val \ DOMAIN new.val) \cap InUse

-----------------------------------------------------------------------------
(* Routing of a hook (handle_request and its handlers). *)

Ignored(e) == e.bot \/ (e.action # "created" /\ e.filtered)
Valid(e) == ~e.draft /\ ~(e.action = "synchronize" /\ e.first)
IsComment(e) == e.action = "created" /\ e.slash
IsOpening(e) == e.action \in {"opened", "reopened"} /\ Valid(e)
IsPush(e) == e.action = "synchronize" /\ Valid(e) /\ ~e.same /\ ~e.merge

\* Requests are numbered in the order in which they arrive.
Arrives(t) == hooks[t].pc = "new" /\ \A u \in PushTasks : u < t => hooks[u].pc # "new"
Place(t, pc, pr, cond) == hooks' = [hooks EXCEPT ![t] = [pc |-> pc, pr |-> pr, cond |-> cond]]
Done(t) == Place(t, "done", "none", 0)

\* Hooks that no handler takes, and closed pull requests.
Disregard(t, pr, e) ==
    /\ Arrives(t)
    /\ Ignored(e) \/ ~(IsComment(e) \/ IsOpening(e) \/ IsPush(e))
    /\ Done(t)
    /\ UNCHANGED <<counters, conditions, waiting, prHead, reviewed, spoilt, clock>>

\* Comments and openings run at once, if their user is eligible, whatever else runs, and
\* touch neither dictionary.
Direct(t, pr, e) ==
    /\ Arrives(t)
    /\ ~Ignored(e)
    /\ IsComment(e) \/ IsOpening(e)
    /\ Done(t)
    /\ UNCHANGED <<counters, conditions, waiting, prHead, reviewed, spoilt, clock>>

-----------------------------------------------------------------------------
(* handle_push_trigger_for_new_commits. *)

\* setdefault does not go through __setitem__: the count gets no time of its own.
Count(pr) == IF pr \in DOMAIN counters.val THEN counters.val[pr] ELSE 0
Defaulted(pr) == [counters EXCEPT !.val = Put(@, pr, Count(pr))]

\* The next push of the pull request arrives and finds a task waiting already.
DropPushCounted(t, pr, e) ==
    /\ Arrives(t)
    /\ ~Ignored(e) /\ IsPush(e)
    /\ Count(pr) >= MaxActive
    /\ prHead' = [prHead EXCEPT ![pr] = @ + 1]
    /\ Done(t)
    /\ counters' = Store(counters, pr, Count(pr) + 1)
    /\ UNCHANGED <<conditions, waiting, reviewed, spoilt, clock>>
DropPushEarly(t, pr, e) ==
    /\ Arrives(t)
    /\ ~Ignored(e) /\ IsPush(e)
    /\ Count(pr) >= 1
    /\ prHead' = [prHead EXCEPT ![pr] = @ + 1]
    /\ Done(t)
    /\ UNCHANGED <<counters, conditions, waiting, reviewed, spoilt, clock>>
DropPush(t, pr, e) ==
    /\ Arrives(t)
    /\ ~Ignored(e) /\ IsPush(e)
    /\ Count(pr) >= MaxActive
    /\ prHead' = [prHead EXCEPT ![pr] = @ + 1]
    /\ Done(t)
    /\ UNCHANGED <<counters, conditions, waiting, reviewed, spoilt, clock>>

\* It is counted, and goes on or waits, all before the first await. Reading the counter
\* may sweep the entries of others.
Wait(t, pr, id) == Place(t, "waiting", pr, id) /\ waiting' = Append(waiting, t)
CountPush(t, pr, e) ==
    LET read == Read(Defaulted(pr), pr)
        conds == Condition(conditions, pr)
    IN  /\ Arrives(t)
        /\ ~Ignored(e) /\ IsPush(e)
        /\ Count(pr) < MaxActive
        /\ ~Raises(Defaulted(pr), pr)
        /\ prHead' = [prHead EXCEPT ![pr] = @ + 1]
        /\ counters' = Store(read, pr, Count(pr) + 1)
        /\ conditions' = conds
        /\ IF Count(pr) = 1 THEN Wait(t, pr, conds.val[pr])
           ELSE Place(t, "entered", pr, 0) /\ UNCHANGED waiting
        /\ spoilt' = spoilt \cup Lost(counters, read) \cup Lost(conditions, conds)
        /\ UNCHANGED <<reviewed, clock>>

\* The sweep meets a ghost and the request ends with its error.
CountRaises(t, pr, e) ==
    /\ Arrives(t)
    /\ ~Ignored(e) /\ IsPush(e)
    /\ Count(pr) < MaxActive
    /\ Raises(Defaulted(pr), pr)
    /\ counters' = Read(Defaulted(pr), pr)
    /\ prHead' = [prHead EXCEPT ![pr] = @ + 1]
    /\ Done(t)
    /\ spoilt' = spoilt \cup {pr}
    /\ UNCHANGED <<conditions, waiting, reviewed, clock>>

\* The commands read the pull request as it is now.
StartReview(t) ==
    /\ hooks[t].pc \in {"entered", "notified"}
    /\ Place(t, "running", hooks[t].pr, 0)
    /\ reviewed' = [reviewed EXCEPT ![hooks[t].pr] = prHead[hooks[t].pr]]
    /\ UNCHANGED <<counters, conditions, waiting, prHead, spoilt, clock>>

\* notify(1) wakes the first waiter of the condition that is in the dictionary now.
Waiters(id) == {k \in DOMAIN waiting : hooks[waiting[k]].cond = id}
First(id) == CHOOSE k \in Waiters(id) : \A l \in Waiters(id) : k <= l
NotifyAnd(t, id) ==
    IF Waiters(id) = {}
    THEN Done(t) /\ UNCHANGED waiting
    ELSE /\ hooks' = [hooks EXCEPT ![t] = [pc |-> "done", pr |-> "none", cond |-> 0],
                                   ![waiting[First(id)]] = [pc |-> "notified", pr |-> @.pr, cond |-> 0]]
         /\ waiting' = [k \in 1..(Len(waiting) - 1) |-> IF k < First(id) THEN waiting[k] ELSE waiting[k + 1]]

\* The finally block, whatever the commands did: if the counter has gone, or a sweep
\* meets a ghost, the error comes after the notification.
FinishReview(t) ==
    LET pr == hooks[t].pr
        conds == Condition(conditions, pr)
        read == Read(counters, pr)
    IN  /\ hooks[t].pc = "running"
        /\ conditions' = conds
        /\ NotifyAnd(t, conds.val[pr])
        /\ LET gone == Raises(counters, pr) \/ pr \notin DOMAIN read.val
           IN  /\ counters' = IF gone THEN read ELSE Store(read, pr, read.val[pr] - 1)
               /\ spoilt' = spoilt \cup Lost(counters, read) \cup Lost(conditions, conds)
                                  \cup (IF gone THEN {pr} ELSE {})
        /\ UNCHANGED <<prHead, reviewed, clock>>

Elapse ==
    /\ clock < MaxClock
    /\ clock' = clock + 1
    /\ UNCHANGED <<hooks, counters, conditions, waiting, prHead, reviewed, spoilt>>

PushStep(t) == StartReview(t) \/ FinishReview(t)
Receive(t) ==
    \E pr \in PRs, e \in Events :
        \/ Disregard(t, pr, e) \/ Direct(t, pr, e)
        \/ DropPush(t, pr, e) \/ CountPush(t, pr, e) \/ CountRaises(t, pr, e)

PushNext == (\E t \in PushTasks : Receive(t) \/ PushStep(t)) \/ Elapse

\* The event loop runs a task that is ready, and its commands end.
PushFairness == \A t \in PushTasks : WF_pushVars(PushStep(t))
PushSpec == PushInit /\ [][PushNext]_pushVars /\ PushFairness

-----------------------------------------------------------------------------
(* Properties. *)

Active(pr) == {t \in PushTasks : hooks[t].pr = pr /\ hooks[t].pc \in {"entered", "waiting", "notified", "running"}}

\* Types; a task waits if and only if it is queued on some condition.
PushTypeOK ==
    /\ \A t \in PushTasks :
        /\ hooks[t].pc \in {"new", "entered", "waiting", "notified", "running", "done"}
        /\ hooks[t].pc = "waiting" <=> \E k \in DOMAIN waiting : waiting[k] = t
    /\ \A p \in PRs : reviewed[p] <= prHead[p]
    /\ DOMAIN counters.val \subseteq PRs /\ DOMAIN conditions.val \subseteq PRs

\* The counter tells how many tasks of the pull request are between their entry and
\* their end, so that "one runs, one waits" can be read off it; an expired entry is
\* the one way to lose count.
CounterIsExact == \A p \in PRs \ spoilt : Count(p) = Cardinality(Active(p))

\* No pull request is reviewed by two pushes at once, unless its entries expired.
OneReviewPerPR ==
    \A p \in PRs \ spoilt :
        Cardinality({t \in Active(p) : hooks[t].pc # "waiting"}) <= 1

\* A task waits only while another one will wake it.
WaiterHasWaker ==
    \A p \in PRs \ spoilt :
        (\E t \in Active(p) : hooks[t].pc = "waiting") => \E t \in Active(p) : hooks[t].pc # "waiting"

\* Every push, the dropped ones included, is followed by a review that starts after it,
\* unless the entries of its pull request expired.
PushIsReviewed ==
    \A p \in PRs : prHead[p] > reviewed[p] ~> (prHead[p] = reviewed[p] \/ p \in spoilt)

\* At most one runs and one waits for it, and the counter knows.
PushesTakeTurns == CounterIsExact /\ OneReviewPerPR /\ WaiterHasWaker
=============================================================================
