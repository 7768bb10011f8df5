------------------------------ MODULE HookDispatch ------------------------------
(* The GitLab webhook's dispatcher (servers/gitlab_webhook.py) for one merge request:
   which hook starts an automatic run, and what each hook leaves in the merge
   request's telemetry row. A run rewrites the description, and that edit is a hook
   again. Hooks arrive in any order, and GitLab may deliver those of a push twice. *)
EXTENDS Naturals, FiniteSets

CONSTANTS
    MaxCommits,     \* bounds the pushes
    MaxHooks,       \* bounds everything that happens to the merge request
    MaxRedelivered,
    HookConfigs     \* [trigger, describes, allowed]: pushes start runs; a run edits the
                    \* description; the bot is whitelisted

ASSUME DispatchAssumption == MaxCommits \in Nat /\ MaxHooks \in Nat /\ MaxRedelivered \in Nat

VARIABLES
    mergeRequest,   \* its state, its draft flag, its tip and which commits are Apply commits
    inbox,          \* hooks sent and not handled
    hookCount,
    claims,         \* Apply commits the coordinator has claimed
    activeRuns,     \* automatic runs that have not yet written their description
    runCount,       \* runs by the commit, or the opening (0), that they are about
    resent,         \* redeliveries by the same
    mrRow,          \* the mr_activity row
    hookConf

dispatchVars == <<mergeRequest, inbox, hookCount, claims, activeRuns, runCount, resent, mrRow, hookConf>>

Tips == 0..MaxCommits
NoRow == [state |-> "none", author |-> "", mergedAt |-> FALSE]

HookInit ==
    /\ mergeRequest = [state |-> "none", draft |-> FALSE, tip |-> 0, applied |-> {}]
    /\ inbox = {}
    /\ hookCount = 0
    /\ claims = {}
    /\ activeRuns = {}
    /\ runCount = [t \in Tips |-> 0]
    /\ resent = [t \in Tips |-> 0]
    /\ mrRow = NoRow
    /\ hookConf \in HookConfigs

-----------------------------------------------------------------------------
(* GitLab and the people. *)

\* A hook tells of the merge request as it is when it is sent; "pushed" is its oldrev.
Hook(m, kind, pushed, actor) ==
    [n |-> hookCount, kind |-> kind, pushed |-> pushed, actor |-> actor,
     tip |-> m.tip, apply |-> m.tip \in m.applied, draft |-> m.draft, state |-> m.state]
Sends(m, hooks) ==
    /\ hookCount < MaxHooks
    /\ mergeRequest' = m
    /\ inbox' = inbox \cup hooks
    /\ hookCount' = hookCount + 1
    /\ UNCHANGED <<claims, activeRuns, runCount, resent, mrRow, hookConf>>

Open ==
    /\ mergeRequest.state = "none"
    /\ \E draft \in BOOLEAN, actor \in {"ann", "bot"} :
        LET m == [mergeRequest EXCEPT !.state = "opened", !.draft = draft]
        IN  Sends(m, {Hook(m, "open", FALSE, actor)})

\* A push sends a push hook and an update of the merge request.
Push ==
    /\ mergeRequest.state = "opened"
    /\ mergeRequest.tip < MaxCommits
    /\ \E apply \in BOOLEAN :
        LET tip == mergeRequest.tip + 1
            m == [mergeRequest EXCEPT !.tip = tip, !.applied = IF apply THEN @ \cup {tip} ELSE @]
        IN  Sends(m, {Hook(m, "push", TRUE, "ann"), Hook(m, "update", TRUE, "ann")})

Edit ==
    /\ mergeRequest.state = "opened"
    /\ \E draft \in BOOLEAN :
        LET m == [mergeRequest EXCEPT !.draft = draft]
        IN  Sends(m, {Hook(m, "update", FALSE, "bob")})

Settle ==
    /\ mergeRequest.state = "opened"
    /\ \E state \in {"merged", "closed"} :
        LET m == [mergeRequest EXCEPT !.state = state]
        IN  Sends(m, {Hook(m, IF state = "merged" THEN "merge" ELSE "close", FALSE, "bob")})

Reopen ==
    /\ mergeRequest.state = "closed"
    /\ LET m == [mergeRequest EXCEPT !.state = "opened"]
       IN  Sends(m, {Hook(m, "open", FALSE, "bob")})

Remark ==
    /\ mergeRequest.state # "none"
    /\ Sends(mergeRequest, {Hook(mergeRequest, "note", FALSE, "bob")})

-----------------------------------------------------------------------------
(* The telemetry row. *)

\* Merge request hooks carry no author dict, so the name is that of whoever acted; the
\* comment's row is shaped without an actor and falls back to the author's id.
Author(h) == IF h.kind = "note" THEN "user:ann" ELSE h.actor

\* INSERT OR REPLACE: everything but a known author is as in the last hook.
KeepAuthor(h) == IF mrRow.author # "" THEN mrRow.author ELSE Author(h)
MergedOnce(h, state) == h.kind = "merge" \/ mrRow.mergedAt
MergedNow(h, state) == h.kind = "merge"
Record(h, state) ==
    mrRow' \in {mrRow, [state |-> state, author |-> KeepAuthor(h), mergedAt |-> MergedNow(h, state)]}

-----------------------------------------------------------------------------
(* The handler. *)

Subject(h) == IF h.kind = "open" THEN 0 ELSE h.tip
Starts(h) ==
    /\ runCount' = [runCount EXCEPT ![Subject(h)] = @ + 1]
    /\ activeRuns' = activeRuns \cup {h.n}
StartsNothing == UNCHANGED <<runCount, activeRuns>>

\* Apply commits: both hooks record the Apply, and those that bring the commit go to
\* the coordinator, which takes a commit once. A push hook has no merge request to
\* record, and its lookup may find none.
AnyHookBrings(h) == TRUE
PushDriven(h) == h.kind = "push" \/ h.pushed
HandleApply(h) ==
    /\ h.apply /\ h.kind \in {"push", "update"}
    /\ IF ~PushDriven(h)
       THEN StartsNothing /\ UNCHANGED <<claims, mrRow>>
       ELSE /\ IF h.kind = "update" THEN Record(h, "updated") ELSE UNCHANGED mrRow
            /\ \/ h.tip \notin claims /\ claims' = claims \cup {h.tip} /\ Starts(h)
               \/ (h.tip \in claims \/ h.kind = "push") /\ StartsNothing /\ UNCHANGED claims

IsApply(h) == h.apply /\ h.kind \in {"push", "update"}

HandleOpen(h) ==
    /\ h.kind = "open"
    /\ Record(h, "opened")
    /\ IF h.draft THEN StartsNothing ELSE Starts(h)

\* An update without oldrev is only recorded, whatever it changed; a push to a draft
\* is not even that.
BringsAlways(h) == TRUE
Brings(h) == h.pushed
HandleUpdate(h) ==
    /\ h.kind = "update"
    /\ IF ~Brings(h) THEN Record(h, "updated") /\ StartsNothing
       ELSE IF h.draft THEN UNCHANGED mrRow /\ StartsNothing
       ELSE Record(h, "updated") /\ IF hookConf.trigger THEN Starts(h) ELSE StartsNothing

HandleSettled(h) ==
    /\ h.kind \in {"merge", "close"}
    /\ Record(h, IF h.kind = "merge" THEN "merged" ELSE "closed")
    /\ StartsNothing

\* What a comment commands is in other modules; its hook also records the row.
HandleNote(h) == h.kind = "note" /\ Record(h, h.state) /\ StartsNothing

\* A push hook that brings no Apply commit has no branch of its own.
HandlePush(h) == h.kind = "push" /\ StartsNothing /\ UNCHANGED mrRow

FromBot(h) == h.actor = "bot" /\ ~hookConf.allowed
Handle(h) ==
    /\ h \in inbox
    /\ \/ inbox' = inbox \ {h} /\ UNCHANGED resent
       \/ /\ h.pushed
          /\ resent[Subject(h)] < MaxRedelivered
          /\ resent' = [resent EXCEPT ![Subject(h)] = @ + 1]
          /\ UNCHANGED inbox
    /\ IF FromBot(h) THEN StartsNothing /\ UNCHANGED <<claims, mrRow>>
       ELSE \/ HandleApply(h)
            \/ /\ ~IsApply(h)
               /\ HandleOpen(h) \/ HandleUpdate(h) \/ HandleSettled(h) \/ HandleNote(h) \/ HandlePush(h)
               /\ UNCHANGED claims
    /\ UNCHANGED <<mergeRequest, hookCount, hookConf>>

\* /describe writes the description of an open merge request, as the bot.
Describe(n) ==
    /\ n \in activeRuns
    /\ activeRuns' = activeRuns \ {n}
    /\ IF hookConf.describes /\ mergeRequest.state = "opened"
       THEN /\ hookCount < MaxHooks
            /\ inbox' = inbox \cup {Hook(mergeRequest, "update", FALSE, "bot")}
            /\ hookCount' = hookCount + 1
       ELSE UNCHANGED <<inbox, hookCount>>
    /\ UNCHANGED <<mergeRequest, claims, runCount, resent, mrRow, hookConf>>

\* A claim outlives the hooks that bring its commit.
ClaimEnds(t) ==
    /\ t \in claims
    /\ \A h \in inbox : h.tip = t => ~h.pushed
    /\ claims' = claims \ {t}
    /\ UNCHANGED <<mergeRequest, inbox, hookCount, activeRuns, runCount, resent, mrRow, hookConf>>

HookNext ==
    \/ Open \/ Push \/ Edit \/ Settle \/ Reopen \/ Remark
    \/ \E h \in inbox : Handle(h)
    \/ \E n \in activeRuns : Describe(n)
    \/ \E t \in claims : ClaimEnds(t)

HookSpec == HookInit /\ [][HookNext]_dispatchVars

-----------------------------------------------------------------------------
(* Properties. *)

\* Types; the claims are Apply commits that were pushed.
HookTypeOK ==
    /\ hookCount \in 0..MaxHooks
    /\ claims \subseteq mergeRequest.applied
    /\ mergeRequest.applied \subseteq 1..mergeRequest.tip
    /\ mrRow.state \in {"none", "opened", "updated", "merged", "closed"}

\* A commit is reviewed once, however many hooks tell of it and whatever edits the run
\* itself makes: only a redelivered hook can start another run for it. The description
\* that a run writes never starts the next run.
EachCommitReviewedOnce == \A t \in Tips \ {0} : runCount[t] <= 1 + resent[t]

\* A row with a merge date is that of a merge request that was merged, and it still
\* says so: whatever hook overwrites the state takes the date with it.
MergeDateIsTrue == mrRow.mergedAt => mrRow.state = "merged" /\ mergeRequest.state = "merged"

\* Of the two facts a row owes to earlier hooks, neither is made false by a later one:
\* whoever merges, closes or comments, the author stays, and the merge date is true.
AuthorStays == mrRow.author # "" => mrRow'.author = mrRow.author
RowIsTrue == [][AuthorStays /\ MergeDateIsTrue']_dispatchVars
=============================================================================
