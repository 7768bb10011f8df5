----------------------------- MODULE SuggestionFlow -----------------------------
(***************************************************************************)
(* The life of the inline code suggestions of one merge request, from the  *)
(* /improve that posts them (tools/pr_code_suggestions.py) through the     *)
(* GitLab hooks and thread commands (servers/gitlab_webhook.py) to their   *)
(* telemetry rows and action events (telemetry/events.py, store.py).       *)
(*                                                                         *)
(* A handler below has no await, so it runs alone on the event loop; but   *)
(* each of its HTTP calls leaves GitLab, and the people who use it, time   *)
(* to act, each call and each write of the store may fail (the exception   *)
(* is caught and logged), and the process may stop between any two.        *)
(***************************************************************************)
EXTENDS Integers, FiniteSets

CONSTANTS
    Suggestions,
    Patches,     \* target range and proposed code of a suggestion
    Patch,       \* the patch of each suggestion: twins of several rounds share one
    Versions,    \* what a target range may contain
    Original,
    Suggested,   \* what it contains when the patch is applied
    MaxUserSteps \* bound on what people do on GitLab besides commands

Unposted == "unposted"

ASSUME FlowAssumption ==
    /\ Patch \in [Suggestions -> Patches]
    /\ {Original, Suggested} \subseteq Versions
    /\ Unposted \notin Versions
    /\ IsFiniteSet(Suggestions)
    /\ MaxUserSteps \in Nat

VARIABLES
    content,   \* GitLab: the target range of each patch at the MR's head
    thread,    \* GitLab: the discussion of each suggestion
    hooks,     \* GitLab: hooks for Apply commits that are not delivered yet
    row,       \* suggestions.state, "absent" when there is no row
    noted,     \* the rows whose note_id names a suggestion discussion
    postedAt,  \* suggestions.posted_at
    log,       \* action_events, as the set of actions of each suggestion
    at,        \* where the handler in progress is, "idle" when there is none
    todo,      \* the suggestions it still has to treat
    batch,     \* those its next loop will treat
    steps,     \* how much of MaxUserSteps is spent
    base,      \* history: what the range contained when posted, or Unposted
    changed,   \* history: the suggestions whose range has changed since
    closed,    \* history: the suggestions whose thread has been resolved
    picked,    \* history: the suggestions somebody clicked Apply on
    marked     \* history: the suggestions an Apply hook marked

gitlab == <<content, thread, hooks, steps, changed, closed, picked>>
store == <<row, noted, postedAt, log, marked>>
vars == <<gitlab, store, at, todo, batch, base>>

Phases == {"idle", "publish", "record", "adoptResolve", "adoptMark", "adoptLog",
           "dismissResolve", "dismissLog", "dismissMark", "applyMark", "applyLog",
           "sweep", "retire", "retireLog"}

Hook == [picks: SUBSET Suggestions, source: {"push", "update"}]

TypeOK ==
    /\ content \in [Patches -> Versions]
    /\ steps \in 0..MaxUserSteps
    /\ thread \in [Suggestions -> {"none", "open", "resolved"}]
    /\ hooks \subseteq Hook
    /\ row \in [Suggestions -> {"absent", "open", "applied", "dismissed", "superseded"}]
    /\ noted \subseteq Suggestions
    /\ postedAt \in [Suggestions -> Nat]
    /\ log \in [Suggestions ->
                   SUBSET {"applied", "adopted_implicitly", "dismissed", "resolved"}]
    /\ at \in Phases
    /\ todo \subseteq Suggestions
    /\ batch \subseteq Suggestions
    /\ base \in [Suggestions -> Versions \cup {Unposted}]
    /\ changed \subseteq Suggestions
    /\ closed \subseteq Suggestions
    /\ picked \subseteq Suggestions
    /\ marked \subseteq Suggestions

Init ==
    /\ content = [p \in Patches |-> Original]
    /\ thread = [s \in Suggestions |-> "none"]
    /\ hooks = {}
    /\ steps = 0
    /\ row = [s \in Suggestions |-> "absent"]
    /\ noted = {}
    /\ postedAt = [s \in Suggestions |-> 0]
    /\ log = [s \in Suggestions |-> {}]
    /\ at = "idle"
    /\ todo = {}
    /\ batch = {}
    /\ base = [s \in Suggestions |-> Unposted]
    /\ changed = {}
    /\ closed = {}
    /\ picked = {}
    /\ marked = {}

-----------------------------------------------------------------------------
(* GitLab and its users, between any two steps of the bot. *)

(* target_region_changed and _suggestion_target_is_unchanged: the range at the
   head differs from the range the suggestion was posted on. *)
TargetChanged(s) == base[s] # Unposted /\ content[Patch[s]] # base[s]

(* The head moves: ranges of several patches may change with it. *)
MoveHead(newContent) ==
    /\ content' = newContent
    /\ changed' = changed \cup
          {s \in Suggestions : base[s] # Unposted /\ newContent[Patch[s]] # base[s]}

UserStep == steps < MaxUserSteps /\ steps' = steps + 1

UserPushes(p, version) ==
    /\ UserStep
    /\ version # content[p]
    /\ MoveHead([content EXCEPT ![p] = version])
    /\ UNCHANGED <<thread, hooks, closed, picked, store, at, todo, batch, base>>

UserTogglesThread(s) ==
    /\ UserStep
    /\ thread[s] # "none"
    /\ thread' = [thread EXCEPT ![s] = IF @ = "open" THEN "resolved" ELSE "open"]
    /\ closed' = IF thread[s] = "open" THEN closed \cup {s} ELSE closed
    /\ UNCHANGED <<content, hooks, changed, picked, store, at, todo, batch, base>>

(* "Apply N suggestions": one commit, at most one suggestion for a range, each
   still applicable.  GitLab resolves their threads and sends two hooks. *)
UserApplies(S) ==
    /\ UserStep
    /\ S # {}
    /\ \A s \in S : /\ thread[s] = "open"
                    /\ ~TargetChanged(s)
                    /\ base[s] # Suggested
    /\ \A s, u \in S : Patch[s] = Patch[u] => s = u
    /\ MoveHead([p \in Patches |->
                   IF \E s \in S : Patch[s] = p THEN Suggested ELSE content[p]])
    /\ thread' = [s \in Suggestions |-> IF s \in S THEN "resolved" ELSE thread[s]]
    /\ closed' = closed \cup S
    /\ picked' = picked \cup S
    /\ hooks' = hooks \cup [picks: {S}, source: {"push", "update"}]
    /\ UNCHANGED <<store, at, todo, batch, base>>

-----------------------------------------------------------------------------
(* How a handler goes on. *)
GoTo(phase, now, later) == at' = phase /\ todo' = now /\ batch' = later

Finish == GoTo("idle", {}, {})

(* The process stops, or an exception ends the handler: what it has written
   stays, what it was doing is lost. *)
Crash ==
    /\ at # "idle"
    /\ Finish
    /\ UNCHANGED <<gitlab, store, base>>

Resolve(s) ==
    /\ thread' = [thread EXCEPT ![s] = "resolved"]
    /\ closed' = closed \cup {s}
    /\ UNCHANGED <<content, hooks, steps, changed, picked>>

(* record_action, whose failure is swallowed. *)
LogAction(s, action) ==
    /\ log' = log \/ log' = [log EXCEPT ![s] = @ \cup {action}]
    /\ UNCHANGED <<row, noted, postedAt, marked>>

(* update_suggestion_state, whose failure is swallowed: did it update the row? *)
UpdateState(s, state, allowedFrom, updated) ==
    /\ updated => row[s] \in allowedFrom
    /\ row' = IF updated THEN [row EXCEPT ![s] = state] ELSE row
    /\ UNCHANGED <<noted, postedAt, log, marked>>

-----------------------------------------------------------------------------
(* push_inline_code_suggestions: publish all, then record all. *)
PostStart(S) ==
    /\ at = "idle"
    /\ S # {}
    /\ \A s \in S : base[s] = Unposted
    /\ base' = [s \in Suggestions |-> IF s \in S THEN content[Patch[s]] ELSE base[s]]
    /\ GoTo("publish", S, S)
    /\ UNCHANGED <<gitlab, store>>

(* A discussion is created, or the call fails and leaves at best a general
   note, which holds no suggestion block and takes no commands. *)
Publish(s) ==
    /\ at = "publish"
    /\ s \in todo
    /\ thread' \in {thread, [thread EXCEPT ![s] = "open"]}
    /\ IF todo = {s} THEN GoTo("record", batch, {}) ELSE GoTo("publish", todo \ {s}, batch)
    /\ UNCHANGED <<content, hooks, steps, changed, closed, picked, store, base>>

(* emit_suggestion, for every entry whether its publication succeeded or not. *)
Record(s) ==
    /\ at = "record"
    /\ s \in todo
    /\ \/ /\ row' = [row EXCEPT ![s] = "open"]
          /\ noted' = IF thread[s] = "none" THEN noted ELSE noted \cup {s}
          /\ postedAt' = [postedAt EXCEPT
                            ![s] = Cardinality({u \in Suggestions : row[u] # "absent"})]
       \/ UNCHANGED <<row, noted, postedAt>>
    /\ IF todo = {s} THEN Finish ELSE GoTo("record", todo \ {s}, {})
    /\ UNCHANGED <<gitlab, log, marked, base>>

-----------------------------------------------------------------------------
(* Mutant: the target is not compared with what was posted. *)
AdoptStartUnchecked(s) ==
    /\ at = "idle"
    /\ s \in noted
    /\ row[s] \in {"open", "applied"}
    /\ GoTo("adoptResolve", {s}, {})
    /\ UNCHANGED <<gitlab, store, base>>

(* /adopt in the thread of s: a row that is open or applied, and a target that
   has changed since it was posted; otherwise a reply and nothing else. *)
AdoptStart(s) ==
    /\ at = "idle"
    /\ s \in noted
    /\ row[s] \in {"open", "applied"}
    /\ TargetChanged(s)
    /\ GoTo("adoptResolve", {s}, {})
    /\ UNCHANGED <<gitlab, store, base>>

AdoptResolve(s) ==
    /\ at = "adoptResolve"
    /\ s \in todo
    /\ \/ Resolve(s) /\ GoTo("adoptMark", todo, {})
       \/ UNCHANGED gitlab /\ Finish
    /\ UNCHANGED <<store, base>>

(* Mutant: the action is logged whether or not the row made the transition. *)
AdoptMarkAlways(s) ==
    /\ at = "adoptMark"
    /\ s \in todo
    /\ \E updated \in BOOLEAN : UpdateState(s, "applied", {"open"}, updated)
    /\ GoTo("adoptLog", todo, {})
    /\ UNCHANGED <<gitlab, base>>

(* mark_suggestion_adopted: no transition, no action. *)
AdoptMark(s) ==
    /\ at = "adoptMark"
    /\ s \in todo
    /\ \E updated \in BOOLEAN :
          /\ UpdateState(s, "applied", {"open"}, updated)
          /\ IF updated THEN GoTo("adoptLog", todo, {}) ELSE Finish
    /\ UNCHANGED <<gitlab, base>>

AdoptLog(s) ==
    /\ at = "adoptLog"
    /\ s \in todo
    /\ LogAction(s, "adopted_implicitly")
    /\ Finish
    /\ UNCHANGED <<gitlab, base>>

-----------------------------------------------------------------------------
(* /dismiss in the thread of s: its row, when it can be looked up, is open or
   applied. *)
DismissStart(s) ==
    /\ at = "idle"
    /\ thread[s] # "none"
    /\ \E lookupFails \in BOOLEAN :
          lookupFails \/ s \notin noted \/ row[s] \in {"open", "applied"}
    /\ GoTo("dismissResolve", {s}, {})
    /\ UNCHANGED <<gitlab, store, base>>

(* Mutant: a failed call to GitLab is not noticed. *)
DismissResolveUnchecked(s) ==
    /\ at = "dismissResolve"
    /\ s \in todo
    /\ Resolve(s) \/ UNCHANGED gitlab
    /\ IF s \in noted THEN GoTo("dismissLog", todo, {}) ELSE Finish
    /\ UNCHANGED <<store, base>>

DismissResolve(s) ==
    /\ at = "dismissResolve"
    /\ s \in todo
    /\ \/ /\ Resolve(s)
          /\ IF s \in noted THEN GoTo("dismissLog", todo, {}) ELSE Finish
       \/ UNCHANGED gitlab /\ Finish
    /\ UNCHANGED <<store, base>>

(* The action is emitted first... *)
DismissLog(s) ==
    /\ at = "dismissLog"
    /\ s \in todo
    /\ LogAction(s, "dismissed")
    /\ GoTo("dismissMark", todo, {})
    /\ UNCHANGED <<gitlab, base>>

(* ...and the state updated after it. *)
DismissMark(s) ==
    /\ at = "dismissMark"
    /\ s \in todo
    /\ \E updated \in BOOLEAN : UpdateState(s, "dismissed", {"open", "applied"}, updated)
    /\ Finish
    /\ UNCHANGED <<gitlab, base>>

-----------------------------------------------------------------------------
(* find_applied_suggestion_candidates: open rows whose suggestion block is what
   the commit has put in their range. *)
Candidates(picks) ==
    {s \in noted : row[s] = "open" /\ \E u \in picks : Patch[s] = Patch[u]}

(* candidates[:n], in the order of posted_at. *)
Oldest(candidates, n) ==
    {s \in candidates :
        Cardinality({u \in candidates : postedAt[u] < postedAt[s]}) < n}

(* _process_apply_commit_event of either hook of a commit: the discussions that
   could be loaded hold the candidates, and fewer than the commit's message
   announces (or a failed lookup) mark nothing. *)
ApplyStart(hook) ==
    /\ at = "idle"
    /\ hook \in hooks
    /\ hooks' = hooks \ {hook}
    /\ LET expected == Cardinality(hook.picks)
       IN  \/ \E loaded \in SUBSET Candidates(hook.picks) :
                 /\ Cardinality(loaded) >= expected
                 /\ GoTo("applyMark", {}, Oldest(loaded, expected))
           \/ Finish
    /\ UNCHANGED <<content, thread, steps, changed, closed, picked, store, base>>

(* mark_suggestion_ids_applied: one transaction, for the rows still open. *)
ApplyMark ==
    /\ at = "applyMark"
    /\ LET updated == {s \in batch : row[s] = "open"}
       IN  \/ /\ updated # {}
              /\ row' = [s \in Suggestions |-> IF s \in updated THEN "applied" ELSE row[s]]
              /\ marked' = marked \cup updated
              /\ GoTo("applyLog", updated, {})
           \/ UNCHANGED <<row, marked>> /\ Finish
    /\ UNCHANGED <<gitlab, noted, postedAt, log, base>>

ApplyLog(s) ==
    /\ at = "applyLog"
    /\ s \in todo
    /\ LogAction(s, "applied")
    /\ IF todo = {s} THEN Finish ELSE GoTo("applyLog", todo \ {s}, {})
    /\ UNCHANGED <<gitlab, base>>

-----------------------------------------------------------------------------
(* _resolve_superseded_suggestions: the unresolved threads whose target has
   changed are listed, resolved one by one, and the open rows of those that
   were resolved are retired. *)
SweepStart ==
    /\ at = "idle"
    /\ LET stale == {s \in Suggestions : thread[s] = "open" /\ TargetChanged(s)}
       IN  stale # {} /\ GoTo("sweep", stale, {})
    /\ UNCHANGED <<gitlab, store, base>>

Sweep(s) ==
    /\ at = "sweep"
    /\ s \in todo
    /\ \E resolved \in BOOLEAN :
          LET done == IF resolved THEN batch \cup {s} ELSE batch
          IN  /\ IF resolved THEN Resolve(s) ELSE UNCHANGED gitlab
              /\ IF todo # {s} THEN GoTo("sweep", todo \ {s}, done)
                 ELSE IF done # {} THEN GoTo("retire", done, {}) ELSE Finish
    /\ UNCHANGED <<store, base>>

Retired(s) == IF todo = {s} THEN Finish ELSE GoTo("retire", todo \ {s}, {})

(* Rows that are not open keep their attribution. *)
SkipRetire(s) ==
    /\ at = "retire"
    /\ s \in todo
    /\ s \notin noted \/ row[s] # "open"
    /\ Retired(s)
    /\ UNCHANGED <<gitlab, store, base>>

(* Mutant: rows that were applied are retired as well. *)
RetireAny(s) ==
    /\ at = "retire"
    /\ s \in todo
    /\ s \in noted
    /\ \E updated \in BOOLEAN :
          UpdateState(s, "superseded", {"open", "applied"}, updated)
    /\ GoTo("retireLog", todo, {s})
    /\ UNCHANGED <<gitlab, base>>

(* Mutant: the row is given the name of the action as its state. *)
RetireAsResolved(s) ==
    /\ at = "retire"
    /\ s \in todo
    /\ s \in noted
    /\ row[s] = "open"
    /\ \E updated \in BOOLEAN : UpdateState(s, "resolved", {"open", "applied"}, updated)
    /\ GoTo("retireLog", todo, {s})
    /\ UNCHANGED <<gitlab, base>>

Retire(s) ==
    /\ at = "retire"
    /\ s \in todo
    /\ s \in noted
    /\ row[s] = "open"
    /\ \E updated \in BOOLEAN :
          UpdateState(s, "superseded", {"open", "applied"}, updated)
    /\ GoTo("retireLog", todo, {s})
    /\ UNCHANGED <<gitlab, base>>

RetireLog(s) ==
    /\ at = "retireLog"
    /\ s \in batch
    /\ LogAction(s, "resolved")
    /\ Retired(s)
    /\ UNCHANGED <<gitlab, base>>

-----------------------------------------------------------------------------
Handler(s) ==
    \/ Publish(s) \/ Record(s)
    \/ AdoptStart(s) \/ AdoptResolve(s) \/ AdoptMark(s) \/ AdoptLog(s)
    \/ DismissStart(s) \/ DismissResolve(s) \/ DismissLog(s) \/ DismissMark(s)
    \/ ApplyLog(s)
    \/ Sweep(s) \/ SkipRetire(s) \/ Retire(s) \/ RetireLog(s)

Next ==
    \/ \E s \in Suggestions : Handler(s) \/ UserTogglesThread(s)
    \/ \E S \in SUBSET Suggestions : UserApplies(S) \/ PostStart(S)
    \/ \E hook \in hooks : ApplyStart(hook)
    \/ \E p \in Patches, version \in Versions : UserPushes(p, version)
    \/ ApplyMark
    \/ SweepStart
    \/ Crash

Spec == Init /\ [][Next]_vars

-----------------------------------------------------------------------------
(* Adoption needs evidence in the code: no row says "applied" unless its target
   range has changed since the suggestion was posted (what /adopt checks) or
   somebody clicked Apply on its patch, whatever happened on GitLab while the
   handler was at work. *)
AdoptionHasEvidence ==
    \A s \in Suggestions : row[s] = "applied" =>
        s \in changed \/ \E u \in picked : Patch[u] = Patch[s]

(* An adoption that is reported was made, and only a dismissal may follow it:
   the event log and the rows do not contradict each other after a crash or a
   failed write. *)
ReportedAdoptionWasMade ==
    \A s \in Suggestions :
        log[s] \cap {"applied", "adopted_implicitly"} # {}
        => row[s] \in {"applied", "dismissed"}

(* A row leaves the open set for good only after its thread was resolved on
   GitLab: a reviewer never has an unresolved thread that the bot has already
   written off without showing it. *)
RetiredThreadsWereResolved ==
    \A s \in Suggestions : row[s] \in {"dismissed", "superseded"} => s \in closed

(* The store and the log implement the abstract lifecycle. *)
Lifecycle == INSTANCE SuggestionLifecycle WITH
    state <- row,
    adopted <- {s \in Suggestions : log[s] \cap {"applied", "adopted_implicitly"} # {}}

ImplementsLifecycle == Lifecycle!Spec

-----------------------------------------------------------------------------
(* What documents and comments claim and the code does not do. *)

(* telemetry/README.md: a commit whose candidates are more than it announces
   marks none of them. *)
AmbiguityStaysOpen ==
    at = "applyMark" => Cardinality(Candidates(batch)) = Cardinality(batch)

(* "Mark exactly expected_count of the candidates": the clicks on Apply mark no
   more rows than they applied suggestions. *)
ClickCountsOnce == Cardinality(marked) <= Cardinality(picked)
=============================================================================
