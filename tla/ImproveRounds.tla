---------------------------- MODULE ImproveRounds ----------------------------
(* Rounds of /improve over one merge request (tools/pr_code_suggestions.py).
   Several runs are between their awaits at once: each asks the model, has the
   answer scored by a second call, and then, without another await, removes
   duplicates, suppresses what earlier rounds settled, ranks, publishes and
   writes the rows of the telemetry store. Between the rounds reviewers dismiss
   and apply suggestions and push. *)
EXTENDS Integers, Sequences, FiniteSets, SequencesExt

CONSTANTS
    ImproveTasks,   \* the runs of the tool
    Replies,        \* sequences of suggestions the model may answer
    Scores,         \* scores the reflection call may give
    ImproveConfigs, \* settings a run may find
    MaxModels,      \* the model and its fallbacks
    MaxReviewerSteps, MaxCallFaults   \* bounds of the environment

NumSuggestions == 2        \* pr_code_suggestions.num_code_suggestions
ScoreThreshold == 0        \* pr_code_suggestions.suggestions_score_threshold
RuleLineWindow == 10       \* resolved_suggestions_rule_line_window
MaxHistory == 1            \* pr_code_suggestions.max_history_len
Unscored == -1             \* a suggestion without the key "score"

\* Lines and scores are read with int().
Suggestions == UNION {ToSet(reply) : reply \in Replies}
ASSUME ImproveBounds ==
    /\ Replies \subseteq Seq(Suggestions) /\ \A s \in Suggestions : s.line \in Int
    /\ Scores \subseteq Int /\ MaxModels \in Nat \ {0}

VARIABLES
    improveRuns,   \* each run's place, settings, data and telemetry status
    storeRows,     \* rows of the suggestions table, oldest first
    mrComments,    \* general comments of the merge request, oldest first
    mrHead,        \* number of the head commit
    reviewerSteps, callFaults

improveVars == <<improveRuns, storeRows, mrComments, mrHead, reviewerSteps, callFaults>>

Idle == [pc |-> "idle", cfg |-> CHOOSE c \in ImproveConfigs : TRUE, head |-> 0, attempt |-> 0,
         data |-> <<>>, found |-> FALSE, status |-> "none", faulty |-> FALSE]

ImproveInit ==
    /\ improveRuns = [r \in ImproveTasks |-> Idle]
    /\ storeRows = <<>>
    /\ mrComments = <<>>
    /\ mrHead = 0
    /\ reviewerSteps = 0
    /\ callFaults = 0

\* The elements of a set in the order of a strict total order.
InOrder(S, before(_, _)) ==
    [n \in 1..Cardinality(S) |-> CHOOSE i \in S : Cardinality({j \in S : before(j, i)}) = n - 1]

\* The elements of a sequence at some of its places.
Picked(seq, S) ==
    LET places == InOrder(S, LAMBDA i, j : i < j)
    IN  [n \in DOMAIN places |-> seq[places[n]]]

-----------------------------------------------------------------------------
(* The merge request's comments. *)

Note(kind, r) == [kind |-> kind, by |-> r, hist |-> 0]
IsNote(kind, r) == \E k \in DOMAIN mrComments : mrComments[k].kind = kind /\ mrComments[k].by = r
Without(notes, kind, r) == Picked(notes, {k \in DOMAIN notes : ~(notes[k].kind = kind /\ notes[k].by = r)})
Reworded(notes, r, new) ==
    [k \in DOMAIN notes |-> IF notes[k].kind = "progress" /\ notes[k].by = r THEN new ELSE notes[k]]

\* edit_comment of the progress comment, or a new comment where there is none.
Settled(notes, r, new) ==
    IF IsNote("progress", r) THEN Reworded(notes, r, new) ELSE Append(notes, new)

\* A comment with the header and no table is edited in place and the search goes on;
\* the first table found is folded into the history of the new one, of which the
\* oldest section is dropped at the limit, and the progress comment replaces it.
TableFound(notes) == {k \in DOMAIN notes : notes[k].kind = "table"}
Folded(hist) == IF hist = 0 THEN 1 ELSE IF hist >= MaxHistory THEN hist ELSE hist + 1
Persistent(notes, r) ==
    LET first == TableFound(notes) # {}
        at == CHOOSE k \in TableFound(notes) : \A l \in TableFound(notes) : k <= l
        new == [Note("table", r) EXCEPT !.hist = IF first THEN Folded(notes[at].hist) ELSE 0]
        edited == [k \in DOMAIN notes |->
                     IF notes[k].kind = "empty" /\ (first => k < at) THEN Note("table", r) ELSE notes[k]]
    IN  IF ~first THEN Settled(edited, r, new)
        ELSE IF IsNote("progress", r) THEN Reworded(RemoveAt(edited, at), r, new)
        ELSE [edited EXCEPT ![at] = new]

-----------------------------------------------------------------------------
(* From the model's answer to the suggestions that are published. *)

\* A body cut down to an ellipsis is given the score 0 as it is parsed.
GuardScore(s) == IF s.cut THEN 0 ELSE Unscored

\* Entries without their keys and repeated titles are skipped.
Parsed(reply) ==
    LET good == {i \in DOMAIN reply : reply[i].valid /\ \A j \in 1..(i - 1) :
                     reply[j].valid => reply[j].title # reply[i].title}
        kept == Picked(reply, good)
    IN  [n \in DOMAIN kept |-> [s |-> kept[n], score |-> GuardScore(kept[n])]]

\* The scores of the reflection replace the others. Code that the head already holds
\* scores 0. Without an answer every suggestion gets 7.
HeadScore(s, score) == IF s.done THEN 0 ELSE score
Reflected(data, scores) ==
    [i \in DOMAIN data |-> [data[i] EXCEPT !.score = HeadScore(data[i].s, scores[i])]]
Unreflected(data) == [i \in DOMAIN data |-> [data[i] EXCEPT !.score = 7]]

AtLeast(data, least) ==
    Picked(data, {i \in DOMAIN data : (IF data[i].score = Unscored THEN 1 ELSE data[i].score) >= least})
Collected(data) == AtLeast(data, IF ScoreThreshold > 1 THEN ScoreThreshold ELSE 1)
Rank(c) == IF c.score = Unscored THEN 0 ELSE c.score
ForDual(data, least) == Picked(data, {i \in DOMAIN data : Rank(data[i]) >= least})

\* One of the suggestions with the same first line and label stays: the best, and
\* of equals the first.
Twins(data, i) == {j \in DOMAIN data : data[j].s.line = data[i].s.line /\ data[j].s.label = data[i].s.label}
BestTwin(data, i) ==
    CHOOSE j \in Twins(data, i) : \A k \in Twins(data, i) :
        Rank(data[k]) < Rank(data[j]) \/ (Rank(data[k]) = Rank(data[j]) /\ j <= k)
SameRoundDedup(data) ==
    LET firsts == InOrder({i \in DOMAIN data : \A j \in Twins(data, i) : i <= j}, LAMBDA i, j : i < j)
    IN  [n \in DOMAIN firsts |-> data[BestTwin(data, firsts[n])]]

NamedRules(s) == s.rules \cup s.titleRules
Cohort(s) == <<s.line, s.rules>>            \* of a candidate: the rules its content names
Live == {"open", "applied", "dismissed"}
Distance(a, b) == IF a > b THEN a - b ELSE b - a

SamePatchOpenOnly(c) == \E i \in DOMAIN storeRows : storeRows[i].state = "open" /\ storeRows[i].patch = c.s.patch
SamePatch(c) == \E i \in DOMAIN storeRows : storeRows[i].state \in Live /\ storeRows[i].patch = c.s.patch
SameCohort(c, head) ==
    \E i \in DOMAIN storeRows :
        /\ storeRows[i].state \in Live
        /\ storeRows[i].cohort = Cohort(c.s)
        /\ storeRows[i].head = head
ResolvedNear(c) ==
    \E i \in DOMAIN storeRows :
        \/ /\ storeRows[i].state \in {"applied", "dismissed"}
           /\ Distance(storeRows[i].line, c.s.line) <= 3
        \/ /\ storeRows[i].state = "dismissed"
           /\ Distance(storeRows[i].line, c.s.line) <= RuleLineWindow
           /\ storeRows[i].rules \cap NamedRules(c.s) # {}
Raised(c, head) == ~(SamePatch(c) \/ SameCohort(c, head) \/ ResolvedNear(c))
Unsettled(data, head) == Picked(data, {i \in DOMAIN data : Raised(data[i], head)})

Ranked(data) ==
    LET order == InOrder(DOMAIN data, LAMBDA i, j :
                     Rank(data[i]) > Rank(data[j]) \/ (Rank(data[i]) = Rank(data[j]) /\ i < j))
    IN  [n \in DOMAIN order |-> data[order[n]]]
LimitOnly(data) == SubSeq(data, 1, IF Len(data) < NumSuggestions THEN Len(data) ELSE NumSuggestions)
RankAndLimit(data) == SubSeq(Ranked(data), 1, IF Len(data) < NumSuggestions THEN Len(data) ELSE NumSuggestions)

\* What push_inline_code_suggestions submits; blind when the store cannot be read.
Kept(data, head, blind) ==
    RankAndLimit(IF blind THEN SameRoundDedup(data) ELSE Unsettled(SameRoundDedup(data), head))
EverySuppressed(data, head, blind) ==
    Kept(data, head, blind) = <<>> /\ Len(SameRoundDedup(data)) = Len(data)
AllSuppressed(data, head, blind) == data # <<>> /\ Kept(data, head, blind) = <<>>

\* The row's cohort is computed from the rules of content and title.
RowOf(c, r, blind) ==
    [by |-> r, line |-> c.s.line, rules |-> NamedRules(c.s), cohort |-> <<c.s.line, NamedRules(c.s)>>,
     patch |-> c.s.patch,
     head |-> improveRuns[r].head, cut |-> c.s.cut, state |-> "open",
     stray |-> c.s.titleRules \ c.s.rules # {}, blind |-> blind]
RowsOf(kept, r, blind) == [n \in DOMAIN kept |-> RowOf(kept[n], r, blind)]

-----------------------------------------------------------------------------
(* One run, from await to await. *)

Cfg(r) == improveRuns[r].cfg
UnchangedStore == UNCHANGED <<storeRows, mrHead, reviewerSteps>>
Closed(r, status, faulty) ==
    improveRuns' = [improveRuns EXCEPT ![r] = [Idle EXCEPT !.pc = "closed", !.cfg = Cfg(r), !.status = status,
                                        !.faulty = faulty, !.found = improveRuns[r].data # <<>>]]
CloseRun(r, status) == Closed(r, status, FALSE)

\* The provider reads the merge request, the run is recorded and announced.
StartRun(r) ==
    /\ improveRuns[r].pc = "idle"
    /\ \E cfg \in ImproveConfigs :
        /\ improveRuns' = [improveRuns EXCEPT ![r] =
               [Idle EXCEPT !.pc = "asking", !.cfg = cfg, !.head = mrHead, !.attempt = 1, !.status = "started"]]
        /\ mrComments' = IF ~cfg.publish \/ cfg.auto THEN mrComments
                         ELSE Append(mrComments, Note(IF cfg.gfm THEN "progress" ELSE "temporary", r))
    /\ UnchangedStore /\ UNCHANGED callFaults

\* A merge request without files: the run is recorded as empty.
NoFiles(r) ==
    /\ improveRuns[r].pc = "idle"
    /\ CloseRun(r, "empty")
    /\ UnchangedStore /\ UNCHANGED <<mrComments, callFaults>>

ModelAnswers(r) ==
    /\ improveRuns[r].pc = "asking"
    /\ \E reply \in Replies :
        improveRuns' = [improveRuns EXCEPT ![r].pc = "reflecting", ![r].attempt = 0, ![r].data = Parsed(reply)]
    /\ UnchangedStore /\ UNCHANGED <<mrComments, callFaults>>

\* Without suggestions there is nothing to reflect on. A reflection whose entries do
\* not match the suggestions in number is ignored.
Reflect(r) ==
    LET data == improveRuns[r].data
        done(scored) == improveRuns' = [improveRuns EXCEPT ![r].pc = "deciding", ![r].data = Collected(scored)]
    IN  /\ improveRuns[r].pc = "reflecting"
        /\ \/ \E scores \in [DOMAIN data -> Scores] : done(Reflected(data, scores))
           \/ done(Unreflected(data))
           \/ done(data)
        /\ UnchangedStore /\ UNCHANGED <<mrComments, callFaults>>

\* The model call fails or times out: the next model is asked.
ModelFails(r) ==
    /\ improveRuns[r].pc = "asking"
    /\ improveRuns[r].attempt < MaxModels
    /\ improveRuns' = [improveRuns EXCEPT ![r].attempt = @ + 1]
    /\ UnchangedStore /\ UNCHANGED <<mrComments, callFaults>>

\* The exception handler of run: the progress comment is removed, or a note published.
FailureNotes(r, removed) ==
    IF ~Cfg(r).publish THEN mrComments
    ELSE IF IsNote("progress", r) THEN IF removed THEN Without(mrComments, "progress", r) ELSE mrComments
    ELSE Append(Without(mrComments, "temporary", r), Note("failure", r))

LastModelFails(r) ==
    /\ improveRuns[r].pc = "asking"
    /\ improveRuns[r].attempt = MaxModels
    /\ mrComments' = FailureNotes(r, TRUE)
    /\ CloseRun(r, "failed")
    /\ UnchangedStore /\ UNCHANGED callFaults

FailRun(r) == Closed(r, "failed", TRUE)
Fault == callFaults < MaxCallFaults /\ callFaults' = callFaults + 1

\* A provider call raises before anything was published, and so may the removal of
\* the progress comment in the handler.
PublishFails(r) ==
    /\ improveRuns[r].pc = "deciding"
    /\ Cfg(r).publish
    /\ Fault
    /\ \E removed \in BOOLEAN : mrComments' = FailureNotes(r, removed)
    /\ FailRun(r)
    /\ UnchangedStore

NoSuggestions(r) ==
    /\ improveRuns[r].pc = "deciding"
    /\ improveRuns[r].data = <<>>
    /\ mrComments' = IF Cfg(r).publish /\ Cfg(r).tellEmpty
                     THEN Settled(mrComments, r, Note("empty", r)) ELSE mrComments
    /\ CloseRun(r, "empty")
    /\ UnchangedStore /\ UNCHANGED callFaults

KeepArtifact(r) ==
    /\ improveRuns[r].pc = "deciding"
    /\ improveRuns[r].data # <<>>
    /\ ~Cfg(r).publish
    /\ CloseRun(r, "empty")
    /\ UnchangedStore /\ UNCHANGED <<mrComments, callFaults>>

Inline(r) ==
    /\ improveRuns[r].pc = "deciding"
    /\ improveRuns[r].data # <<>>
    /\ Cfg(r).publish
    /\ Cfg(r).committable \/ ~Cfg(r).gfm

\* The inline path, with the whole of push_inline_code_suggestions, whose look-up in
\* the store may fail; the notice explains a round that was suppressed altogether.
PushInline(r) ==
    LET data == improveRuns[r].data
        head == improveRuns[r].head
        cleared == Without(Without(mrComments, "temporary", r), "progress", r)
    IN  /\ Inline(r)
        /\ \E blind \in BOOLEAN :
            /\ IF blind THEN Fault ELSE UNCHANGED callFaults
            /\ storeRows' = storeRows \o RowsOf(Kept(data, head, blind), r, blind)
            /\ mrComments' = IF AllSuppressed(data, head, blind)
                             THEN Append(cleared, Note("notice", r)) ELSE cleared
        /\ CloseRun(r, "success")
        /\ UNCHANGED <<mrHead, reviewerSteps>>

\* The rows are written, and a call after that raises: the progress comment's removal,
\* or the notice or checklist that would follow.
PushInlineThenFail(r) ==
    /\ Inline(r)
    /\ Fault
    /\ storeRows' = storeRows \o RowsOf(Kept(improveRuns[r].data, improveRuns[r].head, FALSE), r, FALSE)
    /\ \E removed \in BOOLEAN : mrComments' = FailureNotes(r, removed)
    /\ FailRun(r)
    /\ UNCHANGED <<mrHead, reviewerSteps>>

\* The table, and with dual publishing the best suggestions inline as well: only the
\* latter makes the run a success, and its failure is swallowed.
PublishTable(r) ==
    LET best == ForDual(improveRuns[r].data, Cfg(r).dual)
        alone == Settled(mrComments, r, Note("table", r))
    IN  /\ improveRuns[r].pc = "deciding"
        /\ improveRuns[r].data # <<>>
        /\ Cfg(r).publish /\ ~Cfg(r).committable /\ Cfg(r).gfm
        /\ \/ /\ mrComments' = IF Cfg(r).persistent THEN Persistent(mrComments, r) ELSE alone
              /\ UNCHANGED callFaults
           \/ mrComments' = alone /\ Cfg(r).persistent /\ Fault  \* the search or an edit raises
        /\ IF Cfg(r).dual > 0 /\ best # <<>>
           THEN \/ /\ storeRows' = storeRows \o RowsOf(Kept(best, improveRuns[r].head, FALSE), r, FALSE)
                   /\ CloseRun(r, "success")
                \/ UNCHANGED storeRows /\ CloseRun(r, "empty")
           ELSE UNCHANGED storeRows /\ CloseRun(r, "empty")
        /\ UNCHANGED <<mrHead, reviewerSteps>>

-----------------------------------------------------------------------------
(* Between the rounds. *)

\* /dismiss, /adopt, Apply and the sweep of superseded threads move one row.
UpdateRow(i) ==
    /\ reviewerSteps < MaxReviewerSteps
    /\ reviewerSteps' = reviewerSteps + 1
    /\ \/ storeRows[i].state = "open" /\ storeRows' = [storeRows EXCEPT ![i].state = "applied"]
       \/ storeRows[i].state \in {"open", "applied"}
          /\ \E to \in {"dismissed", "superseded"} : storeRows' = [storeRows EXCEPT ![i].state = to]
    /\ UNCHANGED <<improveRuns, mrComments, mrHead, callFaults>>

PushCommit ==
    /\ reviewerSteps < MaxReviewerSteps
    /\ reviewerSteps' = reviewerSteps + 1
    /\ mrHead' = mrHead + 1
    /\ UNCHANGED <<improveRuns, storeRows, mrComments, callFaults>>

ImproveStep(r) ==
    \/ StartRun(r) \/ NoFiles(r)
    \/ ModelAnswers(r) \/ Reflect(r) \/ ModelFails(r) \/ LastModelFails(r)
    \/ PublishFails(r) \/ NoSuggestions(r) \/ KeepArtifact(r)
    \/ PushInline(r) \/ PushInlineThenFail(r) \/ PublishTable(r)

ImproveNext ==
    \/ \E r \in ImproveTasks : ImproveStep(r)
    \/ \E i \in DOMAIN storeRows : UpdateRow(i)
    \/ PushCommit

ImproveSpec == ImproveInit /\ [][ImproveNext]_improveVars

-----------------------------------------------------------------------------
(* Properties. *)

\* Types; the history folded into the persistent comment keeps its limit.
ImproveTypeOK ==
    /\ \A r \in ImproveTasks :
        /\ improveRuns[r].pc \in {"idle", "asking", "reflecting", "deciding", "closed"}
        /\ improveRuns[r].status \in {"none", "started", "success", "empty", "failed"}
        /\ improveRuns[r].attempt \in 0..MaxModels
        /\ improveRuns[r].head \in 0..mrHead
    /\ \A i \in DOMAIN storeRows : storeRows[i].state \in Live \cup {"superseded"}
    /\ \A k \in DOMAIN mrComments : mrComments[k].hist \in 0..MaxHistory

Later(i, j) == i < j /\ storeRows[i].by # storeRows[j].by /\ ~storeRows[j].blind

\* Over all rounds that could read the store, one patch is posted again only after
\* the earlier posting was superseded, however runs and reviewers interleave.
PatchPostedOnce ==
    \A i, j \in DOMAIN storeRows :
        Later(i, j) /\ storeRows[i].patch = storeRows[j].patch => storeRows[i].state = "superseded"

\* Two runs on one head do not post two findings for one line and the same rules. The
\* code keeps this only where the title names no rule that the content does not, for
\* a candidate's key is made of the one and a row's of both.
SiteHeldOnce ==
    \A i, j \in DOMAIN storeRows :
        /\ Later(i, j) /\ ~storeRows[j].stray
        /\ storeRows[i].cohort = storeRows[j].cohort
        /\ storeRows[i].head = storeRows[j].head
        => storeRows[i].state = "superseded"

New == {j \in DOMAIN storeRows' : j > Len(storeRows)}

\* What a reviewer has settled by the moment of publishing, which may be after the
\* run was started, is not raised again nearby.
SilentStep ==
    \A i \in DOMAIN storeRows : \A j \in New :
        LET old == storeRows[i]
            new == storeRows'[j]
        IN  old.state \in {"applied", "dismissed"} /\ ~new.blind =>
                /\ Distance(old.line, new.line) > 3
                /\ old.state = "dismissed" /\ old.rules \cap new.rules # {}
                    => Distance(old.line, new.line) > RuleLineWindow
ResolvedSitesStaySilent == [][SilentStep]_improveVars

\* The budget goes to the best: an inline run posts no more than its limit, and what it
\* leaves out was settled, or lost to a twin, or is scored no higher than all it posts.
Shows(j, c) == storeRows'[j].patch = c.s.patch /\ storeRows'[j].line = c.s.line
BestPosted(data, head) ==
    /\ Cardinality(New) <= NumSuggestions
    /\ \A i \in DOMAIN data :
        \/ \E j \in New : Shows(j, data[i])
        \/ \E k \in Twins(data, i) \ {i} : Rank(data[k]) >= Rank(data[i])
        \/ ~Raised(data[i], head)
        \/ /\ Cardinality(New) = NumSuggestions
           /\ \A j \in New : \E k \in DOMAIN data : Shows(j, data[k]) /\ Rank(data[k]) >= Rank(data[i])
BudgetStep ==
    \A r \in ImproveTasks :
        (/\ improveRuns[r].pc = "deciding" /\ improveRuns'[r].status = "success"
         /\ Cfg(r).dual = 0 /\ \A j \in New : ~storeRows'[j].blind) =>
            BestPosted(improveRuns[r].data, improveRuns[r].head)
BudgetGoesToTheBest == [][BudgetStep]_improveVars

\* A reviewer does not mistake silence for a clean review: an inline run that had
\* suggestions has posted one, or says why not.
SilenceIsExplained ==
    \A r \in ImproveTasks :
        (/\ improveRuns[r].pc = "closed" /\ improveRuns[r].found
         /\ Cfg(r).publish /\ (Cfg(r).committable \/ ~Cfg(r).gfm) /\ ~improveRuns[r].faulty)
        => \/ \E i \in DOMAIN storeRows : storeRows[i].by = r
           \/ IsNote("notice", r) \/ IsNote("failure", r)

\* Whatever way a run ends, its "Preparing suggestions" comment is gone or has become
\* the result, if the provider's calls worked. Two cases of the code remain: a run
\* without suggestions that is told not to say so, and one whose provider has no
\* markdown, which never removes its temporary comment when it finds nothing.
NothingLeftBehind ==
    \A r \in ImproveTasks :
        improveRuns[r].pc = "closed" /\ ~improveRuns[r].faulty =>
            /\ IsNote("progress", r) => ~improveRuns[r].found /\ ~Cfg(r).tellEmpty
            /\ IsNote("temporary", r) => ~improveRuns[r].found /\ improveRuns[r].status = "empty"

\* "Reject suggestions that look like LLM body-truncation hallucinations ... before
\* they ever reach the GitLab DiffNote pipeline" (pr_code_suggestions.py:816).
CutBodiesAreDropped == \A i \in DOMAIN storeRows : ~storeRows[i].cut

\* What stands in the store after any rounds: no patch twice, no line and rules twice.
OnePostingStands == PatchPostedOnce /\ SiteHeldOnce

\* A run that says nothing had nothing to say, and leaves nothing behind.
EndsAreExplained == SilenceIsExplained /\ NothingLeftBehind

\* What is posted is what reviewers have not settled, and the best of it.
RightOnesArePosted == ResolvedSitesStaySilent /\ BudgetGoesToTheBest
=============================================================================
