----------------------------- MODULE TelemetryViews -----------------------------
(* What the telemetry store answers (telemetry/store.py, api.py): its rows, written by
   hooks, tools and commands, and the aggregates the dashboard and the weekly report
   read. Writes are best effort, so a row may be missing. *)
EXTENDS Naturals, Sequences, FiniteSets

CONSTANTS
    MRs, SuggestionIds, RunIds, Authors,
    RuleLists,      \* rule keys a suggestion may cite, in order
    Importances,    \* what the model may say of it; 0 stands for nothing
    RuleSeverities, \* severity of the keys that the project's rule files name
    CriticalRules, HighRules,   \* keys that a configured pattern matches
    MaxTime

VARIABLES
    mrTable, suggestionTable, runTable,
    runs,           \* what really became of each run, and whether the store was told
    time

Severities == {"critical", "high", "medium", "low", "unknown"}
SuggestionStates == {"open", "applied", "dismissed", "superseded"}
RuleKeys == UNION {{list[k] : k \in DOMAIN list} : list \in RuleLists}
Unruled == "(no rule key)"  \* what is cited for none

ASSUME ViewBounds ==
    /\ IsFiniteSet(MRs) /\ IsFiniteSet(SuggestionIds) /\ IsFiniteSet(RunIds)
    /\ RuleLists \subseteq Seq(STRING) /\ Unruled \notin RuleKeys
    /\ RuleSeverities \in [DOMAIN RuleSeverities -> Severities]

viewVars == <<mrTable, suggestionTable, runTable, runs, time>>

Absent == [present |-> FALSE]

ViewInit ==
    /\ mrTable = [m \in MRs |-> Absent]
    /\ suggestionTable = [i \in SuggestionIds |-> Absent]
    /\ runTable = [r \in RunIds |-> Absent]
    /\ runs = [r \in RunIds |-> [fate |-> "none", told |-> TRUE]]
    /\ time = 0

-----------------------------------------------------------------------------
(* Writes. *)

\* The author seen first stays; all else, the time of opening too, is replaced.
FirstAuthor(m, author) ==
    IF mrTable[m].present /\ mrTable[m].author # "" THEN mrTable[m].author ELSE author
RecordMR(m) ==
    /\ \E author \in Authors, state \in {"updated", "merged"} :
        mrTable' = [mrTable EXCEPT ![m] =
            [present |-> TRUE, author |-> FirstAuthor(m, author), state |-> state, seen |-> time]]
    /\ UNCHANGED <<suggestionTable, runTable, runs, time>>

RecordSuggestion(i) ==
    /\ ~suggestionTable[i].present
    /\ \E m \in MRs, rules \in RuleLists, importance \in Importances :
        suggestionTable' = [suggestionTable EXCEPT ![i] =
            [present |-> TRUE, mr |-> m, rules |-> rules, importance |-> importance,
             state |-> "open", posted |-> time, dismissed |-> 0]]
    /\ UNCHANGED <<mrTable, runTable, runs, time>>

\* Only open suggestions become applied by a commit; the replies and the sweep also
\* start from "applied", and a reopened thread's suggestion is open again.
Transitions == {<<"open", s>> : s \in SuggestionStates \ {"open"}} \cup
               {<<"applied", "dismissed">>, <<"superseded", "open">>}
UpdateSuggestion(i) ==
    /\ suggestionTable[i].present
    /\ \E t \in Transitions :
        /\ suggestionTable[i].state = t[1]
        /\ suggestionTable' = [suggestionTable EXCEPT ![i].state = t[2],
                                    ![i].dismissed = IF t[2] = "dismissed" THEN time ELSE 0]
    /\ UNCHANGED <<mrTable, runTable, runs, time>>

\* A run whose start is not written has no row: its end updates nothing.
RecordStart(r) ==
    /\ runs[r].fate = "none"
    /\ \/ /\ \E m \in MRs : runTable' = [runTable EXCEPT ![r] =
                [present |-> TRUE, mr |-> m, status |-> "started", started |-> time]]
          /\ runs' = [runs EXCEPT ![r].fate = "active"]
       \/ /\ runs' = [runs EXCEPT ![r] = [fate |-> "active", told |-> FALSE]]
          /\ UNCHANGED runTable
    /\ UNCHANGED <<mrTable, suggestionTable, time>>

\* The finally block reports how the run ended ("empty" counts as a success here),
\* unless the process is gone.
Told(r, status) == IF runTable[r].present THEN [runTable EXCEPT ![r].status = status] ELSE runTable
RecordFinish(r) ==
    /\ runs[r].fate = "active"
    /\ \E fate \in {"success", "failed", "dead"} :
        \/ /\ fate # "dead"
           /\ runTable' = Told(r, fate)
           /\ runs' = [runs EXCEPT ![r].fate = fate]
        \/ /\ runs' = [runs EXCEPT ![r] = [fate |-> fate, told |-> FALSE]]
           /\ UNCHANGED runTable
    /\ UNCHANGED <<mrTable, suggestionTable, time>>

Pass == time < MaxTime /\ time' = time + 1 /\ UNCHANGED <<mrTable, suggestionTable, runTable, runs>>

ViewNext ==
    \/ Pass
    \/ \E m \in MRs : RecordMR(m)
    \/ \E i \in SuggestionIds : RecordSuggestion(i) \/ UpdateSuggestion(i)
    \/ \E r \in RunIds : RecordStart(r) \/ RecordFinish(r)
ViewSpec == ViewInit /\ [][ViewNext]_viewVars

-----------------------------------------------------------------------------
(* Severity. *)

\* The rule files decide first, by the first key they name; then the patterns, critical
\* before high; then what the model said, if anything.
Keys(s) == {s.rules[k] : k \in DOMAIN s.rules}
Named(s) == {k \in DOMAIN s.rules : s.rules[k] \in DOMAIN RuleSeverities}
FirstNamed(s) == s.rules[CHOOSE k \in Named(s) : \A l \in Named(s) : k <= l]
ByImportance(n) ==
    IF n = 0 THEN "unknown" ELSE IF n >= 8 THEN "critical" ELSE IF n >= 6 THEN "high"
    ELSE IF n >= 4 THEN "medium" ELSE "low"
ByPattern(s) ==
    IF Keys(s) \cap CriticalRules # {} THEN "critical"
    ELSE IF Keys(s) \cap HighRules # {} THEN "high" ELSE ByImportance(s.importance)
Severity(s, files) == IF files /\ Named(s) # {} THEN RuleSeverities[FirstNamed(s)] ELSE ByPattern(s)

-----------------------------------------------------------------------------
(* Reads. *)

AllOf == {i \in SuggestionIds : suggestionTable[i].present}
PostedSince(since) == {i \in SuggestionIds : suggestionTable[i].present /\ suggestionTable[i].posted >= since}
InState(S, state) == Cardinality({i \in S : suggestionTable[i].state = state})
Counts(S) == [state \in SuggestionStates \cup {"total"} |->
                IF state = "total" THEN Cardinality(S) ELSE InState(S, state)]

SeenSince(since) == {m \in MRs : mrTable[m].present /\ mrTable[m].seen >= since}
RunsSince(since) == {r \in RunIds : runTable[r].present /\ runTable[r].started >= since}
FailedIn(R) == Cardinality({r \in R : runTable[r].status = "failed"})

Overview(since) ==
    [mrs |-> Cardinality(SeenSince(since)),
     merged |-> Cardinality({m \in SeenSince(since) : mrTable[m].state = "merged"}),
     suggestions |-> Counts(PostedSince(since)),
     runs |-> Cardinality(RunsSince(since)),
     failed |-> FailedIn(RunsSince(since))]

SeverityBreakdown(since, files) ==
    [sev \in Severities |-> Counts({i \in PostedSince(since) : Severity(suggestionTable[i], files) = sev})]

\* Suggestions and runs are joined with the row of their merge request, and without it
\* they have no author. An empty author is shown as "unknown".
Shown(author) == IF author = "" THEN "unknown" ELSE author
RawAuthorOf(m) == mrTable[m].author
AuthorOf(m) == Shown(mrTable[m].author)
PerAuthor(since) ==
    [a \in {Shown(b) : b \in Authors} |->
        [mrs |-> Cardinality({m \in SeenSince(since) : AuthorOf(m) = a}),
         suggestions |-> Counts({i \in PostedSince(since) :
                mrTable[suggestionTable[i].mr].present /\ AuthorOf(suggestionTable[i].mr) = a}),
         failed |-> FailedIn({r \in RunsSince(since) :
                mrTable[runTable[r].mr].present /\ AuthorOf(runTable[r].mr) = a})]]

\* A suggestion counts once for each rule it cites.
PerRule(since) ==
    [key \in RuleKeys |-> Counts({i \in PostedSince(since) : key \in Keys(suggestionTable[i])})]

\* Dismissals by rule, of the window of the dismissal and not of the posting; those
\* that cite no rule are counted under a name of their own.
DismissalsByRule(since) ==
    LET dismissed == {i \in AllOf : suggestionTable[i].state = "dismissed" /\ suggestionTable[i].dismissed >= since}
    IN  [key \in RuleKeys \cup {Unruled} |->
            IF key \in RuleKeys THEN Cardinality({i \in dismissed : key \in Keys(suggestionTable[i])})
            ELSE Cardinality({i \in dismissed : Keys(suggestionTable[i]) = {}})]

MRStats(m) == Counts({i \in SuggestionIds : suggestionTable[i].present /\ suggestionTable[i].mr = m})

-----------------------------------------------------------------------------
(* Properties. *)

\* The windows that begin with a row of some table: others show the same or nothing.
Windows ==
    {suggestionTable[i].posted : i \in AllOf} \cup
    {mrTable[m].seen : m \in SeenSince(0)} \cup {runTable[r].started : r \in RunsSince(0)}
\* The sum of counts: the size of a set with as many elements for each of them.
Total(count) == Cardinality(UNION {{k} \X (1..count[k]) : k \in DOMAIN count})

\* Types of the rows; a run that was never started has no row.
ViewTypeOK ==
    /\ \A i \in SuggestionIds : suggestionTable[i].present =>
            suggestionTable[i].state \in SuggestionStates /\ suggestionTable[i].posted <= time
    /\ \A r \in RunIds : runTable[r].present =>
            runs[r].fate # "none" /\ runTable[r].status \in {"started", "success", "failed"}

\* For every window the views count the same suggestions: the severities, with or
\* without rule files, and the merge requests each add up to the overview, state by
\* state; the authors add up to what is left of it without orphans; and no rule has
\* more than there are, while the rules together account for every dismissal.
ViewsAgree ==
    \A since \in Windows :
        LET o == Overview(since).suggestions
            orphans == {i \in PostedSince(since) : ~mrTable[suggestionTable[i].mr].present}
            authors == PerAuthor(since)
        IN  /\ \A state \in DOMAIN o :
                /\ \A files \in BOOLEAN :
                    Total([sev \in Severities |-> SeverityBreakdown(since, files)[sev][state]]) = o[state]
                /\ Total([a \in DOMAIN authors |-> authors[a].suggestions[state]]) + Counts(orphans)[state] = o[state]
                /\ \A key \in RuleKeys : PerRule(since)[key][state] <= o[state]
                /\ since = 0 => Total([m \in MRs |-> MRStats(m)[state]]) = o[state]
            /\ Total(DismissalsByRule(since)) >= o["dismissed"]
            /\ Total([a \in DOMAIN authors |-> authors[a].mrs]) = Overview(since).mrs

\* The runs shown as failed are those that failed, but for a run of which the store
\* was not told; one that died looks started for ever and is never a failure.
FailuresAreShown ==
    \A since \in Windows :
        LET failed == {r \in RunsSince(since) : runs[r].fate = "failed" /\ runs[r].told}
        IN  Overview(since).failed = Cardinality(failed)

\* The dashboard's numbers agree with each other, and with what became of the runs.
DashboardIsTrue == ViewsAgree /\ FailuresAreShown
=============================================================================
