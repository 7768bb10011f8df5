----------------------------- MODULE WeeklyReport -----------------------------
(* The weekly report (reporting/): a scheduler process starts one job per cron tick
   and an operator may start one by hand, here never two at a time. A job runs its collectors, writes the
   week's artifact, sends the report in chunks with retries, and logs the run. *)
EXTENDS Integers, FiniteSets

CONSTANTS
    Merges,         \* merge requests of the target branch, one commit each
    WeekDays,       \* days of a week; the cron tick is on the first
    MaxDay,
    Attempts,       \* dingtalk_retry_attempts
    MaxChunks,
    ReportConfs,    \* which notifier, and whether WEEKLY_REPO_PATH is set
    MaxReportFaults \* bounds failing calls, crashes and failing writes

ASSUME ReportBounds ==
    WeekDays \in Nat \ {0} /\ MaxDay \in Nat /\ Attempts \in Nat \ {0} /\ MaxChunks \in Nat \ {0}

VARIABLES
    day,            \* today
    ticked,         \* the day of the last cron tick
    mergedOn,       \* the day each merge request was merged
    touchedOn,      \* the day it was updated last
    clone,          \* commits of the local branch of the cached clone, or no clone
    artifacts,      \* what the file of each week holds
    job,            \* the job that runs, or the last one
    reportConf,     \* one of ReportConfs
    reportFaults

reportVars == <<day, ticked, mergedOn, touchedOn, clone, artifacts, job, reportConf, reportFaults>>

Never == -1
NoClone == {"no clone"}
WeekOf(d) == d \div WeekDays
NoReport == [from |-> Never, to |-> Never, merges |-> {}, scanned |-> {}]
Unsent == [at |-> 1, chunks |-> 1, attempt |-> 1, sent |-> 0, error |-> FALSE,
           copies |-> [k \in 1..MaxChunks |-> 0], lost |-> [k \in 1..MaxChunks |-> 0], fooled |-> {}]
NoJob == [pc |-> "none", pass |-> "only", report |-> NoReport, out |-> Unsent, ok |-> FALSE]

ReportInit ==
    /\ day = 0
    /\ ticked = Never
    /\ mergedOn = [m \in Merges |-> Never]
    /\ touchedOn = [m \in Merges |-> Never]
    /\ clone = NoClone
    /\ artifacts = [w \in 0..WeekOf(MaxDay) |-> NoReport]
    /\ job = NoJob
    /\ reportConf \in ReportConfs
    /\ reportFaults = 0

Faulty == reportFaults < MaxReportFaults /\ reportFaults' = reportFaults + 1
Fine == UNCHANGED reportFaults
Busy == job.pc \notin {"none", "logged"}

-----------------------------------------------------------------------------
(* The project and the calendar, which rest while a job runs. *)

Merge(m) ==
    /\ ~Busy
    /\ mergedOn[m] = Never
    /\ mergedOn' = [mergedOn EXCEPT ![m] = day]
    /\ touchedOn' = [touchedOn EXCEPT ![m] = day]
    /\ UNCHANGED <<day, ticked, clone, artifacts, job, reportConf, reportFaults>>

\* A comment or an edit updates a merged merge request, here once.
TouchMerged(m) ==
    /\ ~Busy
    /\ mergedOn[m] # Never
    /\ touchedOn[m] = mergedOn[m]
    /\ touchedOn' = [touchedOn EXCEPT ![m] = day]
    /\ UNCHANGED <<day, ticked, mergedOn, clone, artifacts, job, reportConf, reportFaults>>

NextDay ==
    /\ day < MaxDay
    /\ ~Busy
    /\ day' = day + 1
    /\ job' = NoJob
    /\ UNCHANGED <<ticked, mergedOn, touchedOn, clone, artifacts, reportConf, reportFaults>>

-----------------------------------------------------------------------------
(* The job. *)

Report(from, to) == [NoReport EXCEPT !.from = from, !.to = to]
Started(from, to) == [NoJob EXCEPT !.pc = "telemetry", !.report = Report(from, to)]
ThisWeek(d) == Started(WeekOf(d) * WeekDays, WeekOf(d) * WeekDays + WeekDays - 1)

\* One cron job at a time. A tick the process slept through is not made up for.
Tick ==
    /\ day % WeekDays = 0
    /\ ticked # day
    /\ ~Busy
    /\ ticked' = day
    /\ job' = ThisWeek(day)
    /\ UNCHANGED <<day, mergedOn, touchedOn, clone, artifacts, reportConf, reportFaults>>

\* --run-now, here on a day without a tick; with another --since-days than seven the
\* whole report is made and sent twice.
RunNow ==
    /\ day % WeekDays # 0
    /\ job.pc = "none"
    /\ \E pass \in {"only", "first"} : job' = [ThisWeek(day) EXCEPT !.pass = pass]
    /\ UNCHANGED <<day, ticked, mergedOn, touchedOn, clone, artifacts, reportConf, reportFaults>>

Goes(pc) == job' = [job EXCEPT !.pc = pc]
Dies == job' = NoJob
\* run_weekly_job isolates a collector that raises; the second report of the CLI does not.
SecondReport == job.pass = "second"
Raises(pc) == IF SecondReport THEN Dies ELSE Goes(pc)

CollectTelemetry ==
    /\ job.pc = "telemetry"
    /\ \/ Fine /\ Goes("merges")
       \/ Faulty /\ Raises("merges")
    /\ UNCHANGED <<clone>>

\* Merged, updated since the window began, and not merged after its end: nothing
\* asks whether the merge itself lies before the window.
MergedEver(from, to) == {m \in Merges : mergedOn[m] \in 0..to}
MergedIn(from, to) == {m \in Merges : mergedOn[m] \in 0..to /\ touchedOn[m] >= from}
CollectMerges ==
    /\ job.pc = "merges"
    /\ \/ /\ Fine
          /\ job' = [job EXCEPT !.pc = "scan",
                        !.report.merges = MergedIn(job.report.from, job.report.to)]
       \/ Faulty /\ Goes("scan")
    /\ UNCHANGED <<clone>>

\* A clone that is there is only fetched: its local branch stays where it was made.
\* The diff runs from the oldest commit of the window, so it leaves that one out.
Branch == IF clone = NoClone THEN {m \in Merges : mergedOn[m] # Never} ELSE clone
CommitsIn(from, to) == {m \in Branch : mergedOn[m] \in from..to}
Oldest(S) == {m \in S : \A n \in S : mergedOn[m] <= mergedOn[n]}
Diffs(S) == IF S = {} THEN {{}} ELSE {S \ {m} : m \in Oldest(S)}
ScanRepo ==
    /\ job.pc = "scan"
    /\ IF ~reportConf.repoPath
       THEN Fine /\ Raises("artifact") /\ UNCHANGED clone
       ELSE \/ /\ Fine
               /\ clone' = Branch
               /\ \E S \in Diffs(CommitsIn(job.report.from, job.report.to)) :
                    job' = [job EXCEPT !.pc = "artifact", !.report.scanned = S]
            \/ Faulty /\ Goes("artifact") /\ clone' \in {clone, Branch}

\* The file is that of the ISO week in which the window begins.
Sending == \E n \in 1..MaxChunks :
    job' = [job EXCEPT !.pc = "send", !.out = [Unsent EXCEPT !.chunks = n]]
WriteArtifact ==
    /\ job.pc = "artifact"
    /\ \/ /\ Fine
          /\ artifacts' = [artifacts EXCEPT ![WeekOf(job.report.from)] = job.report]
          /\ Sending
       \/ /\ Faulty
          /\ UNCHANGED artifacts
          /\ IF SecondReport THEN Dies ELSE Sending

Collect ==
    /\ \/ (CollectTelemetry \/ CollectMerges \/ ScanRepo) /\ UNCHANGED artifacts
       \/ WriteArtifact /\ UNCHANGED clone
    /\ UNCHANGED <<day, ticked, mergedOn, touchedOn, reportConf>>

-----------------------------------------------------------------------------
(* Delivery. *)

\* How a post may end: acknowledged; refused; arrived with its answer lost; or answered
\* by a gateway's page, which the OpenAPI notifier takes for an acknowledgement. The
\* second report of the CLI always uses the webhook.
Notifier == IF SecondReport THEN "webhook" ELSE reportConf.notifier
Acknowledged(end) == end = "ok" \/ (end = "page" /\ Notifier = "openapi")

ChunkAfterNext(o) == [o EXCEPT !.at = @ + 2, !.attempt = 1]
NextChunk(o) == [o EXCEPT !.at = @ + 1, !.attempt = 1]
Sent(o) == [NextChunk(o) EXCEPT !.sent = @ + 1, !.error = FALSE]
Refused(o) == IF o.attempt < Attempts THEN [o EXCEPT !.attempt = @ + 1, !.error = TRUE]
              ELSE [NextChunk(o) EXCEPT !.error = TRUE]

Arrives(o, end) ==
    [o EXCEPT !.copies[o.at] = @ + (IF end \in {"ok", "lost"} THEN 1 ELSE 0),
              !.lost[o.at] = @ + (IF end = "lost" THEN 1 ELSE 0),
              !.fooled = IF end = "page" THEN @ \cup {o.at} ELSE @]

Post ==
    LET o == job.out
    IN  /\ job.pc = "send"
        /\ o.at <= o.chunks
        /\ \E end \in {"ok", "refused", "lost", "page"} :
            /\ IF end = "ok" THEN Fine ELSE Faulty
            /\ LET seen == Arrives(o, end)
               IN  job' = [job EXCEPT !.out = IF Acknowledged(end) THEN Sent(seen) ELSE Refused(seen)]
        /\ UNCHANGED <<day, ticked, mergedOn, touchedOn, clone, artifacts, reportConf>>

\* The run is logged as a success when every chunk was counted. The CLI then makes
\* its second report, over the last days; that one is not logged, only printed.
AnySent(o) == o.sent > 0
AllSent(o) == o.sent = o.chunks
Finish ==
    LET o == job.out
    IN  /\ job.pc = "send"
        /\ o.at > o.chunks
        /\ IF job.pass = "first"
           THEN \E back \in 0..day :
                    job' = [Started(day - back, day) EXCEPT !.pass = "second"]
           ELSE job' = [job EXCEPT !.pc = "logged", !.ok = AllSent(o)]
        /\ UNCHANGED <<day, ticked, mergedOn, touchedOn, clone, artifacts, reportConf, reportFaults>>

\* The process stops; after a restart only the next tick starts a job.
Crash ==
    /\ Busy
    /\ Faulty
    /\ Dies
    /\ UNCHANGED <<day, ticked, mergedOn, touchedOn, clone, artifacts, reportConf>>

JobStep == Collect \/ Post \/ Finish

ReportNext ==
    \/ NextDay \/ Tick \/ RunNow
    \/ \E m \in Merges : Merge(m) \/ TouchMerged(m)
    \/ JobStep \/ Crash

ReportSpec == ReportInit /\ [][ReportNext]_reportVars

-----------------------------------------------------------------------------
(* Properties. *)

\* Types; a job is at one of its places and never past its last attempt.
ReportTypeOK ==
    /\ day \in 0..MaxDay
    /\ job.pc \in {"none", "telemetry", "merges", "scan", "artifact", "send", "logged"}
    /\ job.out.at \in 1..(job.out.chunks + 1)
    /\ job.out.attempt \in 1..Attempts
    /\ \A w \in DOMAIN artifacts : artifacts[w].merges \cup artifacts[w].scanned \subseteq Merges

\* A run that is logged as delivered left no chunk out: each one arrived, or its
\* post was answered by a page of a gateway that the OpenAPI notifier took for a yes.
SuccessIsDelivery ==
    LET o == job.out
    IN  job.ok => \A k \in 1..o.chunks : o.copies[k] > 0 \/ k \in o.fooled

\* The chat sees a chunk twice only when an acknowledgement was lost: retries stop
\* with the first answer that counts.
CopiesHaveCause ==
    \A k \in 1..MaxChunks : job.out.copies[k] <= 1 + job.out.lost[k]

\* A week's report lists no merge request that was left alone since its window began,
\* or merged after it ended; and two weeks' reports never review the same commit,
\* unless one of them was made by hand over days of its own.
Weekly(r) == r.from # Never /\ r.from % WeekDays = 0 /\ r.to = r.from + WeekDays - 1
ReportsKeepTheirWindow ==
    /\ \A w \in DOMAIN artifacts : \A m \in artifacts[w].merges :
        mergedOn[m] <= artifacts[w].to /\ touchedOn[m] >= artifacts[w].from
    /\ \A v, w \in DOMAIN artifacts :
        v # w /\ Weekly(artifacts[v]) /\ Weekly(artifacts[w])
            => artifacts[v].scanned \cap artifacts[w].scanned = {}

\* The delivery's log is true of the chat, and the chat's duplicates are explained.
DeliveryIsHonest == SuccessIsDelivery /\ CopiesHaveCause
=============================================================================
