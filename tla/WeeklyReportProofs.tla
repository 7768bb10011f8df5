-------------------------- MODULE WeeklyReportProofs --------------------------
(* What the log of a delivery says of the chat, for any number of chunks and of
   attempts, and any number of posts that fail; what the reports say of the project, for
   weeks of any length and any number of merge requests; and what the store's numbers,
   which the report and the dashboard show, say of each other and of the runs. *)
EXTENDS WeeklyReport, TelemetryViews, FiniteSetTheorems, FunctionTheorems, WellFoundedInduction, TLAPS

Chunks == 1..MaxChunks
Tallies == [Chunks -> Nat]
Marks == SUBSET Nat
Deliveries == [at : Nat, chunks : Chunks, attempt : Int, sent : Int, error : BOOLEAN,
               copies : Tallies, lost : Tallies, fooled : Marks]

SameChat(s, n) == n.chunks = s.chunks /\ n.copies = s.copies /\ n.lost = s.lost /\ n.fooled = s.fooled

\* No chunk was passed without a count unless the count fell behind, and a chunk that
\* is still to be acknowledged was seen by the chat only as often as an answer was lost.
Settled(o, k) == o.copies[k] > 0 \/ k \in o.fooled
Accounts(o) ==
    /\ o \in Deliveries
    /\ o.at \in 1..(o.chunks + 1)
    /\ o.sent < o.at
    /\ o.sent = o.at - 1 => \A k \in 1..(o.at - 1) : Settled(o, k)
    /\ \A k \in Chunks : o.copies[k] <= o.lost[k] + (IF k < o.at THEN 1 ELSE 0)

\* Only a job that has ended is logged as a success, and then its count is complete.
DeliveryInv ==
    /\ DOMAIN job = {"pc", "pass", "report", "out", "ok"}
    /\ Accounts(job.out)
    /\ job.ok => job.pc = "logged" /\ job.out.at > job.out.chunks /\ AllSent(job.out)

-----------------------------------------------------------------------------

LEMMA CleanAccount ==
    ASSUME NEW o \in Deliveries, o.at = 1, o.sent = 0,
           \A k \in Chunks : o.copies[k] = 0 /\ o.lost[k] = 0
    PROVE  Accounts(o)
<1>1. o.chunks \in Nat
  BY ReportBounds DEF Deliveries, Chunks
<1>2. o.at \in 1..(o.chunks + 1) /\ o.sent < o.at /\ 1..(o.at - 1) = {}
  BY <1>1
<1>3. ASSUME NEW k \in Chunks
      PROVE  o.copies[k] <= o.lost[k] + (IF k < o.at THEN 1 ELSE 0)
  OBVIOUS
<1>4. QED
  BY <1>2, <1>3 DEF Accounts

LEMMA UnsentAccounts ==
    /\ Accounts(Unsent)
    /\ \A n \in Chunks : Accounts([Unsent EXCEPT !.chunks = n])
<1> DEFINE none == [k \in Chunks |-> 0]
<1>1. none \in Tallies /\ {} \in Marks /\ \A k \in Chunks : none[k] = 0
  BY DEF Tallies, Marks
<1>2. Unsent = [at |-> 1, chunks |-> 1, attempt |-> 1, sent |-> 0, error |-> FALSE,
                copies |-> none, lost |-> none, fooled |-> {}]
  BY DEF Unsent, Chunks
<1> HIDE DEF none
<1>3. 1 \in Chunks
  BY ReportBounds DEF Chunks
<1>4. Unsent \in Deliveries /\ Unsent.at = 1 /\ Unsent.sent = 0 /\ Unsent.copies = none /\ Unsent.lost = none
  BY <1>1, <1>2, <1>3 DEF Deliveries
<1>5. Accounts(Unsent)
  BY <1>1, <1>4, CleanAccount
<1>6. ASSUME NEW n \in Chunks, NEW o, o = [Unsent EXCEPT !.chunks = n]
      PROVE  Accounts(o)
  <2>1. o \in Deliveries /\ o.at = Unsent.at /\ o.sent = Unsent.sent /\ o.copies = Unsent.copies /\ o.lost = Unsent.lost
    BY <1>4, <1>6 DEF Deliveries
  <2>2. QED
    BY <1>1, <1>4, <2>1, CleanAccount
<1>7. QED
  BY <1>5, <1>6

LEMMA NewJob ==
    /\ DOMAIN NoJob = {"pc", "pass", "report", "out", "ok"}
    /\ ~NoJob.ok
    /\ Accounts(NoJob.out)
BY UnsentAccounts DEF NoJob

LEMMA StartedJob ==
    ASSUME NEW from, NEW to
    PROVE  /\ DOMAIN Started(from, to) = {"pc", "pass", "report", "out", "ok"}
           /\ ~Started(from, to).ok
           /\ Started(from, to).out = NoJob.out
BY DEF Started, NoJob

\* A job that dies, or a new one, has a clean account.
LEMMA FreshJobs ==
    ASSUME \/ job' = NoJob
           \/ \E from, to : job' = Started(from, to)
           \/ \E from, to, pass : job' = [Started(from, to) EXCEPT !.pass = pass]
    PROVE  DeliveryInv'
<1>1. DOMAIN job' = {"pc", "pass", "report", "out", "ok"} /\ ~job'.ok /\ job'.out = NoJob.out
  BY NewJob, StartedJob
<1>2. QED
  BY <1>1, NewJob DEF DeliveryInv

\* A post: the account of what it does to the chat, then to the count.
LEMMA ArrivingKeeps ==
    ASSUME NEW o, Accounts(o), o.at <= o.chunks,
           NEW end \in {"ok", "refused", "lost", "page"},
           NEW s, s = Arrives(o, end)
    PROVE  /\ s \in Deliveries
           /\ s.at = o.at /\ s.chunks = o.chunks /\ s.attempt = o.attempt /\ s.sent = o.sent
           /\ \A k \in Chunks \ {o.at} : s.copies[k] = o.copies[k] /\ s.lost[k] = o.lost[k]
           /\ o.fooled \subseteq s.fooled
           /\ s.copies[o.at] >= o.copies[o.at]
           /\ s.copies[o.at] <= s.lost[o.at] + (IF end = "ok" THEN 1 ELSE 0)
           /\ end = "ok" => s.copies[o.at] > 0
           /\ end = "page" => o.at \in s.fooled
<1> DEFINE copies == [o.copies EXCEPT ![o.at] = o.copies[o.at] + (IF end \in {"ok", "lost"} THEN 1 ELSE 0)]
           lost == [o.lost EXCEPT ![o.at] = o.lost[o.at] + (IF end = "lost" THEN 1 ELSE 0)]
           fooled == IF end = "page" THEN o.fooled \cup {o.at} ELSE o.fooled
<1>1. /\ o \in Deliveries /\ o.at \in Nat /\ o.at \in Chunks
      /\ o.copies \in Tallies /\ o.lost \in Tallies /\ o.fooled \in Marks
  <2>1. o \in Deliveries
    BY DEF Accounts
  <2>2. o.at \in Nat /\ o.chunks \in Chunks /\ o.copies \in Tallies /\ o.lost \in Tallies /\ o.fooled \in Marks
    BY <2>1 DEF Deliveries
  <2>3. o.at \in 1..(o.chunks + 1)
    BY DEF Accounts
  <2>4. QED
    BY <2>1, <2>2, <2>3, ReportBounds DEF Chunks
<1>2. o.copies[o.at] <= o.lost[o.at] /\ o.copies[o.at] \in Nat /\ o.lost[o.at] \in Nat
  <2>1. o.copies[o.at] <= o.lost[o.at] + (IF o.at < o.at THEN 1 ELSE 0)
    BY <1>1 DEF Accounts
  <2>2. o.copies[o.at] \in Nat /\ o.lost[o.at] \in Nat
    BY <1>1 DEF Tallies
  <2>3. QED
    BY <1>1, <2>1, <2>2
<1>3. copies \in Tallies /\ lost \in Tallies /\ fooled \in Marks
  BY <1>1, <1>2 DEF Tallies, Marks
<1>4. s = [o EXCEPT !.copies = copies, !.lost = lost, !.fooled = fooled]
  BY DEF Arrives
<1>5. /\ \A k \in Chunks \ {o.at} : copies[k] = o.copies[k] /\ lost[k] = o.lost[k]
      /\ o.fooled \subseteq fooled
      /\ copies[o.at] >= o.copies[o.at]
      /\ copies[o.at] <= lost[o.at] + (IF end = "ok" THEN 1 ELSE 0)
      /\ end = "ok" => copies[o.at] > 0
      /\ end = "page" => o.at \in fooled
  BY <1>1, <1>2 DEF Tallies
<1> HIDE DEF copies, lost, fooled
<1>6. /\ s \in Deliveries
      /\ s.at = o.at /\ s.chunks = o.chunks /\ s.attempt = o.attempt /\ s.sent = o.sent
      /\ s.copies = copies /\ s.lost = lost /\ s.fooled = fooled
  BY <1>1, <1>3, <1>4 DEF Deliveries
<1>7. QED
  BY <1>5, <1>6

\* What the next chunk, a count and a further attempt leave alone.
LEMMA NextChunkKeeps ==
    ASSUME NEW s \in Deliveries
    PROVE  /\ NextChunk(s) \in Deliveries
           /\ NextChunk(s).at = s.at + 1 /\ NextChunk(s).sent = s.sent
           /\ SameChat(s, NextChunk(s))
<1>1. PICK at : at = s.at + 1
  OBVIOUS
<1>2. PICK attempt : attempt = 1
  OBVIOUS
<1>3. at \in Nat /\ attempt \in Int
  BY <1>1, <1>2 DEF Deliveries
<1>4. NextChunk(s) = [s EXCEPT !.at = at, !.attempt = attempt]
  BY <1>1, <1>2 DEF NextChunk
<1>5. /\ NextChunk(s) \in Deliveries
      /\ NextChunk(s).at = at /\ NextChunk(s).sent = s.sent
      /\ SameChat(s, NextChunk(s))
  BY <1>3, <1>4 DEF Deliveries, SameChat
<1>6. QED
  BY <1>1, <1>5

LEMMA CountKeeps ==
    ASSUME NEW s \in Deliveries, NEW n, n = [s EXCEPT !.sent = s.sent + 1, !.error = FALSE]
    PROVE  /\ n \in Deliveries
           /\ n.at = s.at /\ n.sent = s.sent + 1
           /\ SameChat(s, n)
<1>1. PICK sent : sent = s.sent + 1
  OBVIOUS
<1>2. sent \in Int
  BY <1>1 DEF Deliveries
<1>3. n = [s EXCEPT !.sent = sent, !.error = FALSE]
  BY <1>1
<1>4. n \in Deliveries /\ n.at = s.at /\ n.sent = sent /\ SameChat(s, n)
  BY <1>2, <1>3 DEF Deliveries, SameChat
<1>5. QED
  BY <1>1, <1>4

LEMMA RetryKeeps ==
    ASSUME NEW s \in Deliveries, NEW n, n = [s EXCEPT !.attempt = @ + 1, !.error = TRUE]
    PROVE  /\ n \in Deliveries
           /\ n.at = s.at /\ n.sent = s.sent
           /\ SameChat(s, n)
<1>1. PICK attempt : attempt = s.attempt + 1
  OBVIOUS
<1>2. attempt \in Int
  BY <1>1 DEF Deliveries
<1>3. n = [s EXCEPT !.attempt = attempt, !.error = TRUE]
  BY <1>1
<1>4. QED
  BY <1>2, <1>3 DEF Deliveries, SameChat

\* The ways the count may move after a post: acknowledged, tried again, given up.
LEMMA CountingKeeps ==
    ASSUME NEW o, Accounts(o), o.at <= o.chunks,
           NEW end \in {"ok", "refused", "lost", "page"},
           NEW n, n = IF Acknowledged(end) THEN Sent(Arrives(o, end)) ELSE Refused(Arrives(o, end))
    PROVE  Accounts(n)
<1> DEFINE s == Arrives(o, end)
<1>1. /\ o \in Deliveries /\ o.at \in Chunks /\ o.at \in 1..o.chunks
      /\ o.sent \in Int /\ o.chunks \in Nat
  <2>1. o \in Deliveries
    BY DEF Accounts
  <2>2. o.at \in Nat /\ o.chunks \in Chunks /\ o.sent \in Int
    BY <2>1 DEF Deliveries
  <2>3. o.at \in 1..(o.chunks + 1)
    BY DEF Accounts
  <2>4. QED
    BY <2>1, <2>2, <2>3, ReportBounds DEF Chunks
<1>2. /\ s \in Deliveries
      /\ s.at = o.at /\ s.chunks = o.chunks /\ s.attempt = o.attempt /\ s.sent = o.sent
      /\ \A k \in Chunks \ {o.at} : s.copies[k] = o.copies[k] /\ s.lost[k] = o.lost[k]
      /\ o.fooled \subseteq s.fooled
      /\ s.copies[o.at] >= o.copies[o.at]
      /\ s.copies[o.at] <= s.lost[o.at] + (IF end = "ok" THEN 1 ELSE 0)
      /\ end = "ok" => s.copies[o.at] > 0
      /\ end = "page" => o.at \in s.fooled
  BY ArrivingKeeps
<1>3. \A k \in Chunks : s.copies[k] \in Nat /\ s.lost[k] \in Nat /\ o.copies[k] \in Nat
  <2>1. s.copies \in Tallies /\ s.lost \in Tallies /\ o.copies \in Tallies
    BY <1>1, <1>2 DEF Deliveries
  <2>2. QED
    BY <2>1 DEF Tallies
<1>4. \A k \in Chunks : Settled(o, k) => Settled(s, k)
  BY <1>1, <1>2, <1>3 DEF Settled
<1>5. \A k \in Chunks : k # o.at => s.copies[k] <= s.lost[k] + (IF k < o.at THEN 1 ELSE 0)
  BY <1>2 DEF Accounts
<1> HIDE DEF s
<1>6. CASE Acknowledged(end)
  <2>1. end \in {"ok", "page"} /\ Settled(s, o.at)
    BY <1>2, <1>6 DEF Acknowledged, Settled
  <2>2. n = Sent(s)
    BY <1>6 DEF s
  <2>3. /\ n \in Deliveries
        /\ n.at = s.at + 1 /\ n.sent = s.sent + 1 /\ n.chunks = s.chunks
        /\ n.copies = s.copies /\ n.lost = s.lost /\ n.fooled = s.fooled
    <3>1. n = [NextChunk(s) EXCEPT !.sent = NextChunk(s).sent + 1, !.error = FALSE]
      BY <2>2 DEF Sent
    <3>2. NextChunk(s) \in Deliveries /\ NextChunk(s).at = s.at + 1 /\ NextChunk(s).sent = s.sent /\ SameChat(s, NextChunk(s))
      BY <1>2, NextChunkKeeps
    <3>3. n \in Deliveries /\ n.at = NextChunk(s).at /\ n.sent = NextChunk(s).sent + 1 /\ SameChat(NextChunk(s), n)
      BY <3>1, <3>2, CountKeeps
    <3>4. QED
      BY <3>2, <3>3 DEF SameChat
  <2>4. n.at \in 1..(n.chunks + 1) /\ n.sent < n.at
    BY <1>1, <1>2, <2>3 DEF Accounts
  <2>5. ASSUME n.sent = n.at - 1, NEW k \in 1..(n.at - 1)
        PROVE  Settled(n, k)
    <3>1. o.sent = o.at - 1 /\ k \in Chunks /\ (k = o.at \/ k \in 1..(o.at - 1))
      BY <2>5, <1>1, <1>2, <2>3, ReportBounds DEF Chunks
    <3>2. Settled(s, k)
      BY <3>1, <2>1, <1>4 DEF Accounts
    <3>3. QED
      BY <3>2, <2>3 DEF Settled
  <2>6. ASSUME NEW k \in Chunks
        PROVE  n.copies[k] <= n.lost[k] + (IF k < n.at THEN 1 ELSE 0)
    <3>1. k \in Nat /\ o.at \in Nat /\ s.copies[k] \in Nat /\ s.lost[k] \in Nat
      BY <1>1, <1>3 DEF Chunks
    <3>2. n.copies[k] = s.copies[k] /\ n.lost[k] = s.lost[k] /\ n.at = o.at + 1
      BY <1>2, <2>3
    <3>3. QED
      BY <1>2, <1>5, <3>1, <3>2
  <2>7. QED
    BY <2>3, <2>4, <2>5, <2>6 DEF Accounts
<1>7. CASE ~Acknowledged(end)
  <2>1. end # "ok" /\ n = Refused(s)
    BY <1>7 DEF Acknowledged, s
  <2>2. \A k \in Chunks : s.copies[k] <= s.lost[k] + (IF k < o.at THEN 1 ELSE 0)
    BY <1>1, <1>2, <1>3, <1>5, <2>1
  <2>3. CASE s.attempt < Attempts
    <3>1. /\ n \in Deliveries
          /\ n.at = s.at /\ n.sent = s.sent /\ n.chunks = s.chunks
          /\ n.copies = s.copies /\ n.lost = s.lost /\ n.fooled = s.fooled
      BY <1>2, <2>1, <2>3, RetryKeeps DEF Refused, SameChat
    <3>2. ASSUME n.sent = n.at - 1, NEW k \in 1..(n.at - 1)
          PROVE  Settled(n, k)
      <4>1. o.sent = o.at - 1 /\ k \in Chunks /\ k \in 1..(o.at - 1)
        BY <3>2, <1>1, <1>2, <3>1, ReportBounds DEF Chunks
      <4>2. Settled(s, k)
        BY <4>1, <1>4 DEF Accounts
      <4>3. QED
        BY <4>2, <3>1 DEF Settled
    <3>3. QED
      BY <3>1, <3>2, <2>2, <1>1, <1>2 DEF Accounts
  <2>4. CASE ~(s.attempt < Attempts)
    <3>1. n = [NextChunk(s) EXCEPT !.error = TRUE]
      BY <2>1, <2>4 DEF Refused
    <3>3. /\ n \in Deliveries
          /\ n.at = s.at + 1 /\ n.sent = s.sent /\ n.chunks = s.chunks
          /\ n.copies = s.copies /\ n.lost = s.lost /\ n.fooled = s.fooled
      <4>1. NextChunk(s) \in Deliveries /\ NextChunk(s).at = s.at + 1 /\ NextChunk(s).sent = s.sent /\ SameChat(s, NextChunk(s))
        BY <1>2, NextChunkKeeps
      <4>2. n \in Deliveries /\ n.at = NextChunk(s).at /\ n.sent = NextChunk(s).sent /\ SameChat(NextChunk(s), n)
        BY <3>1, <4>1 DEF Deliveries, SameChat
      <4>3. QED
        BY <4>1, <4>2 DEF SameChat
    <3>4. o.at \in Nat /\ o.sent < o.at /\ o.chunks \in Nat /\ o.sent \in Int
      BY <1>1 DEF Accounts, Deliveries
    <3>5. n.at \in 1..(n.chunks + 1) /\ n.sent < n.at - 1
      BY <3>3, <3>4, <1>1, <1>2
    <3>6. \A k \in Chunks : n.copies[k] <= n.lost[k] + (IF k < n.at THEN 1 ELSE 0)
      <4>1. SUFFICES ASSUME NEW k \in Chunks
                     PROVE  n.copies[k] <= n.lost[k] + (IF k < n.at THEN 1 ELSE 0)
        OBVIOUS
      <4>2. s.copies[k] \in Nat /\ s.lost[k] \in Nat /\ k \in Nat
        BY <1>3 DEF Chunks
      <4>3. s.copies[k] <= s.lost[k] + (IF k < o.at THEN 1 ELSE 0)
        BY <2>2
      <4>4. n.copies[k] = s.copies[k] /\ n.lost[k] = s.lost[k] /\ n.at = o.at + 1
        BY <3>3, <1>2
      <4>5. QED
        BY <3>4, <4>2, <4>3, <4>4
    <3>7. n.sent # n.at - 1
      BY <3>3, <3>4, <3>5 DEF Deliveries
    <3>8. QED
      <4>1. n.sent < n.at /\ (n.sent = n.at - 1 => FALSE)
        BY <3>3, <3>4, <3>5, <3>7, <1>2
      <4>2. QED
        BY <3>3, <3>5, <3>6, <4>1 DEF Accounts
  <2>5. QED
    BY <2>3, <2>4
<1>8. QED
  BY <1>6, <1>7

\* The steps of a job that collects: it has sent nothing, and is not logged.
LEMMA CollectingKeeps ==
    ASSUME DeliveryInv, Collect
    PROVE  DeliveryInv'
<1>0. DOMAIN job = {"pc", "pass", "report", "out", "ok"}
  BY DEF DeliveryInv
<1>1. ASSUME NEW pc, Goes(pc), job.pc # "logged"
      PROVE  DeliveryInv'
  BY <1>0, <1>1 DEF Goes, DeliveryInv
<1>2. ASSUME Dies
      PROVE  DeliveryInv'
  BY <1>2, FreshJobs DEF Dies
<1>3. ASSUME NEW pc, Raises(pc), job.pc # "logged"
      PROVE  DeliveryInv'
  BY <1>1, <1>2, <1>3 DEF Raises
<1>4. ASSUME Sending, job.pc # "logged"
      PROVE  DeliveryInv'
  <2>1. PICK n \in Chunks : job' = [job EXCEPT !.pc = "send", !.out = [Unsent EXCEPT !.chunks = n]]
    BY <1>4 DEF Sending, Chunks
  <2>2. /\ DOMAIN job' = DOMAIN job
        /\ job'.out = [Unsent EXCEPT !.chunks = n]
        /\ job'.ok = job.ok
    BY <1>0, <2>1
  <2>3. Accounts(job'.out)
    BY <2>2, UnsentAccounts
  <2>4. QED
    BY <1>0, <1>4, <2>2, <2>3 DEF DeliveryInv
<1>5. CASE CollectTelemetry
  BY <1>1, <1>3, <1>5 DEF CollectTelemetry
<1>6. CASE CollectMerges
  BY <1>0, <1>1, <1>6 DEF CollectMerges, DeliveryInv
<1>7. CASE ScanRepo
  BY <1>0, <1>1, <1>3, <1>7 DEF ScanRepo, DeliveryInv
<1>8. CASE WriteArtifact
  BY <1>2, <1>4, <1>8 DEF WriteArtifact
<1>9. QED
  BY <1>5, <1>6, <1>7, <1>8 DEF Collect

LEMMA NextDelivery ==
    ASSUME DeliveryInv, [ReportNext]_reportVars
    PROVE  DeliveryInv'
<1>0. DOMAIN job = {"pc", "pass", "report", "out", "ok"}
  BY DEF DeliveryInv
<1>1. CASE NextDay \/ Crash
  BY <1>1, FreshJobs DEF NextDay, Crash, Dies
<1>2. CASE Tick
  BY <1>2, FreshJobs DEF Tick, ThisWeek
<1>3. CASE RunNow
  BY <1>3, FreshJobs DEF RunNow, ThisWeek
<1>4. ASSUME NEW m \in Merges, Merge(m) \/ TouchMerged(m)
      PROVE  DeliveryInv'
  BY <1>4 DEF Merge, TouchMerged, DeliveryInv
<1>5. CASE Collect
  BY <1>5, CollectingKeeps
<1>6. CASE Post
  <2>1. PICK end \in {"ok", "refused", "lost", "page"} :
          job' = [job EXCEPT !.out = IF Acknowledged(end) THEN Sent(Arrives(job.out, end))
                                     ELSE Refused(Arrives(job.out, end))]
    BY <1>6 DEF Post
  <2>2. job.pc = "send" /\ job.out.at <= job.out.chunks
    BY <1>6 DEF Post
  <2>3. Accounts(job'.out)
    BY <1>0, <2>1, <2>2, CountingKeeps DEF DeliveryInv
  <2>4. DOMAIN job' = DOMAIN job /\ job'.ok = job.ok
    BY <1>0, <2>1
  <2>5. QED
    BY <1>0, <2>2, <2>3, <2>4 DEF DeliveryInv
<1>7. CASE Finish
  <2>1. CASE job.pass = "first"
    BY <1>7, <2>1, FreshJobs DEF Finish
  <2>2. CASE job.pass # "first"
    BY <1>0, <1>7, <2>2 DEF Finish, DeliveryInv
  <2>3. QED
    BY <2>1, <2>2
<1>8. CASE UNCHANGED reportVars
  BY <1>8 DEF reportVars, DeliveryInv
<1>9. QED
  BY <1>1, <1>2, <1>3, <1>4, <1>5, <1>6, <1>7, <1>8 DEF ReportNext, JobStep

LEMMA InvIsHonest ==
    ASSUME DeliveryInv
    PROVE  DeliveryIsHonest
<1>1. PICK o : o = job.out
  OBVIOUS
<1>2. /\ Accounts(o)
      /\ o.at \in 1..(o.chunks + 1) /\ o.chunks \in Chunks
      /\ o.copies \in Tallies /\ o.lost \in Tallies
  BY <1>1 DEF DeliveryInv, Accounts, Deliveries
<1>3. ASSUME NEW k \in Chunks
      PROVE  o.copies[k] <= 1 + o.lost[k]
  <2>1. o.copies[k] <= o.lost[k] + (IF k < o.at THEN 1 ELSE 0)
    BY <1>2 DEF Accounts
  <2>2. o.copies[k] \in Nat /\ o.lost[k] \in Nat
    BY <1>2 DEF Tallies
  <2>3. QED
    BY <2>1, <2>2
<1>4. ASSUME job.ok, NEW k \in 1..o.chunks
      PROVE  Settled(o, k)
  <2>1. o.at > o.chunks /\ o.sent = o.chunks
    BY <1>1, <1>4 DEF DeliveryInv, AllSent
  <2>2. o.chunks \in Nat /\ o.at = o.chunks + 1
    BY <1>2, <2>1 DEF Chunks
  <2>3. o.sent = o.at - 1 /\ k \in 1..(o.at - 1)
    BY <2>1, <2>2
  <2>4. QED
    BY <1>2, <2>3 DEF Accounts
<1>5. QED
  BY <1>1, <1>3, <1>4 DEF DeliveryIsHonest, SuccessIsDelivery, CopiesHaveCause, Settled, Chunks

\* A run that the log calls a success left no chunk out that the notifier was not told of
\* by a gateway's page, and the chat sees a chunk again only for each lost answer.
THEOREM DeliveryStaysHonest == ReportSpec => []DeliveryIsHonest
<1>1. ReportInit => DeliveryInv
  BY FreshJobs, NewJob DEF ReportInit, DeliveryInv
<1>2. DeliveryInv /\ [ReportNext]_reportVars => DeliveryInv'
  BY NextDelivery
<1>3. DeliveryInv => DeliveryIsHonest
  BY InvIsHonest
<1>4. QED
  BY <1>1, <1>2, <1>3, PTL DEF ReportSpec

-----------------------------------------------------------------------------
(* The windows of the reports. *)

JobFields == {"pc", "pass", "report", "out", "ok"}
Reports == [from : Int, to : Int, merges : SUBSET Merges, scanned : SUBSET Merges]
Dates == [Merges -> Int]
WasMerged(m) == m \in Merges /\ mergedOn[m] >= 0

\* Nothing in a report lies outside its window, and this stays so: what was merged is
\* not merged again, and it can only be touched later.
InWindow(r) ==
    /\ r \in Reports
    /\ \A m \in r.merges : mergedOn[m] \in 0..r.to /\ touchedOn[m] >= r.from
    /\ \A m \in r.scanned : mergedOn[m] >= 0 /\ mergedOn[m] \in r.from..r.to

WindowInv ==
    /\ day \in Nat /\ mergedOn \in Dates /\ touchedOn \in Dates
    /\ \A m \in Merges : mergedOn[m] >= Never /\ touchedOn[m] <= day
    /\ clone = NoClone \/ \A m \in clone : WasMerged(m)
    /\ DOMAIN job = JobFields
    /\ InWindow(job.report)
    /\ \A w \in DOMAIN artifacts :
        InWindow(artifacts[w]) /\ (artifacts[w].from = Never \/ WeekOf(artifacts[w].from) = w)

LEMMA EmptyReport ==
    ASSUME NEW from \in Int, NEW to \in Int
    PROVE  /\ InWindow(Report(from, to)) /\ Report(from, to).from = from
           /\ InWindow(NoReport) /\ NoReport.from = Never
<1>1. NoReport \in Reports /\ NoReport.merges = {} /\ NoReport.scanned = {} /\ NoReport.from = Never
  BY DEF NoReport, Reports, Never
<1>2. PICK r : r = [NoReport EXCEPT !.from = from, !.to = to]
  OBVIOUS
<1>3. r \in Reports /\ r.merges = {} /\ r.scanned = {} /\ r.from = from
  BY <1>1, <1>2 DEF Reports
<1>4. QED
  BY <1>1, <1>2, <1>3 DEF InWindow, Report

\* A window survives what may happen to the project while no job runs.
LEMMA WindowsLast ==
    ASSUME mergedOn \in Dates, mergedOn' \in Dates, touchedOn \in Dates, touchedOn' \in Dates,
           \A m \in Merges : mergedOn[m] >= 0 => mergedOn'[m] = mergedOn[m],
           \A m \in Merges : touchedOn'[m] >= touchedOn[m],
           NEW r, InWindow(r)
    PROVE  InWindow(r)'
<1>1. r \in Reports
  BY DEF InWindow
<1>2. r.from \in Int /\ r.to \in Int /\ r.merges \subseteq Merges /\ r.scanned \subseteq Merges
  BY <1>1 DEF Reports
<1>3. ASSUME NEW m \in r.merges
      PROVE  mergedOn'[m] \in 0..r.to /\ touchedOn'[m] >= r.from
  <2>1. m \in Merges /\ mergedOn[m] \in 0..r.to /\ touchedOn[m] >= r.from
    BY <1>2 DEF InWindow
  <2>2. mergedOn[m] \in Int /\ touchedOn[m] \in Int /\ touchedOn'[m] \in Int
    BY <2>1 DEF Dates
  <2>3. QED
    BY <1>2, <2>1, <2>2
<1>4. ASSUME NEW m \in r.scanned
      PROVE  mergedOn'[m] >= 0 /\ mergedOn'[m] \in r.from..r.to
  BY <1>2 DEF InWindow
<1>5. QED
  BY <1>1, <1>3, <1>4 DEF InWindow

\* The steps that leave the project alone leave every window alone.
LEMMA WindowsStay ==
    ASSUME UNCHANGED <<mergedOn, touchedOn>>, NEW r
    PROVE  InWindow(r)' <=> InWindow(r)
BY DEF InWindow

LEMMA WindowsHold ==
    ASSUME WindowInv, UNCHANGED <<day, mergedOn, touchedOn, clone, artifacts>>,
           DOMAIN job' = JobFields, InWindow(job'.report)
    PROVE  WindowInv'
BY WindowsStay DEF WindowInv, WasMerged

\* A job that dies, or a new one, has an empty report.
LEMMA FreshReports ==
    ASSUME \/ job' = NoJob
           \/ \E from, to \in Int : job' = Started(from, to)
           \/ \E from, to \in Int : \E pass : job' = [Started(from, to) EXCEPT !.pass = pass]
    PROVE  DOMAIN job' = JobFields /\ InWindow(job'.report)
<1>1. DOMAIN NoJob = JobFields /\ NoJob.report = NoReport
  BY DEF NoJob, JobFields
<1>2. ASSUME NEW from, NEW to, NEW pass
      PROVE  /\ DOMAIN Started(from, to) = JobFields /\ Started(from, to).report = Report(from, to)
             /\ DOMAIN [Started(from, to) EXCEPT !.pass = pass] = JobFields
             /\ [Started(from, to) EXCEPT !.pass = pass].report = Report(from, to)
  BY <1>1 DEF Started, JobFields
<1>3. CASE job' = NoJob
  BY <1>1, <1>3, EmptyReport DEF Never
<1>4. CASE \E from, to \in Int : job' = Started(from, to)
  BY <1>2, <1>4, EmptyReport
<1>5. CASE \E from, to \in Int : \E pass : job' = [Started(from, to) EXCEPT !.pass = pass]
  <2>1. PICK from \in Int, to \in Int : \E pass : job' = [Started(from, to) EXCEPT !.pass = pass]
    BY <1>5
  <2>2. PICK pass : job' = [Started(from, to) EXCEPT !.pass = pass]
    BY <2>1
  <2>3. QED
    BY <1>2, <2>2, EmptyReport
<1>6. QED
  BY <1>3, <1>4, <1>5

\* The days a job is started for.
LEMMA StartsThisWeek ==
    ASSUME day \in Nat
    PROVE  \E from, to \in Int : ThisWeek(day) = Started(from, to)
<1>1. PICK d : d = WeekOf(day)
  OBVIOUS
<1>2. d \in Int /\ WeekDays \in Int
  BY <1>1, ReportBounds DEF WeekOf
<1>3. d * WeekDays \in Int /\ d * WeekDays + WeekDays - 1 \in Int
  BY <1>2
<1>4. QED
  BY <1>1, <1>3 DEF ThisWeek

\* The steps of a job that collects.
LEMMA MergesInWindow ==
    ASSUME WindowInv
    PROVE  MergedIn(job.report.from, job.report.to) \in SUBSET Merges
           /\ InWindow([job.report EXCEPT !.merges = MergedIn(job.report.from, job.report.to)])
<1>1. PICK r : r = job.report
  OBVIOUS
<1>2. r \in Reports /\ InWindow(r)
  BY <1>1 DEF WindowInv, InWindow
<1>3. PICK S \in SUBSET Merges : S = MergedIn(r.from, r.to)
  BY DEF MergedIn
<1>4. PICK n : n = [r EXCEPT !.merges = S]
  OBVIOUS
<1>5. n \in Reports /\ n.from = r.from /\ n.to = r.to /\ n.merges = S /\ n.scanned = r.scanned
  BY <1>2, <1>4 DEF Reports
<1>6. \A m \in S : mergedOn[m] \in 0..r.to /\ touchedOn[m] >= r.from
  BY <1>3 DEF MergedIn
<1>7. InWindow(n)
  BY <1>2, <1>5, <1>6 DEF InWindow
<1>8. QED
  BY <1>1, <1>3, <1>4, <1>7

LEMMA BranchWasMerged ==
    ASSUME WindowInv, NEW m \in Branch
    PROVE  WasMerged(m)
<1>1. \A n \in Merges : mergedOn[n] >= Never /\ mergedOn[n] \in Int
  BY DEF WindowInv, Dates
<1>2. QED
  BY <1>1 DEF Branch, WindowInv, WasMerged, Never

LEMMA ScanInWindow ==
    ASSUME WindowInv, NEW S \in Diffs(CommitsIn(job.report.from, job.report.to))
    PROVE  InWindow([job.report EXCEPT !.scanned = S])
<1>1. PICK r : r = job.report
  OBVIOUS
<1>2. r \in Reports /\ InWindow(r)
  BY <1>1 DEF WindowInv, InWindow
<1>3. S \subseteq CommitsIn(r.from, r.to)
  BY <1>1 DEF Diffs
<1>4. \A m \in S : m \in Merges /\ mergedOn[m] >= 0 /\ mergedOn[m] \in r.from..r.to
  BY <1>3, BranchWasMerged DEF CommitsIn, WasMerged
<1>5. PICK n : n = [r EXCEPT !.scanned = S]
  OBVIOUS
<1>6. n \in Reports /\ n.from = r.from /\ n.to = r.to /\ n.merges = r.merges /\ n.scanned = S
  BY <1>2, <1>4, <1>5 DEF Reports
<1>7. InWindow(n)
  BY <1>2, <1>4, <1>6 DEF InWindow
<1>8. QED
  BY <1>1, <1>5, <1>7

\* What a collector leaves behind, and a write of the artifact.
LEMMA CollectingStaysInWindow ==
    ASSUME WindowInv, Collect
    PROVE  WindowInv'
<1>0. DOMAIN job = JobFields /\ InWindow(job.report)
  BY DEF WindowInv
<1>1. ASSUME NEW pc, Goes(pc)
      PROVE  DOMAIN job' = JobFields /\ InWindow(job'.report)
  BY <1>0, <1>1 DEF Goes, JobFields
<1>2. ASSUME Dies
      PROVE  DOMAIN job' = JobFields /\ InWindow(job'.report)
  BY <1>2, FreshReports DEF Dies
<1>3. ASSUME NEW pc, Raises(pc)
      PROVE  DOMAIN job' = JobFields /\ InWindow(job'.report)
  BY <1>1, <1>2, <1>3 DEF Raises
<1>4. ASSUME Sending
      PROVE  DOMAIN job' = JobFields /\ InWindow(job'.report)
  BY <1>0, <1>4 DEF Sending, JobFields
<1>5. UNCHANGED <<day, mergedOn, touchedOn>>
  BY DEF Collect
<1>6. CASE CollectTelemetry /\ UNCHANGED artifacts
  <2>1. DOMAIN job' = JobFields /\ InWindow(job'.report)
    BY <1>1, <1>3, <1>6 DEF CollectTelemetry
  <2>2. QED
    BY <1>5, <1>6, <2>1, WindowsHold DEF CollectTelemetry
<1>7. CASE CollectMerges /\ UNCHANGED artifacts
  <2>1. CASE Goes("scan")
    BY <1>1, <1>5, <1>7, <2>1, WindowsHold DEF CollectMerges
  <2>2. CASE ~Goes("scan")
    <3>1. PICK n : n = [job.report EXCEPT !.merges = MergedIn(job.report.from, job.report.to)]
      OBVIOUS
    <3>2. job' = [job EXCEPT !.pc = "scan", !.report = n]
      BY <1>7, <2>2, <3>1 DEF CollectMerges
    <3>3. DOMAIN job' = JobFields /\ job'.report = n
      BY <1>0, <3>2 DEF JobFields
    <3>4. QED
      BY <1>5, <1>7, <3>1, <3>3, MergesInWindow, WindowsHold DEF CollectMerges
  <2>3. QED
    BY <2>1, <2>2
<1>8. CASE ScanRepo /\ UNCHANGED artifacts
  <2>1. DOMAIN job' = JobFields /\ InWindow(job'.report)
    <3>1. CASE Goes("artifact") \/ Raises("artifact")
      BY <1>1, <1>3, <3>1
    <3>2. CASE ~(Goes("artifact") \/ Raises("artifact"))
      <4>1. PICK S \in Diffs(CommitsIn(job.report.from, job.report.to)) :
              job' = [job EXCEPT !.pc = "artifact", !.report.scanned = S]
        BY <1>8, <3>2 DEF ScanRepo
      <4>2. PICK n : n = [job.report EXCEPT !.scanned = S]
        OBVIOUS
      <4>3. job' = [job EXCEPT !.pc = "artifact", !.report = n]
        BY <4>1, <4>2
      <4>4. DOMAIN job' = JobFields /\ job'.report = n
        BY <1>0, <4>3 DEF JobFields
      <4>5. QED
        BY <4>2, <4>4, ScanInWindow
    <3>3. QED
      BY <3>1, <3>2
  <2>2. clone' = clone \/ \A m \in clone' : WasMerged(m)
    <3>1. clone' = clone \/ clone' = Branch
      BY <1>8 DEF ScanRepo
    <3>2. QED
      BY <3>1, BranchWasMerged
  <2>3. QED
    BY <1>5, <1>8, <2>1, <2>2, WindowsStay DEF WindowInv, WasMerged
<1>9. CASE WriteArtifact /\ UNCHANGED clone
  <2>1. DOMAIN job' = JobFields /\ InWindow(job'.report)
    BY <1>2, <1>4, <1>9 DEF WriteArtifact
  <2>2. ASSUME NEW w \in DOMAIN artifacts'
        PROVE  InWindow(artifacts'[w]) /\ (artifacts'[w].from = Never \/ WeekOf(artifacts'[w].from) = w)
    BY <1>0, <1>9 DEF WriteArtifact, WindowInv
  <2>3. QED
    BY <1>5, <1>9, <2>1, <2>2, WindowsStay DEF WindowInv, WasMerged
<1>10. QED
  BY <1>6, <1>7, <1>8, <1>9 DEF Collect

LEMMA NextWindow ==
    ASSUME WindowInv, [ReportNext]_reportVars
    PROVE  WindowInv'
<1>0. DOMAIN job = JobFields /\ InWindow(job.report) /\ day \in Nat
  BY DEF WindowInv
<1>1. CASE NextDay
  <2>1. DOMAIN job' = JobFields /\ InWindow(job'.report)
    BY <1>1, FreshReports DEF NextDay
  <2>2. day' \in Nat /\ \A m \in Merges : touchedOn[m] <= day'
    BY <1>1 DEF NextDay, WindowInv, Dates
  <2>3. QED
    BY <1>1, <2>1, <2>2, WindowsStay DEF NextDay, WindowInv, WasMerged
<1>2. CASE Tick \/ RunNow \/ Crash
  <2>1. DOMAIN job' = JobFields /\ InWindow(job'.report)
    BY <1>0, <1>2, FreshReports, StartsThisWeek DEF Tick, RunNow, Crash, Dies
  <2>2. QED
    BY <1>2, <2>1, WindowsHold DEF Tick, RunNow, Crash
<1>3. ASSUME NEW m \in Merges, Merge(m) \/ TouchMerged(m)
      PROVE  WindowInv'
  <2>1. mergedOn \in Dates /\ touchedOn \in Dates /\ \A n \in Merges : mergedOn[n] >= Never /\ touchedOn[n] <= day
    BY DEF WindowInv
  <2>2. mergedOn' \in Dates /\ touchedOn' \in Dates /\ day' = day
    BY <1>0, <1>3, <2>1 DEF Merge, TouchMerged, Dates
  <2>3. ASSUME NEW n \in Merges
        PROVE  /\ mergedOn[n] >= 0 => mergedOn'[n] = mergedOn[n]
               /\ mergedOn'[n] >= Never /\ touchedOn'[n] <= day /\ touchedOn'[n] >= touchedOn[n]
    BY <1>0, <1>3, <2>1, <2>2 DEF Merge, TouchMerged, Dates, Never
  <2>4. \A r : InWindow(r) => InWindow(r)'
    BY <2>1, <2>2, <2>3, WindowsLast
  <2>5. clone' = clone /\ job' = job /\ artifacts' = artifacts
    BY <1>3 DEF Merge, TouchMerged
  <2>6. \A n : WasMerged(n) => WasMerged(n)'
    BY <2>3 DEF WasMerged
  <2>7. QED
    BY <1>0, <2>2, <2>3, <2>4, <2>5, <2>6 DEF WindowInv
<1>4. CASE Collect
  BY <1>4, CollectingStaysInWindow
<1>5. CASE Post
  <2>1. DOMAIN job' = JobFields /\ job'.report = job.report
    BY <1>0, <1>5 DEF Post, JobFields
  <2>2. QED
    BY <1>0, <1>5, <2>1, WindowsHold DEF Post
<1>6. CASE Finish
  <2>1. CASE job.pass = "first"
    <3>1. PICK back \in 0..day : job' = [Started(day - back, day) EXCEPT !.pass = "second"]
      BY <1>6, <2>1 DEF Finish
    <3>2. day - back \in Int /\ day \in Int
      BY <1>0
    <3>3. DOMAIN job' = JobFields /\ InWindow(job'.report)
      BY <3>1, <3>2, FreshReports
    <3>4. QED
      BY <1>6, <3>3, WindowsHold DEF Finish
  <2>2. CASE job.pass # "first"
    <3>1. DOMAIN job' = JobFields /\ job'.report = job.report
      BY <1>0, <1>6, <2>2 DEF Finish, JobFields
    <3>2. QED
      BY <1>0, <1>6, <3>1, WindowsHold DEF Finish
  <2>3. QED
    BY <2>1, <2>2
<1>7. CASE UNCHANGED reportVars
  BY <1>7, WindowsStay DEF reportVars, WindowInv, WasMerged
<1>8. QED
  BY <1>1, <1>2, <1>3, <1>4, <1>5, <1>6, <1>7 DEF ReportNext, JobStep

\* Two different weeks have no day in common.
LEMMA WeeksApart ==
    ASSUME NEW r, NEW s, NEW v, NEW w,
           r \in Reports, s \in Reports, Weekly(r), Weekly(s),
           r.from = Never \/ WeekOf(r.from) = v, s.from = Never \/ WeekOf(s.from) = w, v # w
    PROVE  r.to < s.from \/ s.to < r.from
<1>1. PICK a \in Int, b \in Int : a = r.from /\ b = s.from
  BY DEF Reports
<1>2. PICK k \in Int, l \in Int : k = WeekOf(a) /\ l = WeekOf(b)
  BY <1>1, ReportBounds DEF WeekOf
<1>3. WeekDays \in Nat \ {0}
  BY ReportBounds
<1>4. a % WeekDays = 0 /\ b % WeekDays = 0 /\ k # l
  BY <1>1, <1>2 DEF Weekly
<1>5. a = k * WeekDays /\ b = l * WeekDays
  <2>1. \A n \in Nat \ {0}, d \in Int : d % n = 0 => d = (d \div n) * n
    OBVIOUS
  <2>2. a = (a \div WeekDays) * WeekDays /\ b = (b \div WeekDays) * WeekDays
    BY <1>3, <1>4, <2>1
  <2>3. k = a \div WeekDays /\ l = b \div WeekDays
    BY <1>2 DEF WeekOf
  <2>4. QED
    BY <2>2, <2>3, Zenon
<1>6. r.to = a + WeekDays - 1 /\ s.to = b + WeekDays - 1
  BY <1>1 DEF Weekly
<1>7. CASE k < l
  <2>1. (k + 1) * WeekDays <= l * WeekDays
    BY <1>2, <1>3, <1>7
  <2>2. QED
    BY <1>1, <1>2, <1>3, <1>5, <1>6, <2>1
<1>8. CASE l < k
  <2>1. (l + 1) * WeekDays <= k * WeekDays
    BY <1>2, <1>3, <1>8
  <2>2. QED
    BY <1>1, <1>2, <1>3, <1>5, <1>6, <2>1
<1>9. QED
  BY <1>2, <1>4, <1>7, <1>8

LEMMA InvKeepsWindows ==
    ASSUME WindowInv
    PROVE  ReportsKeepTheirWindow
<1>1. ASSUME NEW w \in DOMAIN artifacts, NEW m \in artifacts[w].merges
      PROVE  mergedOn[m] <= artifacts[w].to /\ touchedOn[m] >= artifacts[w].from
  BY DEF WindowInv, InWindow
<1>2. ASSUME NEW v \in DOMAIN artifacts, NEW w \in DOMAIN artifacts, v # w,
             Weekly(artifacts[v]), Weekly(artifacts[w]),
             NEW m \in artifacts[v].scanned, m \in artifacts[w].scanned
      PROVE  FALSE
  <2>1. PICK r, s : r = artifacts[v] /\ s = artifacts[w]
    OBVIOUS
  <2>2. /\ r \in Reports /\ s \in Reports /\ InWindow(r) /\ InWindow(s)
        /\ r.from = Never \/ WeekOf(r.from) = v
        /\ s.from = Never \/ WeekOf(s.from) = w
    BY <2>1 DEF WindowInv, InWindow
  <2>3. r.to < s.from \/ s.to < r.from
    BY <1>2, <2>1, <2>2, WeeksApart
  <2>4. m \in Merges /\ mergedOn[m] \in Int /\ mergedOn[m] \in r.from..r.to /\ mergedOn[m] \in s.from..s.to
    BY <1>2, <2>1, <2>2 DEF InWindow, WindowInv, Dates, Reports
  <2>5. r.from \in Int /\ r.to \in Int /\ s.from \in Int /\ s.to \in Int
    BY <2>2 DEF Reports
  <2>6. QED
    BY <2>3, <2>4, <2>5
<1>3. QED
  BY <1>1, <1>2 DEF ReportsKeepTheirWindow

LEMMA WindowsStart == ReportInit => WindowInv
<1>1. SUFFICES ASSUME ReportInit
               PROVE  WindowInv
  OBVIOUS
<1>2. DOMAIN NoJob = JobFields /\ NoJob.report = NoReport
  BY DEF NoJob, JobFields
<1>3. InWindow(NoReport) /\ NoReport.from = Never
  BY EmptyReport DEF Never
<1>4. mergedOn \in Dates /\ touchedOn \in Dates /\ \A m \in Merges : mergedOn[m] = -1 /\ touchedOn[m] = -1
  BY <1>1 DEF ReportInit, Dates, Never
<1>5. \A w \in DOMAIN artifacts : artifacts[w] = NoReport
  BY <1>1 DEF ReportInit
<1>6. QED
  BY <1>1, <1>2, <1>3, <1>4, <1>5 DEF ReportInit, WindowInv, Never

\* A report never lists a merge request from outside its window, and two weeks' reports
\* never review the same commit, however long a week is and however many runs fail.
THEOREM ReportsStayInWindow == ReportSpec => []ReportsKeepTheirWindow
<1>1. ReportInit => WindowInv
  BY WindowsStart
<1>2. WindowInv /\ [ReportNext]_reportVars => WindowInv'
  BY NextWindow
<1>3. WindowInv => ReportsKeepTheirWindow
  BY InvKeepsWindows
<1>4. QED
  BY <1>1, <1>2, <1>3, PTL DEF ReportSpec

-----------------------------------------------------------------------------
(* Types. *)

JobPlaces == {"none", "telemetry", "merges", "scan", "artifact", "send", "logged"}

\* What the types need beside the other two invariants.
JobInv ==
    /\ day \in 0..MaxDay
    /\ job.pc \in JobPlaces
    /\ job.out.attempt \in 1..Attempts

LEMMA UnsentIsFirst ==
    /\ Unsent.attempt \in 1..Attempts
    /\ \A n \in Chunks : [Unsent EXCEPT !.chunks = n].attempt \in 1..Attempts
BY ReportBounds DEF Unsent

\* A job that dies, or a new one.
LEMMA FreshJobsHaveForm ==
    ASSUME JobInv, day' \in 0..MaxDay,
           \/ job' = NoJob
           \/ \E from, to : job' = Started(from, to)
           \/ \E from, to, pass : job' = [Started(from, to) EXCEPT !.pass = pass]
    PROVE  JobInv'
<1>1. NoJob.pc = "none" /\ NoJob.out = Unsent
  BY DEF NoJob
<1>2. ASSUME NEW from, NEW to
      PROVE  /\ DOMAIN Started(from, to) = DOMAIN NoJob
             /\ Started(from, to).pc = "telemetry" /\ Started(from, to).out = Unsent
  BY DEF Started, NoJob
<1>3. ASSUME NEW from, NEW to, NEW pass, job' = [Started(from, to) EXCEPT !.pass = pass]
      PROVE  job'.pc = "telemetry" /\ job'.out = Unsent
  <2>1. DOMAIN Started(from, to) = {"pc", "pass", "report", "out", "ok"}
    BY StartedJob
  <2>2. QED
    BY <1>2, <1>3, <2>1
<1>4. job'.pc \in {"none", "telemetry"} /\ job'.out = Unsent
  BY <1>1, <1>2, <1>3
<1>5. QED
  BY <1>4, UnsentIsFirst DEF JobInv, JobPlaces

LEMMA CollectingKeepsForm ==
    ASSUME DeliveryInv, JobInv, Collect
    PROVE  JobInv'
<1>0. DOMAIN job = {"pc", "pass", "report", "out", "ok"} /\ day' = day
  BY DEF DeliveryInv, Collect
<1>1. ASSUME NEW pc \in JobPlaces, Goes(pc)
      PROVE  JobInv'
  BY <1>0, <1>1 DEF Goes, JobInv
<1>2. ASSUME Dies
      PROVE  JobInv'
  BY <1>0, <1>2, FreshJobsHaveForm DEF Dies, JobInv
<1>3. ASSUME NEW pc \in JobPlaces, Raises(pc)
      PROVE  JobInv'
  BY <1>1, <1>2, <1>3 DEF Raises
<1>4. ASSUME Sending
      PROVE  JobInv'
  <2>1. PICK n \in Chunks : job' = [job EXCEPT !.pc = "send", !.out = [Unsent EXCEPT !.chunks = n]]
    BY <1>4 DEF Sending, Chunks
  <2>2. job'.pc = "send" /\ job'.out = [Unsent EXCEPT !.chunks = n]
    BY <1>0, <2>1
  <2>3. QED
    BY <1>0, <2>2, UnsentIsFirst DEF JobInv, JobPlaces
<1>5. CASE CollectTelemetry
  BY <1>1, <1>3, <1>5 DEF CollectTelemetry, JobPlaces
<1>6. CASE CollectMerges
  BY <1>0, <1>1, <1>6 DEF CollectMerges, JobInv, JobPlaces
<1>7. CASE ScanRepo
  BY <1>0, <1>1, <1>3, <1>7 DEF ScanRepo, JobInv, JobPlaces
<1>8. CASE WriteArtifact
  BY <1>2, <1>4, <1>8 DEF WriteArtifact
<1>9. QED
  BY <1>5, <1>6, <1>7, <1>8 DEF Collect

\* No post is tried more often than it may be.
LEMMA AttemptsAreBounded ==
    ASSUME NEW o, Accounts(o), o.at <= o.chunks, o.attempt \in 1..Attempts,
           NEW end \in {"ok", "refused", "lost", "page"},
           NEW n, n = IF Acknowledged(end) THEN Sent(Arrives(o, end)) ELSE Refused(Arrives(o, end))
    PROVE  n.attempt \in 1..Attempts
<1>1. PICK s : s = Arrives(o, end)
  OBVIOUS
<1>2. s \in Deliveries /\ s.attempt = o.attempt
  BY <1>1, ArrivingKeeps
<1>3. Sent(s).attempt = 1
  BY <1>2 DEF Sent, NextChunk, Deliveries
<1>4. CASE o.attempt < Attempts
  <2>1. Refused(s).attempt = s.attempt + 1
    BY <1>2, <1>4 DEF Refused, Deliveries
  <2>2. QED
    BY <1>1, <1>2, <1>3, <1>4, <2>1, ReportBounds
<1>5. CASE ~(o.attempt < Attempts)
  <2>1. Refused(s).attempt = 1
    BY <1>2, <1>5 DEF Refused, NextChunk, Deliveries
  <2>2. QED
    BY <1>1, <1>3, <2>1, ReportBounds
<1>6. QED
  BY <1>4, <1>5

LEMMA NextJobs ==
    ASSUME DeliveryInv, JobInv, [ReportNext]_reportVars
    PROVE  JobInv'
<1>0. DOMAIN job = {"pc", "pass", "report", "out", "ok"} /\ day \in 0..MaxDay
  BY DEF DeliveryInv, JobInv
<1>1. CASE NextDay
  <2>1. day' \in 0..MaxDay
    BY <1>0, <1>1, ReportBounds DEF NextDay
  <2>2. QED
    BY <1>1, <2>1, FreshJobsHaveForm DEF NextDay
<1>2. CASE Tick \/ RunNow \/ Crash
  BY <1>0, <1>2, FreshJobsHaveForm DEF Tick, RunNow, ThisWeek, Crash, Dies
<1>3. ASSUME NEW m \in Merges, Merge(m) \/ TouchMerged(m)
      PROVE  JobInv'
  BY <1>3 DEF Merge, TouchMerged, JobInv
<1>4. CASE Collect
  BY <1>4, CollectingKeepsForm
<1>5. CASE Post
  <2>1. PICK end \in {"ok", "refused", "lost", "page"} :
          job' = [job EXCEPT !.out = IF Acknowledged(end) THEN Sent(Arrives(job.out, end))
                                     ELSE Refused(Arrives(job.out, end))]
    BY <1>5 DEF Post
  <2>2. job.out.at <= job.out.chunks /\ day' = day
    BY <1>5 DEF Post
  <2>3. job'.pc = job.pc /\ job'.out = IF Acknowledged(end) THEN Sent(Arrives(job.out, end))
                                        ELSE Refused(Arrives(job.out, end))
    BY <1>0, <2>1
  <2>4. job'.out.attempt \in 1..Attempts
    BY <2>2, <2>3, AttemptsAreBounded DEF DeliveryInv, JobInv
  <2>5. QED
    BY <2>2, <2>3, <2>4 DEF JobInv
<1>6. CASE Finish
  <2>1. CASE job.pass = "first"
    BY <1>0, <1>6, <2>1, FreshJobsHaveForm DEF Finish
  <2>2. CASE job.pass # "first"
    BY <1>0, <1>6, <2>2 DEF Finish, JobInv, JobPlaces
  <2>3. QED
    BY <2>1, <2>2
<1>7. CASE UNCHANGED reportVars
  BY <1>7 DEF reportVars, JobInv
<1>8. QED
  BY <1>1, <1>2, <1>3, <1>4, <1>5, <1>6, <1>7 DEF ReportNext, JobStep

\* A job is at one of its places and never past its last attempt or its last chunk, and
\* what the week's files name are merge requests of the project.
THEOREM ReportTypesHold == ReportSpec => []ReportTypeOK
<1>1. ReportInit => DeliveryInv
  BY FreshJobs, NewJob DEF ReportInit, DeliveryInv
<1>2. ReportInit => JobInv
  <2>1. NoJob.pc = "none" /\ NoJob.out = Unsent
    BY DEF NoJob
  <2>2. QED
    BY <2>1, UnsentIsFirst, ReportBounds DEF ReportInit, JobInv, JobPlaces
<1>3. DeliveryInv /\ JobInv /\ WindowInv => ReportTypeOK
  <2>1. ASSUME WindowInv, NEW w \in DOMAIN artifacts
        PROVE  artifacts[w].merges \cup artifacts[w].scanned \subseteq Merges
    BY <2>1 DEF WindowInv, InWindow, Reports
  <2>2. QED
    BY <2>1 DEF DeliveryInv, Accounts, JobInv, JobPlaces, ReportTypeOK
<1>4. QED
  BY <1>1, <1>2, <1>3, NextDelivery, NextJobs, WindowsStart, NextWindow, PTL DEF ReportSpec

-----------------------------------------------------------------------------
(* Counting. *)

\* A non-empty set of naturals has a least element.
LEMMA LeastElement ==
    ASSUME NEW T \in SUBSET Nat, T # {}
    PROVE  \E n \in T : \A m \in T : n <= m
<1> DEFINE Below == {{k \in Nat : k < n} : n \in T}
<1>1. Below \subseteq FiniteSubsetsOf(Nat)
  <2> SUFFICES ASSUME NEW n \in T
               PROVE  {k \in Nat : k < n} \in FiniteSubsetsOf(Nat)
    OBVIOUS
  <2>1. IsFiniteSet({k \in Nat : k < n})
    BY FS_BoundedSetOfNaturals
  <2> QED BY <2>1 DEF FiniteSubsetsOf
<1>2. PICK B \in Below : \A C \in Below : <<C, B>> \notin StrictSubsetOrdering(Nat)
  <2>1. Below # {}
    OBVIOUS
  <2> HIDE DEF Below
  <2> QED BY <1>1, <2>1, FS_StrictSubsetOrderingWellFounded, WFMin
<1>3. PICK n \in T : B = {k \in Nat : k < n}
  BY <1>2
<1>4. ASSUME NEW m \in T, m < n PROVE FALSE
  <2> DEFINE C == {k \in Nat : k < m}
  <2>1. C \in Below
    OBVIOUS
  <2>2. m \in B /\ m \notin C /\ C \subseteq B /\ B \subseteq Nat
    BY <1>3, <1>4
  <2>3. <<C, B>> \in StrictSubsetOrdering(Nat)
    BY <2>2 DEF StrictSubsetOrdering
  <2> QED BY <2>1, <2>3, <1>2
<1> QED BY <1>4

-----------------------------------------------------------------------------
(* The store's numbers (TelemetryViews). *)

\* Elements counted by what a function says of each of them add up to all of them.
LEMMA PartsMakeTheTotal ==
    ASSUME NEW S, IsFiniteSet(S), NEW K, NEW key \in [S -> K], NEW count, DOMAIN count = K,
           \A k \in K : count[k] = Cardinality({i \in S : key[i] = k})
    PROVE  Total(count) = Cardinality(S)
<1> DEFINE Part(k) == {i \in S : key[i] = k}
           Slips == UNION {{k} \X (1..count[k]) : k \in K}
           number == [k \in K |-> CHOOSE f : f \in Bijection(Part(k), 1..count[k])]
           slip == [i \in S |-> <<key[i], number[key[i]][i]>>]
<1>1. ASSUME NEW k \in K
      PROVE  number[k] \in Bijection(Part(k), 1..count[k])
  <2>1. IsFiniteSet(Part(k))
    BY FS_Subset
  <2>2. Bijection(1..count[k], Part(k)) # {}
    BY <2>1, FS_CardinalityType, Fun_ExistsBij
  <2>3. PICK f : f \in Bijection(1..count[k], Part(k))
    BY <2>2
  <2>4. Inverse(f, 1..count[k], Part(k)) \in Bijection(Part(k), 1..count[k])
    BY <2>3, Fun_BijInverse
  <2> HIDE DEF Part
  <2> QED BY <2>4
<1>2. ASSUME NEW k \in K
      PROVE  /\ number[k] \in [Part(k) -> 1..count[k]]
             /\ \A i, j \in Part(k) : number[k][i] = number[k][j] => i = j
             /\ \A n \in 1..count[k] : \E i \in Part(k) : number[k][i] = n
  <2>1. number[k] \in Bijection(Part(k), 1..count[k])
    BY <1>1
  <2> DEFINE N == 1..count[k]
  <2> HIDE DEF Part, number, N
  <2>2. \A f \in Bijection(Part(k), N) :
            /\ f \in [Part(k) -> N]
            /\ \A i, j \in Part(k) : f[i] = f[j] => i = j
            /\ \A n \in N : \E i \in Part(k) : f[i] = n
    BY Fun_BijectionProperties
  <2> QED BY <2>1, <2>2 DEF N
<1> HIDE DEF number
<1>3. slip \in [S -> Slips]
  <2> SUFFICES ASSUME NEW i \in S
               PROVE  <<key[i], number[key[i]][i]>> \in Slips
    OBVIOUS
  <2>1. key[i] \in K /\ i \in Part(key[i])
    OBVIOUS
  <2> HIDE DEF Part
  <2>2. number[key[i]] \in [Part(key[i]) -> 1..count[key[i]]]
    BY <2>1, <1>2
  <2>3. number[key[i]][i] \in 1..count[key[i]]
    BY <2>1, <2>2
  <2>4. <<key[i], number[key[i]][i]>> \in {key[i]} \X (1..count[key[i]])
    BY <2>3
  <2> QED BY <2>1, <2>4
<1>4. ASSUME NEW i \in S, NEW j \in S, slip[i] = slip[j]
      PROVE  i = j
  <2>1. key[i] = key[j] /\ number[key[i]][i] = number[key[i]][j]
    BY <1>4
  <2>2. key[i] \in K /\ i \in Part(key[i]) /\ j \in Part(key[i])
    BY <2>1
  <2> QED BY <2>1, <2>2, <1>2
<1>5. ASSUME NEW u \in Slips
      PROVE  \E i \in S : slip[i] = u
  <2>1. PICK k \in K : u \in {k} \X (1..count[k])
    OBVIOUS
  <2>2. PICK n \in 1..count[k] : u = <<k, n>>
    BY <2>1
  <2>3. PICK i \in Part(k) : number[k][i] = n
    BY <1>2
  <2>4. i \in S /\ key[i] = k
    OBVIOUS
  <2> QED BY <2>2, <2>3, <2>4
<1>6. Slips = UNION {{k} \X (1..count[k]) : k \in DOMAIN count}
  OBVIOUS
<1> HIDE DEF slip, Slips
<1>7. slip \in Bijection(S, Slips)
  BY <1>3, <1>4, <1>5, Fun_IsBij
<1>8. Cardinality(Slips) = Cardinality(S)
  BY <1>7, Fun_ExistsBij, FS_Bijection
<1> QED BY <1>6, <1>8 DEF Total

\* What a function says of finitely many things is finite.
LEMMA ImageIsFinite ==
    ASSUME NEW S, IsFiniteSet(S), NEW f, DOMAIN f = S, NEW T, f \in [S -> T]
    PROVE  IsFiniteSet({f[i] : i \in S})
<1> DEFINE image == {f[i] : i \in S}
<1>1. f \in [S -> image] /\ \A t \in image : \E i \in S : f[i] = t
  OBVIOUS
<1> HIDE DEF image
<1>2. f \in Surjection(S, image)
  BY <1>1, Fun_IsSurj
<1>3. IsFiniteSet(image)
  BY <1>2, FS_Surjection
<1> QED BY <1>3 DEF image

\* Counts that are not too small, where only finitely many are not 0, add up to as many
\* elements at the least.
LEMMA LargerCountsTotalMore ==
    ASSUME NEW S, IsFiniteSet(S), NEW K, NEW key \in [S -> K], NEW count \in [K -> Nat],
           IsFiniteSet({k \in K : count[k] # 0}),
           \A k \in K : Cardinality({i \in S : key[i] = k}) <= count[k]
    PROVE  Total(count) \in Nat /\ Total(count) >= Cardinality(S)
<1> DEFINE Part(k) == {i \in S : key[i] = k}
           least == [k \in K |-> Cardinality(Part(k))]
           Block(k) == {k} \X (1..count[k])
           used == {k \in K : count[k] # 0}
           block == [k \in used |-> Block(k)]
           all == UNION {Block(k) : k \in K}
           some == UNION {{k} \X (1..least[k]) : k \in K}
<1>1. Total(least) = Cardinality(S)
  <2>1. DOMAIN least = K /\ \A k \in K : least[k] = Cardinality({i \in S : key[i] = k})
    OBVIOUS
  <2> HIDE DEF least
  <2> QED BY <2>1, PartsMakeTheTotal
<1>2. IsFiniteSet({block[k] : k \in used})
  <2> DEFINE blocks == {Block(k) : k \in used}
  <2>1. DOMAIN block = used /\ block \in [used -> blocks]
    OBVIOUS
  <2> HIDE DEF block, used, Block, blocks
  <2>2. IsFiniteSet(used)
    BY DEF used
  <2> QED BY <2>1, <2>2, ImageIsFinite, ZenonT(40)
<1>3. ASSUME NEW T \in {block[k] : k \in used}
      PROVE  IsFiniteSet(T)
  <2>1. PICK k \in used : T = {k} \X (1..count[k])
    OBVIOUS
  <2>2. IsFiniteSet({k})
    BY FS_Singleton
  <2>3. 1 \in Int /\ count[k] \in Int
    OBVIOUS
  <2>4. IsFiniteSet(1..count[k])
    BY <2>3, FS_Interval
  <2> QED BY <2>1, <2>2, <2>4, FS_Product
<1>4. all = UNION {block[k] : k \in used}
  <2>1. ASSUME NEW x \in all
        PROVE  x \in UNION {block[k] : k \in used}
    <3>1. PICK k \in K : x \in {k} \X (1..count[k])
      OBVIOUS
    <3>2. k \in used
      BY <3>1
    <3> QED BY <3>1, <3>2
  <2>2. ASSUME NEW x \in UNION {block[k] : k \in used}
        PROVE  x \in all
    OBVIOUS
  <2> QED BY <2>1, <2>2
<1>5. IsFiniteSet(all)
  <2> HIDE DEF all, block, used
  <2> QED BY <1>2, <1>3, <1>4, FS_UNION
<1>6. some \subseteq all
  <2>1. ASSUME NEW k \in K
        PROVE  1..least[k] \subseteq 1..count[k]
    <3>1. least[k] <= count[k]
      OBVIOUS
    <3>2. IsFiniteSet(Part(k))
      BY FS_Subset
    <3>3. least[k] \in Nat
      BY <3>2, FS_CardinalityType
    <3> QED BY <3>1, <3>3
  <2> HIDE DEF least
  <2>2. ASSUME NEW x \in some
        PROVE  x \in all
    <3>1. PICK k \in K : x \in {k} \X (1..least[k])
      OBVIOUS
    <3>2. x \in {k} \X (1..count[k])
      BY <3>1, <2>1
    <3> QED BY <3>2
  <2> QED BY <2>2
<1>7. Total(least) = Cardinality(some) /\ Total(count) = Cardinality(all)
  BY DEF Total
<1> HIDE DEF some, all
<1> QED BY <1>1, <1>5, <1>6, <1>7, FS_Subset, FS_CardinalityType

-----------------------------------------------------------------------------

MergeRows == [present : {FALSE}] \cup
             [present : {TRUE}, author : Authors, state : {"updated", "merged"}, seen : Nat]
SuggestionRows == [present : {FALSE}] \cup
                  [present : {TRUE}, mr : MRs, rules : RuleLists, importance : Importances,
                   state : SuggestionStates, posted : Nat, dismissed : Nat]
RunRows == [present : {FALSE}] \cup
           [present : {TRUE}, mr : MRs, status : {"started", "success", "failed"}, started : Nat]
Fates == [fate : {"none", "active", "success", "failed", "dead"}, told : BOOLEAN]

\* What a suggestion's row and a run's row say: nothing is dismissed before it is posted,
\* and a row shows a failure exactly if the store was told of one.
SuggestionIsSound(s) ==
    /\ s \in SuggestionRows
    /\ s.present => s.posted <= time /\ (s.state = "dismissed" => s.posted <= s.dismissed)
RunIsSound(row, run) ==
    /\ row \in RunRows /\ run \in Fates
    /\ run.fate = "none" => run.told /\ ~row.present
    /\ row.present => /\ run.fate = "active" => run.told
                      /\ row.status = "failed" <=> run.fate = "failed" /\ run.told

ViewInv ==
    /\ time \in Nat
    /\ mrTable \in [MRs -> MergeRows]
    /\ suggestionTable = [i \in SuggestionIds |-> suggestionTable[i]]
    /\ runTable = [r \in RunIds |-> runTable[r]] /\ runs = [r \in RunIds |-> runs[r]]
    /\ \A i \in SuggestionIds : SuggestionIsSound(suggestionTable[i])
    /\ \A r \in RunIds : RunIsSound(runTable[r], runs[r])

LEMMA ViewsStart == ViewInit => ViewInv
<1> SUFFICES ASSUME ViewInit PROVE ViewInv
  OBVIOUS
<1>1. Absent \in MergeRows /\ Absent \in SuggestionRows /\ Absent \in RunRows /\ ~Absent.present
  BY DEF Absent, MergeRows, SuggestionRows, RunRows
<1>2. [fate |-> "none", told |-> TRUE] \in Fates
  BY DEF Fates
<1> QED BY <1>1, <1>2 DEF ViewInit, ViewInv, SuggestionIsSound, RunIsSound

LEMMA RecordMRKeeps == ASSUME ViewInv, NEW m \in MRs, RecordMR(m) PROVE ViewInv'
<1>1. PICK author \in Authors, state \in {"updated", "merged"} :
        mrTable' = [mrTable EXCEPT ![m] =
            [present |-> TRUE, author |-> FirstAuthor(m, author), state |-> state, seen |-> time]]
  BY DEF RecordMR
<1>2. FirstAuthor(m, author) \in Authors
  <2>1. mrTable[m].present => mrTable[m].author \in Authors
    BY DEF ViewInv, MergeRows
  <2> QED BY <2>1 DEF FirstAuthor
<1>3. mrTable' \in [MRs -> MergeRows]
  <2> DEFINE row == [present |-> TRUE, author |-> FirstAuthor(m, author), state |-> state, seen |-> time]
  <2>1. row \in MergeRows
    BY <1>2 DEF ViewInv, MergeRows
  <2> HIDE DEF row
  <2>2. mrTable' = [mrTable EXCEPT ![m] = row]
    BY <1>1 DEF row
  <2> QED BY <2>1, <2>2 DEF ViewInv
<1> QED BY <1>3 DEF RecordMR, ViewInv, SuggestionIsSound

LEMMA RecordSuggestionKeeps == ASSUME ViewInv, NEW i \in SuggestionIds, RecordSuggestion(i) PROVE ViewInv'
<1>1. PICK m \in MRs, rules \in RuleLists, importance \in Importances :
        suggestionTable' = [suggestionTable EXCEPT ![i] =
            [present |-> TRUE, mr |-> m, rules |-> rules, importance |-> importance,
             state |-> "open", posted |-> time, dismissed |-> 0]]
  BY DEF RecordSuggestion
<1> DEFINE row == [present |-> TRUE, mr |-> m, rules |-> rules, importance |-> importance,
                   state |-> "open", posted |-> time, dismissed |-> 0]
<1>2. SuggestionIsSound(row)
  <2>1. row \in SuggestionRows
    BY DEF SuggestionRows, SuggestionStates, ViewInv
  <2>2. row.posted = time /\ row.state = "open" /\ time \in Nat
    BY DEF ViewInv
  <2> HIDE DEF row
  <2> QED BY <2>1, <2>2 DEF SuggestionIsSound
<1>3. suggestionTable' = [suggestionTable EXCEPT ![i] = row]
  BY <1>1
<1> HIDE DEF row
<1>4. \A j \in SuggestionIds : SuggestionIsSound(suggestionTable'[j])
  BY <1>2, <1>3 DEF ViewInv
<1> QED BY <1>3, <1>4 DEF RecordSuggestion, ViewInv, SuggestionIsSound

LEMMA UpdateSuggestionKeeps == ASSUME ViewInv, NEW i \in SuggestionIds, UpdateSuggestion(i) PROVE ViewInv'
<1>1. PICK t \in Transitions :
        suggestionTable' = [suggestionTable EXCEPT ![i].state = t[2],
                                    ![i].dismissed = IF t[2] = "dismissed" THEN time ELSE 0]
  BY DEF UpdateSuggestion
<1> DEFINE at == IF t[2] = "dismissed" THEN time ELSE 0
           row == [suggestionTable[i] EXCEPT !.state = t[2], !.dismissed = at]
<1>2. t[2] \in SuggestionStates /\ at \in Nat /\ (t[2] = "dismissed" => at = time)
  BY DEF Transitions, SuggestionStates, ViewInv
<1> HIDE DEF at
<1>3. suggestionTable[i] \in SuggestionRows /\ suggestionTable[i].present /\ suggestionTable[i].posted <= time
  BY DEF UpdateSuggestion, ViewInv, SuggestionIsSound
<1>4. row \in SuggestionRows /\ row.state = t[2] /\ row.dismissed = at /\ row.posted = suggestionTable[i].posted
  BY <1>2, <1>3 DEF SuggestionRows
<1>5. row.posted <= time
  BY <1>3, <1>4
<1>6. SuggestionIsSound(row)
  <2> HIDE DEF row
  <2> QED BY <1>2, <1>4, <1>5 DEF SuggestionIsSound
<1>7. suggestionTable' = [suggestionTable EXCEPT ![i] = row]
  BY <1>1 DEF at, ViewInv
<1> HIDE DEF row
<1>8. \A j \in SuggestionIds : SuggestionIsSound(suggestionTable'[j])
  BY <1>6, <1>7 DEF ViewInv
<1> QED BY <1>7, <1>8 DEF UpdateSuggestion, ViewInv, SuggestionIsSound

\* A step of one run.
LEMMA RunsKeep ==
    ASSUME ViewInv, NEW r \in RunIds, NEW row, NEW run, RunIsSound(row, run),
           runTable' = [runTable EXCEPT ![r] = row], runs' = [runs EXCEPT ![r] = run],
           UNCHANGED <<mrTable, suggestionTable, time>>
    PROVE  ViewInv'
<1>1. \A q \in RunIds : RunIsSound(runTable'[q], runs'[q])
  BY DEF ViewInv
<1> QED BY <1>1 DEF ViewInv, SuggestionIsSound, RunIsSound

LEMMA RecordStartKeeps == ASSUME ViewInv, NEW r \in RunIds, RecordStart(r) PROVE ViewInv'
<1>1. RunIsSound(runTable[r], runs[r]) /\ runs[r].fate = "none" /\ runs[r] \in Fates
  BY DEF RecordStart, ViewInv, RunIsSound
<1>2. ASSUME NEW told \in BOOLEAN, NEW run, run = [fate |-> "active", told |-> told]
      PROVE  RunIsSound(runTable[r], run)
  BY <1>1, <1>2 DEF RunIsSound, Fates
<1>3. ASSUME NEW m \in MRs, runs' = [runs EXCEPT ![r].fate = "active"],
             runTable' = [runTable EXCEPT ![r] =
                [present |-> TRUE, mr |-> m, status |-> "started", started |-> time]]
      PROVE  ViewInv'
  <2> DEFINE row == [present |-> TRUE, mr |-> m, status |-> "started", started |-> time]
             run == [runs[r] EXCEPT !.fate = "active"]
  <2>1. runs[r].told
    BY <1>1 DEF RunIsSound
  <2>2. run \in Fates /\ run.fate = "active" /\ run.told
    BY <1>1, <2>1 DEF Fates
  <2>3. RunIsSound(row, run)
    <3>1. row \in RunRows /\ row.present /\ row.status = "started"
      BY DEF RunRows, ViewInv
    <3> HIDE DEF row, run
    <3> QED BY <2>2, <3>1 DEF RunIsSound
  <2>4. runTable' = [runTable EXCEPT ![r] = row]
    BY <1>3
  <2>5. runs' = [runs EXCEPT ![r] = run]
    BY <1>3 DEF ViewInv
  <2> HIDE DEF row, run
  <2> QED BY <2>3, <2>4, <2>5, RunsKeep DEF RecordStart
<1>4. CASE runs' = [runs EXCEPT ![r] = [fate |-> "active", told |-> FALSE]] /\ UNCHANGED runTable
  <2> DEFINE run == [fate |-> "active", told |-> FALSE]
  <2>1. RunIsSound(runTable[r], run)
    BY <1>2
  <2>2. runTable' = [runTable EXCEPT ![r] = runTable[r]] /\ runs' = [runs EXCEPT ![r] = run]
    BY <1>4 DEF ViewInv
  <2> HIDE DEF run
  <2> QED BY <2>1, <2>2, RunsKeep DEF RecordStart
<1> QED BY <1>3, <1>4 DEF RecordStart

LEMMA RecordFinishKeeps == ASSUME ViewInv, NEW r \in RunIds, RecordFinish(r) PROVE ViewInv'
<1>1. RunIsSound(runTable[r], runs[r]) /\ runs[r].fate = "active"
  BY DEF RecordFinish, ViewInv
<1>2. runTable[r].present => runs[r].told /\ runTable[r].status # "failed"
  BY <1>1 DEF RunIsSound
<1>3. PICK fate \in {"success", "failed", "dead"} :
        \/ fate # "dead" /\ runTable' = Told(r, fate) /\ runs' = [runs EXCEPT ![r].fate = fate]
        \/ runs' = [runs EXCEPT ![r] = [fate |-> fate, told |-> FALSE]] /\ UNCHANGED runTable
  BY DEF RecordFinish
<1>4. CASE fate # "dead" /\ runTable' = Told(r, fate) /\ runs' = [runs EXCEPT ![r].fate = fate]
  <2> DEFINE row == IF runTable[r].present THEN [runTable[r] EXCEPT !.status = fate] ELSE runTable[r]
             run == [runs[r] EXCEPT !.fate = fate]
  <2>1. run \in Fates /\ run.fate = fate /\ run.told = runs[r].told
    BY <1>1 DEF RunIsSound, Fates
  <2>2. row \in RunRows /\ (row.present <=> runTable[r].present) /\ (row.present => row.status = fate)
    <3>1. CASE ~runTable[r].present
      BY <1>1, <3>1 DEF RunIsSound
    <3>2. CASE runTable[r].present
      <4> DEFINE new == [runTable[r] EXCEPT !.status = fate]
      <4>1. runTable[r] \in RunRows /\ runTable[r].present /\ fate \in {"started", "success", "failed"}
        BY <1>1, <1>4, <3>2 DEF RunIsSound
      <4>2. new \in RunRows /\ new.present /\ new.status = fate
        BY <4>1 DEF RunRows
      <4>3. row = new
        BY <3>2
      <4> HIDE DEF row, new
      <4> QED BY <3>2, <4>2, <4>3
    <3> QED BY <3>1, <3>2
  <2> HIDE DEF row, run
  <2>3. RunIsSound(row, run)
    BY <1>2, <1>4, <2>1, <2>2 DEF RunIsSound
  <2>4. runTable' = [runTable EXCEPT ![r] = row] /\ runs' = [runs EXCEPT ![r] = run]
    BY <1>4 DEF row, run, Told, ViewInv
  <2> QED BY <2>3, <2>4, RunsKeep DEF RecordFinish
<1>5. CASE runs' = [runs EXCEPT ![r] = [fate |-> fate, told |-> FALSE]] /\ UNCHANGED runTable
  <2> DEFINE run == [fate |-> fate, told |-> FALSE]
  <2>1. RunIsSound(runTable[r], run)
    BY <1>1, <1>2 DEF RunIsSound, Fates
  <2>2. runTable' = [runTable EXCEPT ![r] = runTable[r]] /\ runs' = [runs EXCEPT ![r] = run]
    BY <1>5 DEF ViewInv
  <2> HIDE DEF run
  <2> QED BY <2>1, <2>2, RunsKeep DEF RecordFinish
<1> QED BY <1>3, <1>4, <1>5

LEMMA NextViews == ViewInv /\ [ViewNext]_viewVars => ViewInv'
<1> SUFFICES ASSUME ViewInv, [ViewNext]_viewVars PROVE ViewInv'
  OBVIOUS
<1>1. CASE Pass
  <2>1. time' \in Nat /\ time' = time + 1
    BY <1>1 DEF Pass, ViewInv
  <2>2. \A i \in SuggestionIds : suggestionTable[i].present =>
            suggestionTable[i].posted \in Nat /\ suggestionTable[i].posted <= time
    BY DEF ViewInv, SuggestionIsSound, SuggestionRows
  <2>3. \A i \in SuggestionIds : SuggestionIsSound(suggestionTable[i])'
    BY <1>1, <2>1, <2>2 DEF Pass, ViewInv, SuggestionIsSound
  <2> QED BY <1>1, <2>1, <2>3 DEF Pass, ViewInv, RunIsSound
<1>2. CASE UNCHANGED viewVars
  BY <1>2 DEF viewVars, ViewInv, SuggestionIsSound, RunIsSound
<1> QED
  BY <1>1, <1>2, RecordMRKeeps, RecordSuggestionKeeps, UpdateSuggestionKeeps, RecordStartKeeps,
     RecordFinishKeeps DEF ViewNext

-----------------------------------------------------------------------------

Columns == SuggestionStates \cup {"total"}
InColumn(S, state) == {i \in S : state = "total" \/ suggestionTable[i].state = state}

LEMMA CountsOfColumns ==
    ASSUME NEW S, NEW state \in Columns
    PROVE  Counts(S)[state] = Cardinality(InColumn(S, state))
<1>1. CASE state = "total"
  <2>1. InColumn(S, state) = S
    BY <1>1 DEF InColumn
  <2> QED BY <1>1, <2>1 DEF Counts
<1>2. CASE state # "total"
  <2>1. InColumn(S, state) = {i \in S : suggestionTable[i].state = state}
    BY <1>2 DEF InColumn
  <2> QED BY <1>2, <2>1 DEF Counts, InState, Columns
<1> QED BY <1>1, <1>2

\* Suggestions grouped by what a function says of them, column by column.
LEMMA GroupsMakeTheColumn ==
    ASSUME NEW S \in SUBSET SuggestionIds, NEW state \in Columns, NEW K, NEW key \in [S -> K],
           NEW count, DOMAIN count = K, \A k \in K : count[k] = Counts({i \in S : key[i] = k})[state]
    PROVE  Total(count) = Counts(S)[state]
<1> DEFINE T == InColumn(S, state)
           keyOf == [i \in T |-> key[i]]
<1>1. IsFiniteSet(T)
  BY ViewBounds, FS_Subset DEF InColumn
<1>2. keyOf \in [T -> K]
  BY DEF InColumn
<1>3. ASSUME NEW k \in K
      PROVE  count[k] = Cardinality({i \in T : keyOf[i] = k})
  <2> DEFINE group == {i \in S : key[i] = k}
  <2>1. {i \in T : keyOf[i] = k} = InColumn(group, state)
    BY DEF InColumn
  <2>2. count[k] = Counts(group)[state]
    OBVIOUS
  <2> HIDE DEF T, keyOf, group
  <2>3. Counts(group)[state] = Cardinality(InColumn(group, state))
    BY CountsOfColumns
  <2> QED BY <2>1, <2>2, <2>3
<1> HIDE DEF T, keyOf
<1>4. Total(count) = Cardinality(T)
  BY <1>1, <1>2, <1>3, PartsMakeTheTotal
<1> QED BY <1>4, CountsOfColumns DEF T

LEMMA SmallerCounts ==
    ASSUME NEW S \in SUBSET SuggestionIds, NEW T \in SUBSET S, NEW state \in Columns
    PROVE  Counts(T)[state] <= Counts(S)[state]
<1>1. InColumn(T, state) \in SUBSET InColumn(S, state) /\ InColumn(S, state) \in SUBSET SuggestionIds
  BY DEF InColumn
<1>2. IsFiniteSet(InColumn(S, state))
  BY <1>1, ViewBounds, FS_Subset
<1> QED BY <1>1, <1>2, FS_Subset, CountsOfColumns

-----------------------------------------------------------------------------

LEMMA RowFields ==
    ASSUME ViewInv, NEW i \in SuggestionIds, suggestionTable[i].present
    PROVE  LET s == suggestionTable[i]
           IN  /\ s.mr \in MRs /\ s.rules \in RuleLists /\ s.rules \in Seq(STRING) /\ Keys(s) \subseteq RuleKeys
               /\ s.posted \in Nat /\ s.dismissed \in Nat /\ s.state \in SuggestionStates
               /\ s.posted <= time /\ (s.state = "dismissed" => s.posted <= s.dismissed)
<1>1. suggestionTable[i].mr \in MRs /\ suggestionTable[i].rules \in RuleLists
  BY DEF ViewInv, SuggestionIsSound, SuggestionRows
<1>2. Keys(suggestionTable[i]) \subseteq RuleKeys
  BY <1>1 DEF Keys, RuleKeys
<1> QED BY <1>1, <1>2, ViewBounds DEF ViewInv, SuggestionIsSound, SuggestionRows

LEMMA SeverityIsOne ==
    ASSUME ViewInv, NEW i \in SuggestionIds, suggestionTable[i].present, NEW files \in BOOLEAN
    PROVE  Severity(suggestionTable[i], files) \in Severities
<1> DEFINE s == suggestionTable[i]
<1>1. ByPattern(s) \in Severities
  BY DEF ByPattern, ByImportance, Severities
<1>2. ASSUME Named(s) # {}
      PROVE  RuleSeverities[FirstNamed(s)] \in Severities
  <2>1. Named(s) \in SUBSET Nat
    BY RowFields DEF Named
  <2>2. PICK k \in Named(s) : \A l \in Named(s) : k <= l
    BY <1>2, <2>1, LeastElement
  <2>3. FirstNamed(s) \in DOMAIN RuleSeverities
    BY <2>2 DEF FirstNamed, Named
  <2> QED BY <2>3, ViewBounds
<1> QED BY <1>1, <1>2 DEF Severity

LEMMA SeveritiesAddUp ==
    ASSUME ViewInv, NEW since, NEW files \in BOOLEAN, NEW state \in Columns
    PROVE  Total([sev \in Severities |-> SeverityBreakdown(since, files)[sev][state]]) = Counts(PostedSince(since))[state]
<1> DEFINE S == PostedSince(since)
           key == [i \in S |-> Severity(suggestionTable[i], files)]
           count == [sev \in Severities |-> SeverityBreakdown(since, files)[sev][state]]
<1>1. S \in SUBSET SuggestionIds
  BY DEF PostedSince
<1>2. key \in [S -> Severities]
  BY SeverityIsOne DEF PostedSince
<1>3. ASSUME NEW sev \in Severities
      PROVE  count[sev] = Counts({i \in S : key[i] = sev})[state]
  <2>1. {i \in S : key[i] = sev} = {i \in PostedSince(since) : Severity(suggestionTable[i], files) = sev}
    OBVIOUS
  <2>2. count[sev] = SeverityBreakdown(since, files)[sev][state]
    OBVIOUS
  <2> HIDE DEF S, key, count
  <2> QED BY <2>1, <2>2 DEF SeverityBreakdown
<1>4. DOMAIN count = Severities
  OBVIOUS
<1>5. Total(count) = Counts(S)[state]
  <2> HIDE DEF S, key, count
  <2> QED BY <1>1, <1>2, <1>3, <1>4, GroupsMakeTheColumn
<1> QED BY <1>5

ShownAuthors == {Shown(b) : b \in Authors}

LEMMA AuthorsAddUp ==
    ASSUME ViewInv, NEW since, NEW state \in Columns
    PROVE  LET authors == PerAuthor(since)
               orphans == {i \in PostedSince(since) : ~mrTable[suggestionTable[i].mr].present}
           IN  Total([a \in DOMAIN authors |-> authors[a].suggestions[state]]) + Counts(orphans)[state]
                   = Counts(PostedSince(since))[state]
<1> DEFINE all == PostedSince(since)
           S == {i \in all : mrTable[suggestionTable[i].mr].present}
           orphans == {i \in all : ~mrTable[suggestionTable[i].mr].present}
           key == [i \in S |-> AuthorOf(suggestionTable[i].mr)]
           count == [a \in DOMAIN PerAuthor(since) |-> PerAuthor(since)[a].suggestions[state]]
<1>1. all \in SUBSET SuggestionIds /\ S \in SUBSET SuggestionIds
  BY DEF PostedSince
<1>2. key \in [S -> ShownAuthors]
  <2> SUFFICES ASSUME NEW i \in S
               PROVE  AuthorOf(suggestionTable[i].mr) \in ShownAuthors
    OBVIOUS
  <2>1. suggestionTable[i].mr \in MRs
    BY RowFields DEF PostedSince
  <2>2. mrTable[suggestionTable[i].mr].author \in Authors
    BY <2>1 DEF ViewInv, MergeRows
  <2> QED BY <2>2 DEF AuthorOf, ShownAuthors
<1>3. DOMAIN count = ShownAuthors
  BY DEF PerAuthor, ShownAuthors
<1>4. ASSUME NEW a \in ShownAuthors
      PROVE  count[a] = Counts({i \in S : key[i] = a})[state]
  <2>1. {i \in S : key[i] = a} =
            {i \in PostedSince(since) : mrTable[suggestionTable[i].mr].present /\ AuthorOf(suggestionTable[i].mr) = a}
    OBVIOUS
  <2>2. count[a] = PerAuthor(since)[a].suggestions[state]
    BY <1>3
  <2> HIDE DEF S, key, count
  <2> QED BY <2>1, <2>2 DEF PerAuthor, ShownAuthors
<1>5. Total(count) = Counts(S)[state]
  <2> HIDE DEF S, key, count
  <2> QED BY <1>1, <1>2, <1>3, <1>4, GroupsMakeTheColumn
<1>6. Counts(S)[state] + Counts(orphans)[state] = Counts(all)[state]
  <2> DEFINE A == InColumn(S, state)
             B == InColumn(orphans, state)
  <2>1. InColumn(all, state) = A \cup B /\ A \cap B = {}
    BY DEF InColumn
  <2>2. A \in SUBSET SuggestionIds /\ B \in SUBSET SuggestionIds
    BY <1>1 DEF InColumn
  <2>3. Counts(S)[state] = Cardinality(A) /\ Counts(orphans)[state] = Cardinality(B)
           /\ Counts(all)[state] = Cardinality(A \cup B)
    <3> HIDE DEF S, orphans, all
    <3> QED BY <2>1, CountsOfColumns
  <2> HIDE DEF A, B, S, orphans, all
  <2>4. IsFiniteSet(A) /\ IsFiniteSet(B)
    BY <2>2, ViewBounds, FS_Subset
  <2>5. Cardinality(A \cup B) = Cardinality(A) + Cardinality(B) - 0
    BY <2>1, <2>4, FS_Union, FS_EmptySet
  <2>6. Cardinality(A) \in Nat /\ Cardinality(B) \in Nat
    BY <2>4, FS_CardinalityType
  <2> QED BY <2>3, <2>5, <2>6
<1> QED BY <1>5, <1>6

LEMMA MergeRequestsAddUp ==
    ASSUME ViewInv, NEW state \in Columns
    PROVE  Total([m \in MRs |-> MRStats(m)[state]]) = Counts(PostedSince(0))[state]
<1> DEFINE S == PostedSince(0)
           key == [i \in S |-> suggestionTable[i].mr]
           count == [m \in MRs |-> MRStats(m)[state]]
<1>1. S \in SUBSET SuggestionIds /\ S = AllOf
  BY RowFields DEF PostedSince, AllOf
<1>2. key \in [S -> MRs]
  BY RowFields DEF PostedSince
<1>3. ASSUME NEW m \in MRs
      PROVE  count[m] = Counts({i \in S : key[i] = m})[state]
  <2>1. {i \in S : key[i] = m} = {i \in SuggestionIds : suggestionTable[i].present /\ suggestionTable[i].mr = m}
    BY <1>1 DEF AllOf
  <2>2. count[m] = MRStats(m)[state]
    OBVIOUS
  <2> HIDE DEF S, key, count
  <2> QED BY <2>1, <2>2 DEF MRStats
<1>4. DOMAIN count = MRs
  OBVIOUS
<1>5. Total(count) = Counts(S)[state]
  <2> HIDE DEF S, key, count
  <2> QED BY <1>1, <1>2, <1>3, <1>4, GroupsMakeTheColumn
<1> QED BY <1>5

LEMMA AuthorsHaveTheMergeRequests ==
    ASSUME ViewInv, NEW since
    PROVE  LET authors == PerAuthor(since)
           IN  Total([a \in DOMAIN authors |-> authors[a].mrs]) = Overview(since).mrs
<1> DEFINE S == SeenSince(since)
           key == [m \in S |-> AuthorOf(m)]
           count == [a \in DOMAIN PerAuthor(since) |-> PerAuthor(since)[a].mrs]
<1>1. IsFiniteSet(S)
  BY ViewBounds, FS_Subset DEF SeenSince
<1>2. key \in [S -> ShownAuthors]
  <2> SUFFICES ASSUME NEW m \in S
               PROVE  AuthorOf(m) \in ShownAuthors
    OBVIOUS
  <2>1. mrTable[m].author \in Authors
    BY DEF ViewInv, MergeRows, SeenSince
  <2> QED BY <2>1 DEF AuthorOf, ShownAuthors
<1>3. DOMAIN count = ShownAuthors
  BY DEF PerAuthor, ShownAuthors
<1>4. ASSUME NEW a \in ShownAuthors
      PROVE  count[a] = Cardinality({m \in S : key[m] = a})
  <2>1. {m \in S : key[m] = a} = {m \in SeenSince(since) : AuthorOf(m) = a}
    OBVIOUS
  <2>2. count[a] = PerAuthor(since)[a].mrs
    BY <1>3
  <2> HIDE DEF S, key, count
  <2> QED BY <2>1, <2>2 DEF PerAuthor, ShownAuthors
<1>5. Total(count) = Cardinality(S)
  <2> HIDE DEF S, key, count
  <2> QED BY <1>1, <1>2, <1>3, <1>4, PartsMakeTheTotal
<1> QED BY <1>5 DEF Overview

\* The rules that suggestions cite are finitely many, however many there may be.
LEMMA CitedRulesAreFinite ==
    ASSUME ViewInv
    PROVE  IsFiniteSet(UNION {Keys(suggestionTable[i]) : i \in AllOf})
<1> DEFINE cited == [i \in AllOf |-> Keys(suggestionTable[i])]
<1>1. ASSUME NEW i \in AllOf
      PROVE  IsFiniteSet(Keys(suggestionTable[i]))
  <2> DEFINE rules == suggestionTable[i].rules
  <2>1. rules \in Seq(STRING)
    BY RowFields DEF AllOf
  <2>2. DOMAIN rules = 1..Len(rules) /\ Len(rules) \in Nat /\ rules \in [DOMAIN rules -> STRING]
    BY <2>1
  <2> HIDE DEF rules
  <2>3. IsFiniteSet(DOMAIN rules)
    <3>1. 1 \in Int /\ Len(rules) \in Int
      BY <2>2
    <3> QED BY <2>2, <3>1, FS_Interval
  <2>4. IsFiniteSet({rules[k] : k \in DOMAIN rules})
    BY <2>2, <2>3, ImageIsFinite
  <2> QED BY <2>4 DEF Keys, rules
<1>2. IsFiniteSet(AllOf)
  BY ViewBounds, FS_Subset DEF AllOf
<1>3. DOMAIN cited = AllOf /\ cited \in [AllOf -> {Keys(suggestionTable[i]) : i \in AllOf}]
  OBVIOUS
<1>4. IsFiniteSet({cited[i] : i \in AllOf})
  <2> HIDE DEF cited
  <2> QED BY <1>2, <1>3, ImageIsFinite
<1>5. {cited[i] : i \in AllOf} = {Keys(suggestionTable[i]) : i \in AllOf}
  OBVIOUS
<1>6. \A T \in {Keys(suggestionTable[i]) : i \in AllOf} : IsFiniteSet(T)
  BY <1>1
<1> QED BY <1>4, <1>5, <1>6, FS_UNION

LEMMA RulesCoverDismissals ==
    ASSUME ViewInv, NEW since \in Nat
    PROVE  Total(DismissalsByRule(since)) >= Counts(PostedSince(since))["dismissed"]
<1> DEFINE dismissed == {i \in AllOf : suggestionTable[i].state = "dismissed" /\ suggestionTable[i].dismissed >= since}
           S == InColumn(PostedSince(since), "dismissed")
           K == RuleKeys \cup {Unruled}
           count == DismissalsByRule(since)
           key == [i \in S |-> IF Keys(suggestionTable[i]) = {} THEN Unruled ELSE CHOOSE k \in Keys(suggestionTable[i]) : TRUE]
           citing(k) == {i \in dismissed : k \in Keys(suggestionTable[i])}
           unruled == {i \in dismissed : Keys(suggestionTable[i]) = {}}
<1>1. S \in SUBSET dismissed /\ dismissed \in SUBSET SuggestionIds
  <2> SUFFICES ASSUME NEW i \in S
               PROVE  i \in AllOf /\ suggestionTable[i].state = "dismissed" /\ suggestionTable[i].dismissed >= since
    BY DEF AllOf
  <2>1. i \in SuggestionIds /\ suggestionTable[i].present /\ suggestionTable[i].posted >= since
            /\ suggestionTable[i].state = "dismissed"
    BY DEF InColumn, PostedSince
  <2>2. suggestionTable[i].posted \in Nat /\ suggestionTable[i].dismissed \in Nat
            /\ suggestionTable[i].posted <= suggestionTable[i].dismissed
    BY <2>1, RowFields
  <2> QED BY <2>1, <2>2 DEF AllOf
<1>2. IsFiniteSet(dismissed) /\ IsFiniteSet(S)
  BY <1>1, ViewBounds, FS_Subset
<1>3. ASSUME NEW i \in S
      PROVE  Keys(suggestionTable[i]) \subseteq RuleKeys
  BY <1>1, RowFields DEF AllOf
<1>4. key \in [S -> K]
  BY <1>3
<1>5. DOMAIN count = K /\ \A k \in K : count[k] = IF k \in RuleKeys THEN Cardinality(citing(k)) ELSE Cardinality(unruled)
  BY DEF DismissalsByRule
<1>6. \A k \in K : citing(k) \in SUBSET dismissed
  OBVIOUS
<1>7. unruled \in SUBSET dismissed
  OBVIOUS
<1>8. ASSUME NEW k \in K
      PROVE  /\ count[k] \in Nat
             /\ Cardinality({i \in S : key[i] = k}) <= count[k]
             /\ count[k] # 0 => k \in {Unruled} \cup UNION {Keys(suggestionTable[i]) : i \in AllOf}
  <2> DEFINE own == {i \in S : key[i] = k}
  <2>1. CASE k \in RuleKeys
    <3>1. own \in SUBSET citing(k)
      <4> SUFFICES ASSUME NEW i \in own
                   PROVE  i \in dismissed /\ k \in Keys(suggestionTable[i])
        OBVIOUS
      <4>1. i \in S /\ key[i] = k
        OBVIOUS
      <4>2. Keys(suggestionTable[i]) # {}
        BY <2>1, <4>1, ViewBounds
      <4> QED BY <1>1, <4>1, <4>2
    <3>2. count[k] = Cardinality(citing(k))
      BY <1>5, <2>1
    <3>3. IsFiniteSet(citing(k))
      BY <1>2, <1>6, FS_Subset
    <3>4. citing(k) = {} \/ k \in UNION {Keys(suggestionTable[i]) : i \in AllOf}
      OBVIOUS
    <3> DEFINE these == citing(k)
    <3> HIDE DEF own, these, count
    <3>5. Cardinality(own) <= Cardinality(these) /\ Cardinality(these) \in Nat
      BY <3>1, <3>3, FS_Subset, FS_CardinalityType DEF these
    <3>6. these = {} => Cardinality(these) = 0
      BY FS_EmptySet
    <3> QED BY <3>2, <3>4, <3>5, <3>6 DEF own, these
  <2>2. CASE k \notin RuleKeys
    <3>1. k = Unruled
      BY <2>2
    <3>2. own \in SUBSET unruled
      <4> SUFFICES ASSUME NEW i \in own
                   PROVE  i \in dismissed /\ Keys(suggestionTable[i]) = {}
        OBVIOUS
      <4>1. i \in S /\ key[i] = k
        OBVIOUS
      <4>2. Keys(suggestionTable[i]) # {} => key[i] \in RuleKeys
        BY <1>3, <4>1
      <4> QED BY <1>1, <2>2, <4>1, <4>2
    <3>3. count[k] = Cardinality(unruled)
      BY <1>5, <2>2
    <3>4. IsFiniteSet(unruled)
      BY <1>2, <1>7, FS_Subset
    <3> HIDE DEF own, unruled, count
    <3>5. Cardinality(own) <= Cardinality(unruled) /\ Cardinality(unruled) \in Nat
      BY <3>2, <3>4, FS_Subset, FS_CardinalityType
    <3> QED BY <3>1, <3>3, <3>5 DEF own
  <2> QED BY <2>1, <2>2
<1>9. IsFiniteSet({k \in K : count[k] # 0})
  <2> DEFINE cited == UNION {Keys(suggestionTable[i]) : i \in AllOf}
  <2>1. IsFiniteSet(cited \cup {Unruled})
    BY CitedRulesAreFinite, FS_AddElement
  <2>2. {k \in K : count[k] # 0} \in SUBSET (cited \cup {Unruled})
    BY <1>8
  <2> HIDE DEF cited, count
  <2> QED BY <2>1, <2>2, FS_Subset
<1>10. count \in [K -> Nat]
  <2>1. count = [k \in K |-> count[k]]
    BY DEF DismissalsByRule
  <2> HIDE DEF count, K
  <2> QED BY <1>8, <2>1
<1>11. Total(count) >= Cardinality(S)
  <2> HIDE DEF S, K, key, count
  <2> QED BY <1>2, <1>4, <1>8, <1>9, <1>10, LargerCountsTotalMore
<1>12. Counts(PostedSince(since))["dismissed"] = Cardinality(S)
  BY CountsOfColumns DEF Columns, SuggestionStates
<1> QED BY <1>11, <1>12

-----------------------------------------------------------------------------

LEMMA InvAgrees == ViewInv => ViewsAgree
<1> SUFFICES ASSUME ViewInv, NEW since \in Windows
             PROVE  LET o == Overview(since).suggestions
                        orphans == {i \in PostedSince(since) : ~mrTable[suggestionTable[i].mr].present}
                        authors == PerAuthor(since)
                    IN  /\ \A state \in DOMAIN o :
                            /\ \A files \in BOOLEAN :
                                Total([sev \in Severities |-> SeverityBreakdown(since, files)[sev][state]]) = o[state]
                            /\ Total([a \in DOMAIN authors |-> authors[a].suggestions[state]]) + Counts(orphans)[state] = o[state]
                            /\ \A key \in RuleKeys : PerRule(since)[key][state] <= o[state]
                            /\ since = 0 => Total([m \in MRs |-> MRStats(m)[state]]) = o[state]
                        /\ Total(DismissalsByRule(since)) >= o["dismissed"]
                        /\ Total([a \in DOMAIN authors |-> authors[a].mrs]) = Overview(since).mrs
  BY DEF ViewsAgree
<1> DEFINE o == Overview(since).suggestions
           orphans == {i \in PostedSince(since) : ~mrTable[suggestionTable[i].mr].present}
           authors == PerAuthor(since)
<1>1. o = Counts(PostedSince(since)) /\ DOMAIN o = Columns
  BY DEF Overview, Counts, Columns
<1>2. since \in Nat
  <2>1. \A i \in AllOf : suggestionTable[i].posted \in Nat
    BY RowFields DEF AllOf
  <2>2. \A m \in SeenSince(0) : mrTable[m].seen \in Nat
    BY DEF SeenSince, ViewInv, MergeRows
  <2>3. \A r \in RunsSince(0) : runTable[r].started \in Nat
    BY DEF RunsSince, ViewInv, RunIsSound, RunRows
  <2> QED BY <2>1, <2>2, <2>3 DEF Windows
<1>3. ASSUME NEW state \in Columns, NEW key \in RuleKeys
      PROVE  PerRule(since)[key][state] <= Counts(PostedSince(since))[state]
  <2> DEFINE citing == {i \in PostedSince(since) : key \in Keys(suggestionTable[i])}
  <2>1. PostedSince(since) \in SUBSET SuggestionIds /\ citing \in SUBSET PostedSince(since)
    BY DEF PostedSince
  <2>2. PerRule(since)[key] = Counts(citing)
    BY DEF PerRule
  <2> HIDE DEF citing
  <2> QED BY <2>1, <2>2, SmallerCounts
<1>4. ASSUME NEW state \in DOMAIN o
      PROVE  /\ \A files \in BOOLEAN :
                    Total([sev \in Severities |-> SeverityBreakdown(since, files)[sev][state]]) = o[state]
             /\ Total([a \in DOMAIN authors |-> authors[a].suggestions[state]]) + Counts(orphans)[state] = o[state]
             /\ \A key \in RuleKeys : PerRule(since)[key][state] <= o[state]
             /\ since = 0 => Total([m \in MRs |-> MRStats(m)[state]]) = o[state]
  <2>1. state \in Columns /\ o[state] = Counts(PostedSince(since))[state]
    BY <1>1
  <2>2. \A files \in BOOLEAN :
            Total([sev \in Severities |-> SeverityBreakdown(since, files)[sev][state]]) = o[state]
    BY <2>1, SeveritiesAddUp
  <2>3. Total([a \in DOMAIN authors |-> authors[a].suggestions[state]]) + Counts(orphans)[state] = o[state]
    BY <2>1, AuthorsAddUp
  <2>4. since = 0 => Total([m \in MRs |-> MRStats(m)[state]]) = o[state]
    BY <2>1, MergeRequestsAddUp
  <2> QED BY <1>3, <2>1, <2>2, <2>3, <2>4
<1>5. Total(DismissalsByRule(since)) >= o["dismissed"]
  BY <1>1, <1>2, RulesCoverDismissals
<1>6. Total([a \in DOMAIN authors |-> authors[a].mrs]) = Overview(since).mrs
  BY AuthorsHaveTheMergeRequests
<1> HIDE DEF o, orphans, authors
<1> QED BY <1>4, <1>5, <1>6 DEF o, orphans, authors

LEMMA InvShowsFailures == ViewInv => FailuresAreShown
<1> SUFFICES ASSUME ViewInv, NEW since
             PROVE  Overview(since).failed = Cardinality({r \in RunsSince(since) : runs[r].fate = "failed" /\ runs[r].told})
  BY DEF FailuresAreShown
<1>1. {r \in RunsSince(since) : runTable[r].status = "failed"} =
          {r \in RunsSince(since) : runs[r].fate = "failed" /\ runs[r].told}
  BY DEF RunsSince, ViewInv, RunIsSound
<1> QED BY <1>1 DEF Overview, FailedIn

\* For any tables, and any rules, authors and severities: the views count the same
\* suggestions and merge requests, and a run is shown as failed exactly if it failed and
\* the store was told.
THEOREM DashboardStaysTrue == ViewSpec => []DashboardIsTrue
<1>1. ViewInit => ViewInv
  BY ViewsStart
<1>2. ViewInv /\ [ViewNext]_viewVars => ViewInv'
  BY NextViews
<1>3. ViewInv => DashboardIsTrue
  BY InvAgrees, InvShowsFailures DEF DashboardIsTrue
<1>4. QED
  BY <1>1, <1>2, <1>3, PTL DEF ViewSpec

\* A row of a suggestion has a state and was posted in the past, and a row of a run a
\* status, and only if the run was started.
THEOREM ViewTypesHold == ViewSpec => []ViewTypeOK
<1>1. ViewInit => ViewInv
  BY ViewsStart
<1>2. ViewInv /\ [ViewNext]_viewVars => ViewInv'
  BY NextViews
<1>3. ViewInv => ViewTypeOK
  BY DEF ViewInv, SuggestionIsSound, SuggestionRows, RunIsSound, RunRows, ViewTypeOK
<1>4. QED
  BY <1>1, <1>2, <1>3, PTL DEF ViewSpec
=============================================================================
