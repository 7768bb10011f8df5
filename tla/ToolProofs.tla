------------------------------ MODULE ToolProofs ------------------------------
(* What the tools leave of each other's work, for any number of overlapping requests,
   commands, people's edits and failing calls; and whose settings they run under, for any
   number of hooks and repositories, any files, environment and arguments. *)
EXTENDS ToolRuns, RequestSettings, FiniteSetTheorems, SequenceTheorems, WellFoundedInduction, TLAPS

PlaceFields == DOMAIN Resting
NoteFields == {"kind", "by", "n"}
Working(r) == requests[r].pc = "asking"

\* A file is the newest one unless somebody has committed since it was read.
FileInv ==
    /\ pushes \in Nat
    /\ changelog \in Seq(0..pushes)
    /\ \A r \in Requests : requests[r].file \in Seq(0..pushes) /\ requests[r].seen \in 0..pushes
    /\ \A r \in Requests : Working(r) /\ ~requests[r].unread /\ requests[r].seen = pushes
            => requests[r].file = changelog

\* Comments: what is on show, and whose progress.
NotesInv ==
    /\ reviews \in Nat /\ toolFaults \in Nat
    /\ \A n \in mrNotes : DOMAIN n = NoteFields /\ n.kind \in {"progress", "reply", "review"}
    /\ \A n \in ReviewNotes : n.by \in 1..reviews /\ n.n \in 1..reviews
    /\ IsFiniteSet(ReviewNotes)
    /\ ReviewIsCurrent
ProgressInv ==
    \A r \in Requests : requests[r].pc = "idle" \/ (requests[r].pc = "next" /\ requests[r].fine) =>
        \A n \in mrNotes : n.kind = "progress" => n.by # r
PlacesInv ==
    /\ DOMAIN requests = Requests
    /\ \A r \in Requests : DOMAIN requests[r] = PlaceFields /\ requests[r].pc \in {"idle", "next", "asking"}

-----------------------------------------------------------------------------
(* What a step does to its request. *)

\* A step of one request is told by the place that it changes.
OthersRest(r) == \A q \in Requests \ {r} : requests'[q] = requests[q]

LEMMA Fields ==
    PlaceFields = {"pc", "todo", "text", "user", "labels", "dirty", "file", "seen", "unread", "fine"}
BY DEF PlaceFields, Resting

\* An answer ends its command, whatever it wrote, and leaves the changelog as it was read.
Ended(r, p) ==
    /\ OthersRest(r) /\ DOMAIN requests' = Requests
    /\ DOMAIN requests'[r] = PlaceFields /\ requests'[r].pc = "next"
    /\ requests'[r].file = p.file /\ requests'[r].seen = p.seen /\ requests'[r].fine = p.fine

LEMMA CommandEnds ==
    ASSUME PlacesInv, NEW r \in Requests, NEW p, DOMAIN p = PlaceFields, EndCommand(r, p)
    PROVE  Ended(r, p)
BY Fields DEF EndCommand, Ended, OthersRest, PlacesInv

LEMMA SavedKeeps ==
    ASSUME NEW p, DOMAIN p = PlaceFields, NEW text, NEW labels
    PROVE  /\ DOMAIN Saved(p, text, labels) = PlaceFields
           /\ Saved(p, text, labels).file = p.file /\ Saved(p, text, labels).seen = p.seen
           /\ Saved(p, text, labels).fine = p.fine
BY Fields DEF Saved

LEMMA WriteEnds ==
    ASSUME PlacesInv, NEW r \in Requests, NEW new, WriteLabels(r, requests[r], new)
    PROVE  Ended(r, requests[r])
<1>1. DOMAIN requests[r] = PlaceFields
  BY DEF PlacesInv
<1>2. PICK p : p = Saved(requests[r], mrText', new)
  OBVIOUS
<1>3. EndCommand(r, p)
  BY <1>2 DEF WriteLabels
<1>4. /\ DOMAIN p = PlaceFields
      /\ p.file = requests[r].file /\ p.seen = requests[r].seen /\ p.fine = requests[r].fine
  BY <1>1, <1>2, SavedKeeps
<1>5. QED
  BY <1>3, <1>4, CommandEnds DEF Ended

LEMMA DescribeEnds ==
    ASSUME PlacesInv, NEW r \in Requests, NEW answer, DescribeMR(r, answer)
    PROVE  Ended(r, requests[r])
<1>1. DOMAIN requests[r] = PlaceFields
  BY DEF PlacesInv
<1>2. PICK text, labels : EndCommand(r, Saved(requests[r], text, labels))
                        \/ EndCommand(r, [requests[r] EXCEPT !.text = text, !.dirty = TRUE, !.labels = labels])
  BY DEF DescribeMR
<1>3. PICK p : /\ EndCommand(r, p)
               /\ p = Saved(requests[r], text, labels)
                  \/ p = [requests[r] EXCEPT !.text = text, !.dirty = TRUE, !.labels = labels]
  BY <1>2
<1>4. /\ DOMAIN p = PlaceFields
      /\ p.file = requests[r].file /\ p.seen = requests[r].seen /\ p.fine = requests[r].fine
  <2>1. CASE p = Saved(requests[r], text, labels)
    BY <1>1, <2>1, SavedKeeps
  <2>2. CASE p = [requests[r] EXCEPT !.text = text, !.dirty = TRUE, !.labels = labels]
    BY <1>1, <2>2, Fields
  <2>3. QED
    BY <1>3, <2>1, <2>2
<1>5. QED
  BY <1>3, <1>4, CommandEnds DEF Ended

LEMMA AnswerEnds ==
    ASSUME PlacesInv, NEW r \in Requests, AnswerCommand(r)
    PROVE  Ended(r, requests[r])
<1>1. DOMAIN requests[r] = PlaceFields
  BY DEF PlacesInv
<1>2. EndCommand(r, requests[r]) => Ended(r, requests[r])
  BY <1>1, CommandEnds
<1>3. CASE ReviewMR(r)
  BY <1>2, <1>3, WriteEnds DEF ReviewMR, NoWrite
<1>4. CASE UpdateChangelog(r) \/ Reply(r)
  BY <1>2, <1>4 DEF UpdateChangelog, Reply
<1>5. ASSUME NEW answer, DescribeMR(r, answer)
      PROVE  Ended(r, requests[r])
  BY <1>5, DescribeEnds
<1>6. ASSUME NEW answer, GenerateLabels(r, answer)
      PROVE  Ended(r, requests[r])
  BY <1>6, WriteEnds DEF GenerateLabels
<1>7. QED
  BY <1>3, <1>4, <1>5, <1>6 DEF AnswerCommand

\* The other steps of a request, and the steps of people.
LEMMA ReceiveStarts ==
    ASSUME PlacesInv, NEW r \in Requests, ReceiveRequest(r)
    PROVE  /\ OthersRest(r) /\ DOMAIN requests' = Requests /\ DOMAIN requests'[r] = PlaceFields
           /\ requests[r].pc = "idle" /\ requests'[r].pc = "next"
           /\ requests'[r].file = <<>> /\ requests'[r].seen = 0
<1>1. PICK commands : requests' = [requests EXCEPT ![r] = [Resting EXCEPT !.pc = "next", !.todo = commands,
                                                              !.text = mrText, !.labels = mrLabels]]
  BY DEF ReceiveRequest
<1>2. PICK p : p = [Resting EXCEPT !.pc = "next", !.todo = commands, !.text = mrText, !.labels = mrLabels]
  OBVIOUS
<1>3. DOMAIN p = PlaceFields /\ p.pc = "next" /\ p.file = <<>> /\ p.seen = 0
  BY <1>2 DEF Resting, PlaceFields
<1>4. requests' = [requests EXCEPT ![r] = p]
  BY <1>1, <1>2
<1>5. QED
  BY <1>3, <1>4 DEF ReceiveRequest, OthersRest, PlacesInv

LEMMA StartReads ==
    ASSUME PlacesInv, NEW r \in Requests, StartCommand(r)
    PROVE  /\ OthersRest(r) /\ DOMAIN requests' = Requests /\ DOMAIN requests'[r] = PlaceFields
           /\ requests[r].pc = "next" /\ requests'[r].pc = "asking"
           /\ \/ requests'[r].file = changelog /\ requests'[r].seen = pushes
              \/ requests'[r].file = <<>> /\ requests'[r].unread /\ requests'[r].seen = requests[r].seen
<1>1. DOMAIN requests = Requests /\ DOMAIN requests[r] = PlaceFields
  BY DEF PlacesInv
<1>2. PICK p : /\ requests' = [requests EXCEPT ![r] = p]
               /\ \/ \E user : p = [requests[r] EXCEPT !.pc = "asking", !.user = user, !.file = changelog,
                                                        !.seen = pushes, !.unread = FALSE]
                  \/ p = [requests[r] EXCEPT !.pc = "asking", !.file = <<>>, !.unread = TRUE]
  <2>1. CASE requests' = [requests EXCEPT ![r] = [requests[r] EXCEPT !.pc = "asking",
                            !.user = IF Command(r) = "describe" THEN Remembered(requests[r]) ELSE @,
                            !.file = changelog, !.seen = pushes, !.unread = FALSE]]
    BY <2>1
  <2>2. CASE requests' = [requests EXCEPT ![r] = [requests[r] EXCEPT !.pc = "asking", !.file = <<>>, !.unread = TRUE]]
    BY <2>2
  <2>3. QED
    BY <2>1, <2>2 DEF StartCommand
<1>3. CASE p = [requests[r] EXCEPT !.pc = "asking", !.file = <<>>, !.unread = TRUE]
  <2>1. PICK file, unread : file = <<>> /\ unread = TRUE
    OBVIOUS
  <2>2. p = [requests[r] EXCEPT !.pc = "asking", !.file = file, !.unread = unread]
    BY <1>3, <2>1
  <2>3. DOMAIN p = PlaceFields /\ p.pc = "asking" /\ p.file = file /\ p.unread = unread /\ p.seen = requests[r].seen
    BY <1>1, <2>2, Fields
  <2>4. QED
    BY <1>1, <1>2, <2>1, <2>3 DEF StartCommand, OthersRest
<1>4. ASSUME NEW user, p = [requests[r] EXCEPT !.pc = "asking", !.user = user, !.file = changelog,
                                              !.seen = pushes, !.unread = FALSE]
      PROVE  DOMAIN p = PlaceFields /\ p.pc = "asking" /\ p.file = changelog /\ p.seen = pushes
  BY <1>1, <1>4, Fields
<1>5. QED
  BY <1>1, <1>2, <1>3, <1>4 DEF StartCommand, OthersRest

LEMMA NoAnswerEnds ==
    ASSUME PlacesInv, NEW r \in Requests, NoAnswer(r)
    PROVE  /\ OthersRest(r) /\ DOMAIN requests' = Requests /\ DOMAIN requests'[r] = PlaceFields
           /\ requests'[r].pc = "next" /\ ~requests'[r].fine
           /\ requests'[r].file = requests[r].file /\ requests'[r].seen = requests[r].seen
<1>1. DOMAIN requests[r] = PlaceFields
  BY DEF PlacesInv
<1>2. PICK p : p = [requests[r] EXCEPT !.fine = FALSE]
  OBVIOUS
<1>3. DOMAIN p = PlaceFields /\ ~p.fine /\ p.file = requests[r].file /\ p.seen = requests[r].seen
  BY <1>1, <1>2, Fields
<1>4. EndCommand(r, p)
  BY <1>2 DEF NoAnswer
<1>5. QED
  BY <1>3, <1>4, CommandEnds DEF Ended

LEMMA ToolStarts ==
    ASSUME ToolInit
    PROVE  PlacesInv /\ FileInv /\ NotesInv /\ ProgressInv
<1>1. \A r \in Requests : requests[r] = Resting
  BY DEF ToolInit
<1>2. Resting.pc = "idle" /\ Resting.file = <<>> /\ Resting.seen = 0
  BY DEF Resting
<1>3. PlacesInv
  BY <1>1, <1>2 DEF ToolInit, PlacesInv, PlaceFields
<1>4. FileInv
  <2>1. <<0>> \in Seq(0..0) /\ <<>> \in Seq(0..0) /\ 0 \in 0..0
    OBVIOUS
  <2>2. pushes = 0 /\ changelog = <<0>>
    BY DEF ToolInit
  <2>3. \A r \in Requests : requests[r].file \in Seq(0..0) /\ requests[r].seen \in 0..0 /\ ~Working(r)
    BY <1>1, <1>2, <2>1 DEF Working
  <2>4. QED
    BY <2>1, <2>2, <2>3 DEF FileInv
<1>5. ReviewNotes = {} /\ mrNotes = {} /\ reviews = 0 /\ toolFaults = 0
  BY DEF ToolInit, ReviewNotes
<1>6. NotesInv /\ ProgressInv
  BY <1>5, FS_EmptySet DEF NotesInv, ReviewIsCurrent, ProgressInv
<1>7. QED
  BY <1>3, <1>4, <1>6

LEMMA NextPlaces ==
    ASSUME PlacesInv, [ToolNext]_toolVars
    PROVE  PlacesInv'
<1>1. CASE UNCHANGED requests
  BY <1>1 DEF PlacesInv
<1>2. ASSUME NEW r \in Requests, ReceiveRequest(r) \/ StartCommand(r) \/ AnswerCommand(r) \/ NoAnswer(r)
      PROVE  PlacesInv'
  <2>1. /\ OthersRest(r) /\ DOMAIN requests' = Requests /\ DOMAIN requests'[r] = PlaceFields
        /\ requests'[r].pc \in {"next", "asking"}
    BY <1>2, ReceiveStarts, StartReads, AnswerEnds, NoAnswerEnds DEF Ended
  <2>2. QED
    BY <2>1 DEF PlacesInv, OthersRest
<1>3. QED
  BY <1>1, <1>2 DEF ToolNext, WriteText, AddLabel, CommitEntry, PersonActs, toolVars

-----------------------------------------------------------------------------
(* The changelog. *)

LEMMA OneEntryMore ==
    ASSUME NEW n \in Nat, NEW file \in Seq(0..n)
    PROVE  /\ <<n + 1>> \o file \in Seq(0..(n + 1))
           /\ \A i \in DOMAIN file : (<<n + 1>> \o file)[i + 1] = file[i] /\ i + 1 \in DOMAIN (<<n + 1>> \o file)
<1>1. file \in Seq(0..(n + 1)) /\ <<n + 1>> \in Seq(0..(n + 1))
  OBVIOUS
<1>2. QED
  BY <1>1, SMTT(30)

\* What happens to the file at each step.
Commits == pushes' = pushes + 1 /\ changelog' = <<pushes + 1>> \o changelog
Rewrites(r) == /\ requests[r].pc = "asking" /\ requests'[r].pc = "next"
               /\ pushes' = pushes + 1 /\ changelog' = <<pushes + 1>> \o requests[r].file

LEMMA FileSteps ==
    ASSUME [ToolNext]_toolVars, PlacesInv
    PROVE  \/ UNCHANGED <<changelog, pushes>>
           \/ Commits /\ UNCHANGED requests
           \/ \E r \in Requests : Rewrites(r) /\ AnswerCommand(r)
<1>1. ASSUME NEW r \in Requests, AnswerCommand(r), ~UpdateChangelog(r)
      PROVE  UNCHANGED <<changelog, pushes>>
  BY <1>1 DEF AnswerCommand, DescribeMR, GenerateLabels, ReviewMR, Reply
<1>2. ASSUME NEW r \in Requests, AnswerCommand(r), UpdateChangelog(r)
      PROVE  Rewrites(r)
  BY <1>2, AnswerEnds DEF AnswerCommand, UpdateChangelog, NewFile, Rewrites, Ended
<1>3. CASE CommitEntry
  BY <1>3 DEF CommitEntry, PersonActs, Commits
<1>4. CASE WriteText \/ AddLabel \/ UNCHANGED toolVars
  BY <1>4 DEF WriteText, AddLabel, toolVars
<1>5. ASSUME NEW r \in Requests, ReceiveRequest(r) \/ StartCommand(r) \/ NoAnswer(r)
      PROVE  UNCHANGED <<changelog, pushes>>
  BY <1>5 DEF ReceiveRequest, StartCommand, NoAnswer
<1>6. QED
  BY <1>1, <1>2, <1>3, <1>4, <1>5 DEF ToolNext

LEMMA NextFile ==
    ASSUME PlacesInv, FileInv, [ToolNext]_toolVars
    PROVE  FileInv'
<1>1. pushes \in Nat /\ changelog \in Seq(0..pushes)
  BY DEF FileInv
<1>2. pushes' \in Nat /\ pushes' >= pushes /\ changelog' \in Seq(0..pushes')
      /\ (pushes' = pushes => changelog' = changelog)
  <2>1. CASE UNCHANGED <<changelog, pushes>>
    BY <1>1, <2>1
  <2>2. ASSUME NEW file \in Seq(0..pushes), pushes' = pushes + 1, changelog' = <<pushes + 1>> \o file
        PROVE  pushes' \in Nat /\ pushes' >= pushes /\ pushes' # pushes /\ changelog' \in Seq(0..pushes')
    BY <1>1, <2>2, OneEntryMore
  <2>3. CASE Commits
    BY <1>1, <2>2, <2>3 DEF Commits
  <2>4. ASSUME NEW r \in Requests, Rewrites(r)
        PROVE  pushes' \in Nat /\ pushes' >= pushes /\ pushes' # pushes /\ changelog' \in Seq(0..pushes')
    BY <2>2, <2>4 DEF FileInv, Rewrites
  <2>5. QED
    BY <2>1, <2>3, <2>4, FileSteps
<1>3. ASSUME NEW n, n \in Seq(0..pushes)
      PROVE  n \in Seq(0..pushes')
  BY <1>1, <1>2, <1>3
<1>4. ASSUME NEW r \in Requests
      PROVE  /\ requests[r].file \in Seq(0..pushes') /\ requests[r].seen \in 0..pushes'
             /\ Working(r) /\ ~requests[r].unread /\ requests[r].seen = pushes'
                    => requests[r].file = changelog'
  <2>1. /\ requests[r].file \in Seq(0..pushes) /\ requests[r].seen \in 0..pushes
        /\ Working(r) /\ ~requests[r].unread /\ requests[r].seen = pushes => requests[r].file = changelog
    BY DEF FileInv
  <2>2. QED
    BY <1>1, <1>2, <1>3, <2>1
<1>5. <<>> \in Seq(0..pushes') /\ 0 \in 0..pushes' /\ pushes \in 0..pushes'
  BY <1>1, <1>2
<1>6. CASE UNCHANGED requests
  BY <1>2, <1>4, <1>6 DEF FileInv, Working
<1>7. ASSUME NEW r \in Requests, ReceiveRequest(r) \/ AnswerCommand(r) \/ NoAnswer(r)
      PROVE  FileInv'
  <2>1. /\ OthersRest(r) /\ requests'[r].pc # "asking"
        /\ \/ requests'[r].file = <<>> /\ requests'[r].seen = 0
           \/ requests'[r].file = requests[r].file /\ requests'[r].seen = requests[r].seen
    BY <1>7, ReceiveStarts, AnswerEnds, NoAnswerEnds DEF Ended
  <2>2. requests'[r].file \in Seq(0..pushes') /\ requests'[r].seen \in 0..pushes'
    BY <1>2, <1>4, <1>5, <2>1
  <2>3. QED
    BY <1>2, <1>4, <2>1, <2>2 DEF FileInv, Working, OthersRest
<1>8. ASSUME NEW r \in Requests, StartCommand(r)
      PROVE  FileInv'
  <2>1. /\ OthersRest(r)
        /\ \/ requests'[r].file = changelog /\ requests'[r].seen = pushes
           \/ requests'[r].file = <<>> /\ requests'[r].unread /\ requests'[r].seen = requests[r].seen
    BY <1>8, StartReads
  <2>2. pushes' = pushes /\ changelog' = changelog
    BY <1>8 DEF StartCommand
  <2>3. requests'[r].file \in Seq(0..pushes') /\ requests'[r].seen \in 0..pushes'
    BY <1>1, <1>2, <1>4, <1>5, <2>1, <2>2
  <2>4. ~requests'[r].unread => requests'[r].file = changelog'
    BY <2>1, <2>2
  <2>5. QED
    BY <1>2, <1>4, <2>1, <2>3, <2>4 DEF FileInv, Working, OthersRest
<1>9. QED
  BY <1>6, <1>7, <1>8 DEF ToolNext, WriteText, AddLabel, CommitEntry, PersonActs, toolVars

LEMMA EntriesStay ==
    ASSUME PlacesInv, FileInv, [ToolNext]_toolVars
    PROVE  \A i \in DOMAIN changelog :
              \/ \E j \in DOMAIN changelog' : changelog'[j] = changelog[i]
              \/ \E r \in Requests : Acts(r) /\ (requests[r].unread \/ requests[r].seen # pushes)
<1>1. pushes \in Nat /\ changelog \in Seq(0..pushes)
  BY DEF FileInv
<1>2. ASSUME NEW i \in DOMAIN changelog, changelog' = <<pushes + 1>> \o changelog
      PROVE  \E j \in DOMAIN changelog' : changelog'[j] = changelog[i]
  BY <1>1, <1>2, OneEntryMore
<1>3. ASSUME NEW r \in Requests, Rewrites(r), NEW i \in DOMAIN changelog
      PROVE  \/ \E j \in DOMAIN changelog' : changelog'[j] = changelog[i]
             \/ Acts(r) /\ (requests[r].unread \/ requests[r].seen # pushes)
  <2>1. CASE requests[r].unread \/ requests[r].seen # pushes
    BY <1>3, <2>1 DEF Rewrites, Acts
  <2>2. CASE ~requests[r].unread /\ requests[r].seen = pushes
    <3>1. requests[r].file = changelog
      BY <1>3, <2>2 DEF FileInv, Rewrites, Working
    <3>2. QED
      BY <1>2, <1>3, <3>1 DEF Rewrites
  <2>3. QED
    BY <2>1, <2>2
<1>4. QED
  BY <1>2, <1>3, FileSteps DEF Commits

\* No entry of the changelog is lost but to a run that could not read the file, or to one
\* during whose model call somebody else committed: for any number of requests that
\* overlap, and of commits of people.
THEOREM ChangelogOutlives == ToolSpec => ChangelogStays
<1>1. ToolInit => PlacesInv /\ FileInv
  BY ToolStarts
<1>2. PlacesInv /\ FileInv /\ [ToolNext]_toolVars => PlacesInv' /\ FileInv'
  BY NextPlaces, NextFile
<1>3. PlacesInv /\ FileInv /\ [ToolNext]_toolVars =>
        [\A i \in DOMAIN changelog :
            \/ \E j \in DOMAIN changelog' : changelog'[j] = changelog[i]
            \/ \E r \in Requests : Acts(r) /\ (requests[r].unread \/ requests[r].seen # pushes)]_toolVars
  BY EntriesStay
<1>4. QED
  BY <1>1, <1>2, <1>3, PTL DEF ToolSpec, ChangelogStays

-----------------------------------------------------------------------------
(* Labels. *)

LEMMA WritesKeepLabels ==
    ASSUME NEW r \in Requests, AnswerCommand(r), NEW l \in mrLabels \ mrLabels'
    PROVE  \/ l \notin requests[r].labels
           \/ l \in (IF Command(r) = "review" THEN ReviewLabels ELSE TypeLabels)
<1>1. ASSUME NEW answer, DescribeMR(r, answer)
      PROVE  l \notin requests[r].labels \/ l \in TypeLabels
  BY <1>1 DEF DescribeMR, DescribeLabels, LabelsKept
<1>2. ASSUME NEW answer, GenerateLabels(r, answer)
      PROVE  l \notin requests[r].labels \/ l \in TypeLabels
  BY <1>2 DEF GenerateLabels, WriteLabels, DescribeLabels, LabelsKept
<1>3. ReviewMR(r) => l \notin requests[r].labels \/ l \in ReviewLabels
  BY DEF ReviewMR, WriteLabels, NoWrite, LabelsOfReview, LabelsKept
<1>4. ~(UpdateChangelog(r) \/ Reply(r))
  BY DEF UpdateChangelog, Reply
<1>5. ReviewMR(r) => Command(r) = "review"
  BY DEF ReviewMR
<1>6. \A answer : DescribeMR(r, answer) \/ GenerateLabels(r, answer) => Command(r) # "review"
  BY DEF DescribeMR, GenerateLabels
<1>7. QED
  BY <1>1, <1>2, <1>3, <1>4, <1>5, <1>6 DEF AnswerCommand

\* A step is the work of the one request whose place it changes.
LEMMA OneActs ==
    ASSUME PlacesInv, [ToolNext]_toolVars, NEW r \in Requests, Acts(r)
    PROVE  AnswerCommand(r) \/ NoAnswer(r)
<1>1. requests' # requests
  BY DEF Acts
<1>2. PICK q \in Requests : ReceiveRequest(q) \/ StartCommand(q) \/ AnswerCommand(q) \/ NoAnswer(q)
  BY <1>1 DEF ToolNext, WriteText, AddLabel, CommitEntry, PersonActs, toolVars
<1>3. /\ OthersRest(q)
      /\ ReceiveRequest(q) => requests[q].pc = "idle"
      /\ StartCommand(q) => requests[q].pc = "next"
  BY <1>2, ReceiveStarts, StartReads, AnswerEnds, NoAnswerEnds DEF Ended
<1>4. q = r
  BY <1>3 DEF OthersRest, Acts
<1>5. QED
  BY <1>2, <1>3, <1>4 DEF Acts

\* A tool takes away only its own labels, and those that were set after its provider was
\* fetched: whatever other requests and people do meanwhile, and whichever writes fail.
THEOREM LabelsOutlive == ToolSpec => LabelsStay
<1>1. ToolInit => PlacesInv
  BY ToolStarts
<1>2. PlacesInv /\ [ToolNext]_toolVars => PlacesInv'
  BY NextPlaces
<1>3. PlacesInv /\ [ToolNext]_toolVars =>
        [\A r \in Requests : Acts(r) =>
            \A l \in mrLabels \ mrLabels' :
                \/ l \notin requests[r].labels
                \/ l \in (IF Command(r) = "review" THEN ReviewLabels ELSE TypeLabels)]_toolVars
  <2>1. ASSUME PlacesInv, [ToolNext]_toolVars, NEW r \in Requests, Acts(r), NEW l \in mrLabels \ mrLabels'
        PROVE  \/ l \notin requests[r].labels
               \/ l \in (IF Command(r) = "review" THEN ReviewLabels ELSE TypeLabels)
    <3>1. AnswerCommand(r) \/ NoAnswer(r)
      BY <2>1, OneActs
    <3>2. ~NoAnswer(r)
      BY <2>1 DEF NoAnswer
    <3>3. QED
      BY <2>1, <3>1, <3>2, WritesKeepLabels
  <2>2. QED
    BY <2>1
<1>4. QED
  BY <1>1, <1>2, <1>3, PTL DEF ToolSpec, LabelsStay

-----------------------------------------------------------------------------
(* Comments. *)

\* A non-empty set of naturals has a least element.
LEMMA LeastElement ==
    ASSUME NEW T \in SUBSET Nat, T # {}
    PROVE  \E n \in T : \A m \in T : n <= m
<1> DEFINE Below == {{k \in Nat : k < n} : n \in T}
<1>1. Below \subseteq FiniteSubsetsOf(Nat)
  <2> SUFFICES ASSUME NEW n \in T
               PROVE  {k \in Nat : k < n} \in FiniteSubsetsOf(Nat)
    OBVIOUS
  <2>1. IsFiniteSet({k \in Nat : k < n})
    BY FS_BoundedSetOfNaturals
  <2> QED BY <2>1 DEF FiniteSubsetsOf
<1>2. PICK B \in Below : \A C \in Below : <<C, B>> \notin StrictSubsetOrdering(Nat)
  <2>1. Below # {}
    OBVIOUS
  <2> HIDE DEF Below
  <2> QED BY <1>1, <2>1, FS_StrictSubsetOrderingWellFounded, WFMin
<1>3. PICK n \in T : B = {k \in Nat : k < n}
  BY <1>2
<1>4. ASSUME NEW m \in T, m < n PROVE FALSE
  <2> DEFINE C == {k \in Nat : k < m}
  <2>1. C \in Below
    OBVIOUS
  <2>2. m \in B /\ m \notin C /\ C \subseteq B /\ B \subseteq Nat
    BY <1>3, <1>4
  <2>3. <<C, B>> \in StrictSubsetOrdering(Nat)
    BY <2>2 DEF StrictSubsetOrdering
  <2> QED BY <2>1, <2>3, <1>2
<1> QED BY <1>4

\* The review comment that is edited is one of them.
LEMMA FirstNoteIsOne ==
    ASSUME NEW notes, notes # {}, \A n \in notes : n.by \in Nat
    PROVE  FirstNote(notes) \in notes
<1>1. PICK b \in {n.by : n \in notes} : \A c \in {n.by : n \in notes} : b <= c
  <2>1. {n.by : n \in notes} \in SUBSET Nat /\ {n.by : n \in notes} # {}
    OBVIOUS
  <2>2. QED
    BY <2>1, LeastElement
<1>2. \E n \in notes : \A m \in notes : n.by <= m.by
  BY <1>1
<1>3. QED
  BY <1>2 DEF FirstNote

\* A step that adds no review and drops none.
LEMMA NotesRest ==
    ASSUME NotesInv, reviews' = reviews, toolFaults' \in Nat, toolFaults' >= toolFaults,
           \A n \in mrNotes' : n \in mrNotes \/ (DOMAIN n = NoteFields /\ n.kind \in {"progress", "reply"}),
           \A n \in ReviewNotes : n \in mrNotes'
    PROVE  NotesInv'
<1>1. ReviewNotes' = ReviewNotes
  BY DEF ReviewNotes
<1>2. \A n \in mrNotes' : DOMAIN n = NoteFields /\ n.kind \in {"progress", "reply", "review"}
  BY DEF NotesInv
<1>3. Cardinality(ReviewNotes) <= 1 + toolFaults'
  <2>1. PICK c \in Nat : c = Cardinality(ReviewNotes)
    BY FS_CardinalityType DEF NotesInv
  <2>2. c <= 1 + toolFaults /\ toolFaults \in Nat
    BY <2>1 DEF NotesInv, ReviewIsCurrent
  <2>3. QED
    BY <2>1, <2>2
<1>4. reviews > 0 => \E n \in ReviewNotes : n.n = reviews
  BY DEF NotesInv, ReviewIsCurrent
<1>5. QED
  BY <1>1, <1>2, <1>3, <1>4 DEF NotesInv, ReviewIsCurrent

\* The new review replaces one that is shown, or joins them.
LEMMA ReviewIsShown ==
    ASSUME NotesInv, NEW r, NEW note, NEW old,
           old \subseteq ReviewNotes, IsFiniteSet(old),
           note.kind = "review", DOMAIN note = NoteFields, note.by \in 1..(reviews + 1), note.n = reviews + 1,
           mrNotes' = (NoProgress(r) \ (ReviewNotes \ old)) \cup {note}, reviews' = reviews + 1,
           toolFaults' \in Nat, Cardinality(old) <= toolFaults'
    PROVE  NotesInv'
<1>1. ReviewNotes' = old \cup {note}
  BY DEF ReviewNotes, NoProgress
<1>2. reviews \in Nat /\ reviews' \in Nat
  BY DEF NotesInv
<1>3. \A n \in ReviewNotes' : n.by \in 1..reviews' /\ n.n \in 1..reviews'
  BY <1>1, <1>2 DEF NotesInv
<1>4. \A n \in mrNotes' : DOMAIN n = NoteFields /\ n.kind \in {"progress", "reply", "review"}
  BY DEF NotesInv, NoProgress
<1>5. IsFiniteSet(ReviewNotes') /\ Cardinality(ReviewNotes') <= 1 + toolFaults'
  <2>1. PICK c \in Nat : c = Cardinality(old)
    BY FS_CardinalityType
  <2>2. /\ IsFiniteSet(old \cup {note})
        /\ Cardinality(old \cup {note}) = c \/ Cardinality(old \cup {note}) = c + 1
    BY <2>1, FS_AddElement
  <2>3. QED
    BY <1>1, <2>1, <2>2
<1>6. \E n \in ReviewNotes' : n.n = reviews'
  BY <1>1
<1>7. QED
  BY <1>2, <1>3, <1>4, <1>5, <1>6 DEF NotesInv, ReviewIsCurrent

LEMMA ReviewKeepsNotes ==
    ASSUME NotesInv, NEW r \in Requests, ReviewMR(r)
    PROVE  NotesInv'
<1>1. PICK note : note = [kind |-> "review", by |-> reviews + 1, n |-> reviews + 1]
  OBVIOUS
<1>2. reviews \in Nat /\ toolFaults \in Nat /\ IsFiniteSet(ReviewNotes) /\ reviews' = reviews + 1
  BY DEF NotesInv, ReviewMR
<1>3. /\ DOMAIN note = NoteFields /\ note.kind = "review"
      /\ note.by \in 1..(reviews + 1) /\ note.n = reviews + 1
  BY <1>1, <1>2 DEF NoteFields
<1>4. PICK c \in Nat : c = Cardinality(ReviewNotes) /\ c <= 1 + toolFaults
  BY <1>2, FS_CardinalityType DEF NotesInv, ReviewIsCurrent
<1>5. ShowReview(r, note)
  BY <1>1 DEF ReviewMR
<1>6. CASE ReviewNotes = {} /\ AddReview(r, note)
  <2>1. mrNotes' = (NoProgress(r) \ (ReviewNotes \ {})) \cup {note} /\ toolFaults' = toolFaults
    BY <1>6 DEF AddReview, ToolFine
  <2>2. IsFiniteSet({}) /\ Cardinality({}) = 0
    BY FS_EmptySet
  <2>3. QED
    BY <1>2, <1>3, <2>1, <2>2, ReviewIsShown
<1>7. CASE ReviewNotes # {} /\ mrNotes' = NoProgress(r) \cup {note} /\ ToolFault
  <2>1. mrNotes' = (NoProgress(r) \ (ReviewNotes \ ReviewNotes)) \cup {note} /\ toolFaults' = toolFaults + 1
    BY <1>7 DEF ToolFault
  <2>2. toolFaults' \in Nat /\ Cardinality(ReviewNotes) <= toolFaults'
    BY <1>2, <1>4, <2>1
  <2>3. QED
    BY <1>2, <1>3, <2>1, <2>2, ReviewIsShown
<1>8. CASE /\ ReviewNotes # {}
           /\ mrNotes' = (NoProgress(r) \ {FirstNote(ReviewNotes)}) \cup {[FirstNote(ReviewNotes) EXCEPT !.n = note.n]}
           /\ ToolFine
  <2>1. PICK first : first = FirstNote(ReviewNotes)
    OBVIOUS
  <2>2. first \in ReviewNotes
    BY <1>8, <2>1, FirstNoteIsOne DEF NotesInv
  <2>3. PICK new : new = [first EXCEPT !.n = reviews + 1]
    OBVIOUS
  <2>4. DOMAIN first = NoteFields /\ first.kind = "review" /\ first.by \in 1..reviews
    BY <2>2 DEF NotesInv, ReviewNotes
  <2>5. DOMAIN new = NoteFields /\ new.kind = "review" /\ new.n = reviews + 1 /\ new.by \in 1..(reviews + 1)
    BY <1>2, <2>3, <2>4 DEF NoteFields
  <2>6. PICK old : old = ReviewNotes \ {first}
    OBVIOUS
  <2>7. mrNotes' = (NoProgress(r) \ (ReviewNotes \ old)) \cup {new} /\ toolFaults' = toolFaults
    BY <1>3, <1>8, <2>1, <2>2, <2>3, <2>6 DEF ToolFine
  <2>8. IsFiniteSet(old) /\ old \subseteq ReviewNotes /\ Cardinality(old) = c - 1
    BY <1>2, <1>4, <2>2, <2>6, FS_RemoveElement
  <2>9. Cardinality(old) <= toolFaults'
    BY <1>2, <1>4, <2>7, <2>8
  <2>10. QED
    BY <1>2, <2>5, <2>7, <2>8, <2>9, ReviewIsShown
<1>9. QED
  BY <1>5, <1>6, <1>7, <1>8 DEF ShowReview

LEMMA NextNotes ==
    ASSUME NotesInv, [ToolNext]_toolVars
    PROVE  NotesInv'
<1>1. toolFaults \in Nat /\ \A n \in ReviewNotes : n \in mrNotes /\ n.kind = "review"
  BY DEF NotesInv, ReviewNotes
<1>2. ASSUME NEW r \in Requests
      PROVE  \A n \in ReviewNotes : n \in NoProgress(r)
  BY <1>1 DEF NoProgress
<1>3. CASE UNCHANGED <<mrNotes, reviews, toolFaults>>
  BY <1>1, <1>3, NotesRest
<1>4. ASSUME NEW r \in Requests, ReceiveRequest(r)
      PROVE  NotesInv'
  BY <1>3, <1>4 DEF ReceiveRequest
<1>5. ASSUME NEW r \in Requests, StartCommand(r)
      PROVE  NotesInv'
  <2>1. PICK note : note = [kind |-> "progress", by |-> r, n |-> 0]
    OBVIOUS
  <2>2. mrNotes' = mrNotes \/ mrNotes' = mrNotes \cup {note}
    BY <1>5, <2>1 DEF StartCommand
  <2>3. DOMAIN note = NoteFields /\ note.kind = "progress"
    BY <2>1 DEF NoteFields
  <2>4. reviews' = reviews /\ toolFaults' \in {toolFaults, toolFaults + 1}
    BY <1>5 DEF StartCommand, ToolFine, ToolFault
  <2>5. QED
    BY <1>1, <2>2, <2>3, <2>4, NotesRest
<1>6. ASSUME NEW r \in Requests, NoAnswer(r)
      PROVE  NotesInv'
  BY <1>1, <1>6, NotesRest DEF NoAnswer, ToolFault
<1>7. ASSUME NEW r \in Requests, UNCHANGED reviews, mrNotes' = NoProgress(r),
             toolFaults' \in {toolFaults, toolFaults + 1}
      PROVE  NotesInv'
  BY <1>1, <1>2, <1>7, NotesRest DEF NoProgress
<1>8. ASSUME NEW r \in Requests, Reply(r)
      PROVE  NotesInv'
  <2>1. PICK note : note = [kind |-> "reply", by |-> r, n |-> Len(requests[r].todo)]
    OBVIOUS
  <2>2. mrNotes' = NoProgress(r) \cup {note} /\ UNCHANGED <<reviews, toolFaults>>
    BY <1>8, <2>1 DEF Reply, ToolFine
  <2>3. DOMAIN note = NoteFields /\ note.kind = "reply"
    BY <2>1 DEF NoteFields
  <2>4. QED
    BY <1>1, <1>2, <2>2, <2>3, NotesRest DEF NoProgress
<1>9. ASSUME NEW r \in Requests, AnswerCommand(r)
      PROVE  NotesInv'
  <2>1. CASE ReviewMR(r)
    BY <2>1, ReviewKeepsNotes
  <2>2. CASE UpdateChangelog(r)
    BY <1>7, <2>2 DEF UpdateChangelog, ToolFine
  <2>3. ASSUME NEW answer, DescribeMR(r, answer) \/ GenerateLabels(r, answer)
        PROVE  NotesInv'
    BY <1>7, <2>3 DEF DescribeMR, GenerateLabels, ToolFine, ToolFault
  <2>4. QED
    BY <1>8, <1>9, <2>1, <2>2, <2>3 DEF AnswerCommand
<1>10. CASE WriteText \/ AddLabel \/ CommitEntry \/ UNCHANGED toolVars
  BY <1>3, <1>10 DEF WriteText, AddLabel, CommitEntry, PersonActs, toolVars
<1>11. QED
  BY <1>4, <1>5, <1>6, <1>9, <1>10 DEF ToolNext

\* An answer takes the progress note of its own request away, and no step brings one but
\* that of a command that begins.
LEMMA NotesOfAnswer ==
    ASSUME PlacesInv, NotesInv, NEW r \in Requests, AnswerCommand(r)
    PROVE  \A n \in mrNotes' : n.kind = "progress" => n \in NoProgress(r)
<1>1. ASSUME NEW note, note.kind # "progress", mrNotes' = NoProgress(r) \cup {note}
      PROVE  \A n \in mrNotes' : n.kind = "progress" => n \in NoProgress(r)
  BY <1>1
<1>2. CASE ReviewMR(r)
  <2>1. PICK note : note = [kind |-> "review", by |-> reviews + 1, n |-> reviews + 1]
    OBVIOUS
  <2>2. ShowReview(r, note) /\ note.kind = "review"
    BY <1>2, <2>1 DEF ReviewMR
  <2>3. CASE mrNotes' = NoProgress(r) \cup {note}
    BY <1>1, <2>2, <2>3
  <2>4. CASE /\ ReviewNotes # {}
             /\ mrNotes' = (NoProgress(r) \ {FirstNote(ReviewNotes)}) \cup {[FirstNote(ReviewNotes) EXCEPT !.n = note.n]}
    <3>1. PICK first : first = FirstNote(ReviewNotes)
      OBVIOUS
    <3>2. first \in ReviewNotes
      BY <2>4, <3>1, FirstNoteIsOne DEF NotesInv
    <3>3. DOMAIN first = NoteFields /\ first.kind = "review"
      BY <3>2 DEF NotesInv, ReviewNotes
    <3>4. [first EXCEPT !.n = note.n].kind = "review"
      BY <3>3 DEF NoteFields
    <3>5. QED
      BY <2>4, <3>1, <3>4
  <2>5. QED
    BY <2>2, <2>3, <2>4 DEF ShowReview, AddReview
<1>3. CASE Reply(r)
  BY <1>1, <1>3 DEF Reply
<1>4. CASE UpdateChangelog(r)
  BY <1>4 DEF UpdateChangelog
<1>5. ASSUME NEW answer, DescribeMR(r, answer) \/ GenerateLabels(r, answer)
      PROVE  mrNotes' = NoProgress(r)
  BY <1>5 DEF DescribeMR, GenerateLabels
<1>6. QED
  BY <1>2, <1>3, <1>4, <1>5 DEF AnswerCommand

LEMMA NextProgress ==
    ASSUME PlacesInv, NotesInv, ProgressInv, [ToolNext]_toolVars
    PROVE  ProgressInv'
<1>1. ASSUME NEW r \in Requests, AnswerCommand(r)
      PROVE  ProgressInv'
  <2>1. Ended(r, requests[r])
    BY <1>1, AnswerEnds
  <2>2. \A n \in mrNotes' : n.kind = "progress" => n \in mrNotes /\ n.by # r
    BY <1>1, NotesOfAnswer DEF NoProgress
  <2>3. QED
    BY <2>1, <2>2 DEF ProgressInv, Ended, OthersRest, Working
<1>2. ASSUME NEW r \in Requests, NoAnswer(r)
      PROVE  ProgressInv'
  BY <1>2, NoAnswerEnds DEF NoAnswer, ProgressInv, OthersRest, Working
<1>3. ASSUME NEW r \in Requests, StartCommand(r)
      PROVE  ProgressInv'
  <2>1. OthersRest(r) /\ requests'[r].pc = "asking"
    BY <1>3, StartReads
  <2>2. PICK note : note = [kind |-> "progress", by |-> r, n |-> 0]
    OBVIOUS
  <2>3. \A n \in mrNotes' : n \in mrNotes \/ n.by = r
    BY <1>3 DEF StartCommand
  <2>4. QED
    BY <2>1, <2>3 DEF ProgressInv, OthersRest, Working
<1>4. ASSUME NEW r \in Requests, ReceiveRequest(r)
      PROVE  ProgressInv'
  <2>1. OthersRest(r) /\ requests[r].pc = "idle" /\ mrNotes' = mrNotes
    BY <1>4, ReceiveStarts DEF ReceiveRequest
  <2>2. QED
    BY <2>1 DEF ProgressInv, OthersRest, Working
<1>5. CASE UNCHANGED <<mrNotes, requests>>
  BY <1>5 DEF ProgressInv, Working
<1>6. QED
  BY <1>1, <1>2, <1>3, <1>4, <1>5 DEF ToolNext, WriteText, AddLabel, CommitEntry, PersonActs, toolVars

\* The newest review is always on show, one edit that failed adds at most one comment, and
\* no request that was answered leaves a progress note: for any number of requests that
\* edit the comments of one merge request in turn.
THEOREM CommentsStayCurrent == ToolSpec => []CommentsAreCurrent
<1> DEFINE Inv == PlacesInv /\ NotesInv /\ ProgressInv
<1>1. ToolInit => Inv
  BY ToolStarts
<1>2. Inv /\ [ToolNext]_toolVars => Inv'
  BY NextPlaces, NextNotes, NextProgress
<1>3. Inv => CommentsAreCurrent
  BY DEF NotesInv, ProgressInv, CommentsAreCurrent, ProgressEnds
<1>4. QED
  BY <1>1, <1>2, <1>3, PTL DEF ToolSpec

\* Types, for any commands, texts and answers: no comment shows a review that was never
\* published, and no entry of the changelog was never pushed.
THEOREM ToolTypesHold == ToolSpec => []ToolTypeOK
<1> DEFINE Inv == PlacesInv /\ FileInv /\ NotesInv
<1>1. ToolInit => Inv
  BY ToolStarts
<1>2. Inv /\ [ToolNext]_toolVars => Inv'
  BY NextPlaces, NextFile, NextNotes
<1>3. Inv => ToolTypeOK
  BY DEF PlacesInv, FileInv, NotesInv, ReviewNotes, ToolTypeOK
<1>4. QED
  BY <1>1, <1>2, <1>3, PTL DEF ToolSpec

-----------------------------------------------------------------------------
(* The description. *)

\* What may stand in a description, and what the tool puts behind the user's part.
Generated == {"rule", "ai", "files", "### PR Type", "### Description"}
Tokens == STRING \cup Generated \cup {UserHeading, "### Own key", "not read"}

LEMMA TokensHold ==
    /\ Generated \subseteq Tokens
    /\ {"rule", "ai", "files", "### Own key", "not read", UserHeading, "### PR Type", "### Description"} \subseteq Tokens
BY DEF Tokens, Generated

LEMMA TextsAreSequences == Texts \subseteq Seq(Tokens)
<1>1. STRING \subseteq Tokens
  BY DEF Tokens
<1>2. QED
  BY <1>1, ToolAssumption, SeqMonotonic

LEMMA LeastIs ==
    ASSUME NEW T, NEW text \in Seq(T), NEW tokens, Places(text, tokens) # {}
    PROVE  /\ Least(Places(text, tokens)) \in Places(text, tokens)
           /\ Least(Places(text, tokens)) \in 1..Len(text)
           /\ \A j \in Places(text, tokens) : Least(Places(text, tokens)) <= j
<1>1. PICK S : S = Places(text, tokens)
  OBVIOUS
<1>2. S \in SUBSET Nat /\ S # {}
  BY <1>1 DEF Places
<1>3. \E n \in S : \A m \in S : n <= m
  BY <1>2, LeastElement
<1>4. Least(S) \in S /\ \A j \in S : Least(S) <= j
  BY <1>3 DEF Least
<1>5. S \subseteq 1..Len(text)
  BY <1>1 DEF Places
<1>6. QED
  BY <1>1, <1>4, <1>5

LeastIn(n, S) == n \in S /\ \A i \in S : n <= i
LEMMA LeastOf ==
    ASSUME NEW T, NEW text \in Seq(T), NEW tokens, NEW S, S = Places(text, tokens), NEW n, LeastIn(n, S)
    PROVE  Least(S) = n
<1> USE DEF LeastIn
<1>1. /\ Least(S) \in S /\ Least(S) \in 1..Len(text)
      /\ \A j \in S : Least(S) <= j
  BY LeastIs
<1>2. n \in 1..Len(text)
  BY DEF Places
<1>3. QED
  BY <1>1, <1>2

LEMMA OneToken ==
    ASSUME NEW T, NEW token \in T
    PROVE  <<token>> \in Seq(T)
OBVIOUS

LEMMA NotEmpty ==
    ASSUME NEW T, NEW a \in Seq(T), NEW b \in Seq(T), b # <<>>
    PROVE  a \o b # <<>>
BY ConcatEqualIffEmpty

LEMMA LessRuleIs ==
    ASSUME NEW T, NEW text \in Seq(T)
    PROVE  LessRule(text) \in Seq(T)
<1>1. CASE text # <<>>
  <2>1. Len(text) \in Nat /\ Len(text) - 1 \in Int /\ \A i \in 1..(Len(text) - 1) : text[i] \in T
    BY <1>1
  <2>2. SubSeq(text, 1, Len(text) - 1) \in Seq(T)
    BY <2>1, SubSeqProperties
  <2>3. QED
    BY <2>2 DEF LessRule, Front
<1>2. QED
  BY <1>1 DEF LessRule

LEMMA UserPartIs ==
    ASSUME NEW T, NEW text \in Seq(T)
    PROVE  UserPart(text) \in Seq(T)
<1>1. CASE text = <<>> \/ Head(text) \notin Headings \/ Places(text, {UserHeading}) = {}
  <2>1. <<>> \in Seq(T)
    OBVIOUS
  <2>2. QED
    BY <1>1, <2>1 DEF UserPart
<1>2. CASE ~(text = <<>> \/ Head(text) \notin Headings \/ Places(text, {UserHeading}) = {})
  <2>1. PICK start, ends, rules, before :
            /\ start = Least(Places(text, {UserHeading}))
            /\ ends = Places(text, Headings \ {UserHeading})
            /\ rules = Places(text, {"rule"})
            /\ before = IF rules = {} THEN text ELSE SubSeq(text, 1, Least(rules) - 1)
    OBVIOUS
  <2>2. UserPart(text) = IF ends # {} /\ Least(ends) > start THEN LessRule(SubSeq(text, start + 1, Least(ends) - 1))
                         ELSE IF before # <<>> /\ Head(before) = UserHeading THEN Tail(before) ELSE before
    BY <1>2, <2>1, Zenon DEF UserPart
  <2>3. start \in 1..Len(text) /\ Len(text) \in Nat
    <3>1. Places(text, {UserHeading}) # {}
      BY <1>2
    <3>2. Least(Places(text, {UserHeading})) \in 1..Len(text)
      BY <3>1, LeastIs
    <3>3. QED
      BY <2>1, <3>2
  <2>4. before \in Seq(T)
    <3>1. CASE rules = {}
      BY <2>1, <3>1
    <3>2. CASE rules # {}
      <4>1. Least(rules) \in 1..Len(text)
        BY <2>1, <3>2, LeastIs
      <4>2. Least(rules) - 1 \in Int /\ \A i \in 1..(Least(rules) - 1) : text[i] \in T
        BY <4>1
      <4>3. SubSeq(text, 1, Least(rules) - 1) \in Seq(T)
        BY <4>2, SubSeqProperties
      <4>4. QED
        BY <2>1, <3>2, <4>3
    <3>3. QED
      BY <3>1, <3>2
  <2>5. before # <<>> => Tail(before) \in Seq(T)
    BY <2>4, HeadTailProperties
  <2>6. ends # {} => LessRule(SubSeq(text, start + 1, Least(ends) - 1)) \in Seq(T)
    <3>1. SUFFICES ASSUME ends # {}
                   PROVE  LessRule(SubSeq(text, start + 1, Least(ends) - 1)) \in Seq(T)
      OBVIOUS
    <3>2. Least(ends) \in 1..Len(text)
      BY <2>1, <3>1, LeastIs
    <3>3. start + 1 \in Int /\ Least(ends) - 1 \in Int /\ \A i \in (start + 1)..(Least(ends) - 1) : text[i] \in T
      BY <2>3, <3>2
    <3>4. SubSeq(text, start + 1, Least(ends) - 1) \in Seq(T)
      BY <3>3, SubSeqProperties
    <3>5. QED
      BY <3>4, LessRuleIs
  <2>7. QED
    BY <2>2, <2>4, <2>5, <2>6, Zenon
<1>3. QED
  BY <1>1, <1>2

LEMMA SectionIs ==
    ASSUME NEW T, "rule" \in T, NEW text \in Seq(T), NEW is, NEW h \in T, NEW body \in Seq(T)
    PROVE  Section(text, is, h, body) \in Seq(T)
<1>1. <<h>> \in Seq(T) /\ <<"rule">> \in Seq(T) /\ <<>> \in Seq(T)
  OBVIOUS
<1>2. PICK before : before = IF text = <<>> THEN <<>> ELSE text \o <<"rule">>
  OBVIOUS
<1>3. before \in Seq(T)
  BY <1>1, <1>2, ConcatProperties
<1>4. before \o <<h>> \in Seq(T)
  BY <1>1, <1>3, ConcatProperties
<1>5. (before \o <<h>>) \o body \in Seq(T)
  BY <1>4, ConcatProperties
<1>6. QED
  BY <1>2, <1>5, Zenon DEF Section

LEMMA DescribedIs ==
    ASSUME NEW user \in Seq(Tokens), NEW answer
    PROVE  Described(user, answer) \in Seq(Tokens)
<1>1. /\ {"rule", "files", "### Own key", UserHeading, "### PR Type", "### Description"} \subseteq Tokens
      /\ <<"ai">> \in Seq(Tokens) /\ <<>> \in Seq(Tokens)
  <2>1. {"ai", "rule", "files", "### Own key", UserHeading, "### PR Type", "### Description"} \subseteq Tokens
    BY TokensHold
  <2>2. <<>> \in Seq(Tokens)
    OBVIOUS
  <2>3. <<"ai">> \in Seq(Tokens)
    BY <2>1, OneToken
  <2>4. QED
    BY <2>1, <2>2, <2>3
<1>2. PICK own : own = Section(<<>>, answer.own, "### Own key", <<"ai">>)
  OBVIOUS
<1>3. own \in Seq(Tokens)
  BY <1>1, <1>2, SectionIs
<1>4. PICK kept : kept = Section(own, user # <<>>, UserHeading, user)
  OBVIOUS
<1>5. kept \in Seq(Tokens)
  BY <1>1, <1>3, <1>4, SectionIs
<1>6. PICK typed : typed = Section(kept, answer.type /\ toolConf.ptype, "### PR Type", <<"ai">>)
  OBVIOUS
<1>7. typed \in Seq(Tokens)
  BY <1>1, <1>5, <1>6, SectionIs
<1>8. PICK described : described = Section(typed, answer.desc, "### Description", <<"ai">>)
  OBVIOUS
<1>9. described \in Seq(Tokens)
  BY <1>1, <1>7, <1>8, SectionIs
<1>10. Section(described, TRUE, "files", <<>>) \in Seq(Tokens)
  BY <1>1, <1>9, SectionIs
<1>11. QED
  BY <1>2, <1>4, <1>6, <1>8, <1>10, Zenon DEF Described

\* Behind the user's part come a generated heading and generated text.
Begun(user) == IF user = <<>> THEN <<>> ELSE (<<UserHeading>> \o user) \o <<"rule">>

LEMMA SectionGrows ==
    ASSUME NEW text \in Seq(Tokens), text # <<>>, NEW is, NEW h \in Generated, NEW body \in Seq(Generated)
    PROVE  \E more \in Seq(Generated) : Section(text, is, h, body) = text \o more
<1>1. <<>> \in Seq(Generated) /\ <<>> \in Seq(Tokens) /\ text \o <<>> = text
  BY ConcatEmptySeq
<1>2. CASE ~is
  BY <1>1, <1>2 DEF Section
<1>3. CASE is
  <2>1. PICK a, b : a = <<"rule">> /\ b = <<h>>
    OBVIOUS
  <2>2. a \in Seq(Generated) /\ b \in Seq(Generated)
    <3>1. "rule" \in Generated
      BY DEF Generated
    <3>2. QED
      BY <2>1, <3>1, OneToken
  <2>3. Generated \subseteq Tokens
    BY TokensHold
  <2>4. a \in Seq(Tokens) /\ b \in Seq(Tokens) /\ body \in Seq(Tokens)
    BY <2>2, <2>3, SeqMonotonic
  <2>5. Section(text, is, h, body) = ((text \o a) \o b) \o body
    BY <1>3, <2>1, Zenon DEF Section
  <2>6. a \o b \in Seq(Generated) /\ (a \o b) \o body \in Seq(Generated)
    BY <2>2, ConcatProperties
  <2>7. a \o b \in Seq(Tokens)
    BY <2>4, ConcatProperties
  <2>8. (text \o a) \o b = text \o (a \o b)
    BY <2>4
  <2>9. (text \o (a \o b)) \o body = text \o ((a \o b) \o body)
    BY <2>4, <2>7
  <2>10. QED
    BY <2>5, <2>6, <2>8, <2>9
<1>4. QED
  BY <1>2, <1>3

LEMMA PartIsFollowed ==
    ASSUME NEW user \in Seq(Tokens), NEW answer, Recognized(answer)
    PROVE  \E g \in {"### PR Type", "### Description"}, rest \in Seq(Generated) :
               Described(user, answer) = (Begun(user) \o <<g>>) \o rest
<1>1. /\ "rule" \in Tokens /\ UserHeading \in Tokens /\ "files" \in Generated
      /\ {"### PR Type", "### Description"} \subseteq Tokens \cap Generated
      /\ <<>> \in Seq(Tokens) /\ <<>> \in Seq(Generated) /\ Generated \subseteq Tokens
  <2>1. <<>> \in Seq(Tokens) /\ <<>> \in Seq(Generated)
    OBVIOUS
  <2>2. QED
    BY <2>1, TokensHold DEF Generated
<1>2. PICK ai : ai = <<"ai">>
  OBVIOUS
<1>3. ai \in Seq(Generated) /\ ai \in Seq(Tokens)
  <2>1. "ai" \in Generated /\ "ai" \in Tokens
    BY TokensHold DEF Generated
  <2>2. QED
    BY <1>2, <2>1
<1>4. PICK kept : kept = Section(<<>>, user # <<>>, UserHeading, user)
  OBVIOUS
<1>5. kept \in Seq(Tokens)
  BY <1>1, <1>4, SectionIs
<1>6. Section(<<>>, answer.own, "### Own key", ai) = <<>>
  BY DEF Section, Recognized
<1>7. PICK typed : typed = Section(kept, answer.type /\ toolConf.ptype, "### PR Type", ai)
  OBVIOUS
<1>8. PICK described : described = Section(typed, answer.desc, "### Description", ai)
  OBVIOUS
<1>9. Described(user, answer) = Section(described, TRUE, "files", <<>>)
  BY <1>2, <1>4, <1>6, <1>7, <1>8, Zenon DEF Described
<1>10. typed \in Seq(Tokens)
  BY <1>1, <1>3, <1>5, <1>7, SectionIs
<1>11. described \in Seq(Tokens)
  BY <1>1, <1>3, <1>8, <1>10, SectionIs
<1>12. (IF kept = <<>> THEN <<>> ELSE kept \o <<"rule">>) = Begun(user)
  <2>1. CASE user = <<>>
    BY <1>4, <2>1 DEF Section, Begun
  <2>2. CASE user # <<>>
    <3>1. <<UserHeading>> \in Seq(Tokens)
      BY <1>1, OneToken
    <3>2. kept = (<<>> \o <<UserHeading>>) \o user
      BY <1>4, <2>2, Zenon DEF Section
    <3>3. <<>> \o <<UserHeading>> = <<UserHeading>>
      BY <3>1, ConcatEmptySeq
    <3>4. kept = <<UserHeading>> \o user
      BY <3>2, <3>3
    <3>5. kept # <<>>
      BY <2>2, <3>1, <3>4, ConcatEqualIffEmpty
    <3>6. QED
      BY <2>2, <3>4, <3>5 DEF Begun
  <2>3. QED
    BY <2>1, <2>2
<1>13. Begun(user) \in Seq(Tokens)
  <2>1. <<"rule">> \in Seq(Tokens)
    BY <1>1, OneToken
  <2>2. kept \o <<"rule">> \in Seq(Tokens)
    BY <1>5, <2>1, ConcatProperties
  <2>3. QED
    BY <1>1, <1>12, <2>2
<1>14. ASSUME NEW g \in {"### PR Type", "### Description"}, NEW text, text = Section(kept, TRUE, g, ai)
       PROVE  text = (Begun(user) \o <<g>>) \o ai
  BY <1>12, <1>14, Zenon DEF Section
<1>15. ASSUME NEW g \in {"### PR Type", "### Description"}
       PROVE  /\ Begun(user) \o <<g>> \in Seq(Tokens)
              /\ (Begun(user) \o <<g>>) \o ai \in Seq(Tokens) /\ (Begun(user) \o <<g>>) \o ai # <<>>
  <2>1. <<g>> \in Seq(Tokens)
    <3>1. g \in Tokens
      BY <1>1
    <3>2. QED
      BY <3>1, OneToken
  <2>2. PICK b : b = Begun(user) \o <<g>>
    OBVIOUS
  <2>3. b \in Seq(Tokens)
    BY <1>13, <2>1, <2>2, ConcatProperties
  <2>4. b \o ai \in Seq(Tokens) /\ b \o ai # <<>>
    <3>1. ai # <<>>
      BY <1>2
    <3>2. b \o ai \in Seq(Tokens)
      BY <1>3, <2>3, ConcatProperties
    <3>3. b \o ai # <<>>
      <4>1. ai \in Seq(Tokens)
        BY <1>3
      <4>2. QED
        BY <2>3, <3>1, <4>1, NotEmpty
    <3>4. QED
      BY <3>2, <3>3
  <2>5. QED
    BY <2>2, <2>3, <2>4
<1>16. CASE answer.type /\ toolConf.ptype
  <2>1. PICK b : b = Begun(user) \o <<"### PR Type">>
    OBVIOUS
  <2>2. typed = b \o ai /\ b \in Seq(Tokens) /\ typed # <<>>
    <3>1. typed = Section(kept, TRUE, "### PR Type", ai)
      BY <1>7, <1>16 DEF Section
    <3>2. QED
      BY <1>14, <1>15, <2>1, <3>1
  <2>3. PICK m \in Seq(Generated) : described = typed \o m
    <3>1. "### Description" \in Generated
      BY <1>1
    <3>2. QED
      BY <1>3, <1>8, <1>10, <2>2, <3>1, SectionGrows
  <2>4. m \in Seq(Tokens)
    BY <1>1, <2>3, SeqMonotonic
  <2>5. described # <<>>
    BY <1>10, <2>2, <2>3, <2>4, ConcatEqualIffEmpty
  <2>6. PICK k \in Seq(Generated) : Described(user, answer) = described \o k
    <3>1. "files" \in Generated /\ <<>> \in Seq(Generated)
      BY <1>1
    <3>2. \E k \in Seq(Generated) : Section(described, TRUE, "files", <<>>) = described \o k
      BY <1>11, <2>5, <3>1, SectionGrows
    <3>3. QED
      BY <1>9, <3>2
  <2>7. k \in Seq(Tokens)
    BY <1>1, <2>6, SeqMonotonic
  <2>8. (b \o ai) \o m = b \o (ai \o m)
    <3>1. b \in Seq(Tokens) /\ ai \in Seq(Tokens) /\ m \in Seq(Tokens)
      BY <1>3, <2>2, <2>4
    <3>2. QED
      BY <3>1
  <2>9. ai \o m \in Seq(Generated) /\ ai \o m \in Seq(Tokens)
    BY <1>3, <2>3, <2>4, ConcatProperties
  <2>10. (b \o (ai \o m)) \o k = b \o ((ai \o m) \o k)
    <3>1. b \in Seq(Tokens) /\ ai \o m \in Seq(Tokens) /\ k \in Seq(Tokens)
      BY <2>2, <2>7, <2>9
    <3>2. QED
      BY <3>1
  <2>11. (ai \o m) \o k \in Seq(Generated)
    BY <2>6, <2>9, ConcatProperties
  <2>12. Described(user, answer) = (Begun(user) \o <<"### PR Type">>) \o ((ai \o m) \o k)
    BY <2>1, <2>2, <2>3, <2>6, <2>8, <2>10
  <2>13. QED
    BY <2>11, <2>12
<1>17. CASE ~(answer.type /\ toolConf.ptype)
  <2>1. PICK b : b = Begun(user) \o <<"### Description">>
    OBVIOUS
  <2>2. described = b \o ai /\ b \in Seq(Tokens) /\ described # <<>>
    <3>1. typed = kept
      BY <1>7, <1>17 DEF Section
    <3>2. described = Section(kept, TRUE, "### Description", ai)
      BY <1>8, <1>17, <3>1 DEF Section, Recognized
    <3>3. QED
      BY <1>14, <1>15, <2>1, <3>2
  <2>3. PICK k \in Seq(Generated) : Described(user, answer) = described \o k
    <3>1. "files" \in Generated /\ <<>> \in Seq(Generated)
      BY <1>1
    <3>2. QED
      <4>1. described # <<>>
        BY <2>2
      <4>2. \E k \in Seq(Generated) : Section(described, TRUE, "files", <<>>) = described \o k
        BY <1>11, <3>1, <4>1, SectionGrows
      <4>3. QED
        BY <1>9, <4>2
  <2>4. k \in Seq(Tokens)
    BY <1>1, <2>3, SeqMonotonic
  <2>5. (b \o ai) \o k = b \o (ai \o k)
    <3>1. b \in Seq(Tokens) /\ ai \in Seq(Tokens) /\ k \in Seq(Tokens)
      BY <1>3, <2>2, <2>4
    <3>2. QED
      BY <3>1
  <2>6. ai \o k \in Seq(Generated)
    BY <1>3, <2>3, ConcatProperties
  <2>7. Described(user, answer) = (Begun(user) \o <<"### Description">>) \o (ai \o k)
    BY <2>1, <2>2, <2>3, <2>5
  <2>8. QED
    BY <2>6, <2>7
<1>18. QED
  BY <1>16, <1>17

\* Two texts in one, and a person's text between two headings.
Joins(text, a, b) ==
    /\ Len(text) = Len(a) + Len(b) /\ \A i \in 1..Len(a) : text[i] = a[i]
    /\ \A i \in 1..Len(b) : text[Len(a) + i] = b[i]
LEMMA JoinIs ==
    ASSUME NEW T, NEW a \in Seq(T), NEW b \in Seq(T), NEW text, text = a \o b
    PROVE  text \in Seq(T) /\ Joins(text, a, b)
<1>1. Len(a) \in Nat /\ Len(b) \in Nat
  OBVIOUS
<1>2. a \o b \in Seq(T) /\ Len(a \o b) = Len(a) + Len(b)
  BY ConcatProperties
<1>3. \A i \in 1..(Len(a) + Len(b)) : (a \o b)[i] = IF i <= Len(a) THEN a[i] ELSE b[i - Len(a)]
  BY ConcatProperties
<1>4. \A i \in 1..Len(a) : text[i] = a[i]
  BY <1>1, <1>3
<1>5. \A i \in 1..Len(b) : text[Len(a) + i] = b[i]
  BY <1>1, <1>3
<1>6. QED
  BY <1>2, <1>4, <1>5 DEF Joins

Frame(text, first, inner, second, third) ==
    /\ Len(text) \in Nat /\ Len(inner) \in Nat /\ Len(text) >= Len(inner) + 3
    /\ text[1] = first /\ text[Len(inner) + 2] = second /\ text[Len(inner) + 3] = third
    /\ \A i \in 1..Len(inner) : text[i + 1] = inner[i]
LEMMA FrameIs ==
    ASSUME NEW T, NEW inner \in Seq(T), NEW first \in T, NEW second \in T, NEW third \in T, NEW more \in Seq(T),
           NEW text, text = (((<<first>> \o inner) \o <<second>>) \o <<third>>) \o more
    PROVE  text \in Seq(T) /\ Frame(text, first, inner, second, third)
<1>1. PICK a, b, c : a = <<first>> /\ b = <<second>> /\ c = <<third>>
  OBVIOUS
<1>2. /\ a \in Seq(T) /\ Len(a) = 1 /\ a[1] = first
      /\ b \in Seq(T) /\ Len(b) = 1 /\ b[1] = second
      /\ c \in Seq(T) /\ Len(c) = 1 /\ c[1] = third
      /\ Len(inner) \in Nat /\ Len(more) \in Nat
  BY <1>1
<1>3. PICK e : e = a \o inner
  OBVIOUS
<1>4. e \in Seq(T) /\ Len(e) = Len(inner) + 1 /\ e[1] = first /\ \A i \in 1..Len(inner) : e[i + 1] = inner[i]
  <2>1. e \in Seq(T) /\ Joins(e, a, inner)
    BY <1>2, <1>3, JoinIs
  <2>2. QED
    BY <1>2, <2>1 DEF Joins
<1>5. PICK f : f = e \o b
  OBVIOUS
<1>6. /\ f \in Seq(T) /\ Len(f) = Len(inner) + 2 /\ f[1] = first /\ f[Len(inner) + 2] = second
      /\ \A i \in 1..Len(inner) : f[i + 1] = inner[i]
  <2>1. f \in Seq(T) /\ Len(f) = Len(e) + 1 /\ (\A i \in 1..Len(e) : f[i] = e[i]) /\ f[Len(e) + 1] = b[1]
    <3>1. f \in Seq(T) /\ Joins(f, e, b)
      BY <1>2, <1>4, <1>5, JoinIs
    <3>2. QED
      <4>1. 1 \in 1..Len(b) /\ Len(b) = 1
        BY <1>2
      <4>2. QED
        BY <3>1, <4>1 DEF Joins
  <2>2. \A i \in 1..Len(inner) : i + 1 \in 1..Len(e)
    BY <1>2, <1>4
  <2>3. f[1] = e[1] /\ f[Len(inner) + 2] = second
    BY <1>2, <1>4, <2>1
  <2>4. QED
    BY <1>2, <1>4, <2>1, <2>2, <2>3
<1>7. PICK k : k = f \o c
  OBVIOUS
<1>8. /\ k \in Seq(T) /\ Len(k) = Len(inner) + 3 /\ k[1] = first /\ k[Len(inner) + 2] = second
      /\ k[Len(inner) + 3] = third /\ \A i \in 1..Len(inner) : k[i + 1] = inner[i]
  <2>1. k \in Seq(T) /\ Len(k) = Len(f) + 1 /\ (\A i \in 1..Len(f) : k[i] = f[i]) /\ k[Len(f) + 1] = c[1]
    <3>1. k \in Seq(T) /\ Joins(k, f, c)
      BY <1>2, <1>6, <1>7, JoinIs
    <3>2. QED
      BY <1>2, <3>1 DEF Joins
  <2>2. \A i \in 1..Len(inner) : i + 1 \in 1..Len(f)
    BY <1>2, <1>6
  <2>3. k[1] = f[1] /\ k[Len(inner) + 2] = second /\ k[Len(inner) + 3] = third
    BY <1>2, <1>6, <2>1
  <2>4. QED
    BY <1>2, <1>6, <2>1, <2>2, <2>3
<1>9. text = k \o more
  BY <1>1, <1>3, <1>5, <1>7
<1>10. text \in Seq(T) /\ Len(text) = Len(inner) + 3 + Len(more) /\ \A i \in 1..Len(k) : text[i] = k[i]
  <2>1. text \in Seq(T) /\ Joins(text, k, more)
    BY <1>2, <1>8, <1>9, JoinIs
  <2>2. QED
    BY <1>8, <2>1 DEF Joins
<1>11. Frame(text, first, inner, second, third)
  <2>1. Len(text) \in Nat /\ Len(text) >= Len(inner) + 3
    BY <1>2, <1>10
  <2>2. text[1] = first /\ text[Len(inner) + 2] = second /\ text[Len(inner) + 3] = third
    <3>1. 1 \in 1..Len(k) /\ Len(inner) + 2 \in 1..Len(k) /\ Len(inner) + 3 \in 1..Len(k)
      BY <1>2, <1>8
    <3>2. QED
      BY <1>8, <1>10, <3>1
  <2>3. \A i \in 1..Len(inner) : text[i + 1] = inner[i]
    BY <1>2, <1>8, <1>10
  <2>4. QED
    BY <1>2, <2>1, <2>2, <2>3 DEF Frame
<1>12. QED
  BY <1>10, <1>11

\* A person's text between its heading and the next is what get_user_description cuts out.
LEMMA FramedPart ==
    ASSUME NEW T, NEW text \in Seq(T), NEW inner \in Seq(T), NEW g, Frame(text, UserHeading, inner, "rule", g),
           g \in Headings, g # UserHeading, Places(inner, Headings) = {}
    PROVE  UserPart(text) = inner
<1>1. Len(inner) \in Nat /\ Len(text) \in Nat /\ Len(text) >= Len(inner) + 3 /\ DOMAIN text = 1..Len(text) /\ DOMAIN inner = 1..Len(inner)
  BY DEF Frame
<1>2. text[1] = UserHeading /\ text[Len(inner) + 2] = "rule" /\ text[Len(inner) + 3] = g
  BY Zenon DEF Frame
<1>3. \A i \in 1..Len(inner) : text[i + 1] = inner[i]
  BY Zenon DEF Frame
<1>4. \A i \in 1..Len(inner) : inner[i] \notin Headings
  BY <1>1 DEF Places
<1>5. "rule" \notin Headings /\ UserHeading \in Headings
  BY DEF Headings, UserHeading
<1>6. PICK S : S = Places(text, {UserHeading})
  OBVIOUS
<1>7. 1 \in S /\ \A i \in S : 1 <= i
  BY <1>1, <1>2, <1>6 DEF Places
<1>8. Least(S) = 1
  BY <1>6, <1>7, LeastOf DEF LeastIn
<1>9. PICK ends : ends = Places(text, Headings \ {UserHeading})
  OBVIOUS
<1>10. Len(inner) + 3 \in ends
  BY <1>1, <1>2, <1>9 DEF Places
<1>11. ASSUME NEW i \in ends
       PROVE  Len(inner) + 3 <= i
  <2>1. i \in 1..Len(text) /\ text[i] \in Headings /\ text[i] # UserHeading
    BY <1>1, <1>9 DEF Places
  <2>2. i # 1 /\ i # Len(inner) + 2
    BY <1>2, <1>5, <2>1
  <2>3. SUFFICES ASSUME i < Len(inner) + 3 PROVE FALSE
    BY <1>1, <2>1
  <2>4. i - 1 \in 1..Len(inner) /\ (i - 1) + 1 = i
    BY <1>1, <2>1, <2>2, <2>3
  <2>5. text[i] = inner[i - 1]
    BY <1>3, <2>4
  <2>6. QED
    BY <1>4, <2>1, <2>4, <2>5
<1>12. Least(ends) = Len(inner) + 3
  <2>1. LeastIn(Len(inner) + 3, ends)
    BY <1>10, <1>11 DEF LeastIn
  <2>2. QED
    BY <1>9, <2>1, LeastOf
<1>13. PICK cut : cut = SubSeq(text, 2, Len(inner) + 2)
  OBVIOUS
<1>14. cut \in Seq(T) /\ Len(cut) = Len(inner) + 1 /\ \A i \in 1..(Len(inner) + 1) : cut[i] = text[i + 1]
  <2>1. \A i \in 2..(Len(inner) + 2) : text[i] \in T
    BY <1>1
  <2>2. QED
    BY <1>1, <1>13, <2>1, SubSeqProperties
<1>15. LessRule(cut) = inner
  <2>1. cut # <<>> /\ Last(cut) = "rule"
    BY <1>1, <1>2, <1>14 DEF Last
  <2>2. LessRule(cut) = SubSeq(cut, 1, Len(inner))
    <3>1. Len(cut) - 1 = Len(inner)
      BY <1>1, <1>14
    <3>2. QED
      BY <2>1, <3>1 DEF LessRule, Front
  <2>3. \A i \in 1..Len(inner) : cut[i] \in T /\ cut[i] = inner[i]
    BY <1>1, <1>3, <1>14
  <2>4. PICK q : q = SubSeq(cut, 1, Len(inner))
    OBVIOUS
  <2>5. q \in Seq(T) /\ Len(q) = Len(inner) /\ \A i \in 1..Len(inner) : q[i] = inner[i]
    BY <1>1, <2>3, <2>4, SubSeqProperties
  <2>6. q = inner
    BY <2>5, SeqEqual
  <2>7. QED
    BY <2>2, <2>4, <2>6
<1>16. text # <<>> /\ Head(text) \in Headings
  BY <1>1, <1>2, <1>5
<1>17. S # {} /\ ends # {} /\ Least(ends) > Least(S)
  BY <1>1, <1>7, <1>8, <1>10, <1>12
<1>18. UserPart(text) = LessRule(SubSeq(text, Least(S) + 1, Least(ends) - 1))
  BY <1>6, <1>9, <1>16, <1>17, Zenon DEF UserPart
<1>19. Least(S) + 1 = 2 /\ Least(ends) - 1 = Len(inner) + 2
  BY <1>1, <1>8, <1>12
<1>20. QED
  BY <1>13, <1>15, <1>18, <1>19

\* A description of which the only user heading would be among the generated ones has none.
LEMMA NoPart ==
    ASSUME NEW T, NEW text \in Seq(T), NEW g \in Headings, NEW more \in Seq(Generated), text = <<g>> \o more, g # UserHeading
    PROVE  UserPart(text) = <<>>
<1>1. PICK a : a = <<g>>
  OBVIOUS
<1>2. a \in Seq(Headings \cup Generated) /\ Len(a) = 1 /\ a[1] = g /\ more \in Seq(Headings \cup Generated)
  BY <1>1, SeqMonotonic
<1>3. Joins(text, a, more) /\ Len(more) \in Nat
  <2>1. text = a \o more
    BY <1>1
  <2>2. Joins(text, a, more)
    BY <1>2, <2>1, JoinIs
  <2>3. QED
    BY <2>2
<1>4. /\ Len(text) = 1 + Len(more) /\ text[1] = g
      /\ \A i \in 1..Len(more) : text[1 + i] = more[i]
  <2>1. 1 \in 1..Len(a)
    BY <1>2
  <2>2. QED
    BY <1>2, <1>3, <2>1 DEF Joins
<1>5. UserHeading \notin Generated
  BY DEF Generated, UserHeading
<1>6. ASSUME NEW i \in Places(text, {UserHeading})
      PROVE  FALSE
  <2>1. i \in 1..Len(text) /\ text[i] = UserHeading
    BY DEF Places
  <2>2. i - 1 \in 1..Len(more) /\ 1 + (i - 1) = i
    BY <1>3, <1>4, <2>1
  <2>3. text[i] = more[i - 1] /\ more[i - 1] \in Generated
    BY <1>4, <2>2
  <2>4. QED
    BY <1>5, <2>1, <2>3
<1>7. text # <<>> /\ Head(text) = g
  BY <1>3, <1>4
<1>8. Places(text, {UserHeading}) = {}
  BY <1>6
<1>9. QED
  BY <1>7, <1>8, Zenon DEF UserPart

\* What get_user_description reads back from a description is what went into it.
LEMMA PartIsReadBack ==
    ASSUME NEW user \in Seq(Tokens), Places(user, Headings) = {}, NEW answer, Recognized(answer)
    PROVE  UserPart(Described(user, answer)) = user
<1>1. PICK g \in {"### PR Type", "### Description"}, more \in Seq(Generated) :
          Described(user, answer) = (Begun(user) \o <<g>>) \o more
  BY PartIsFollowed
<1>2. g \in Headings /\ g # UserHeading
  BY DEF Headings, UserHeading
<1>3. g \in Tokens /\ UserHeading \in Tokens /\ "rule" \in Tokens /\ more \in Seq(Tokens)
  <2>1. Generated \subseteq Tokens /\ g \in Tokens /\ UserHeading \in Tokens /\ "rule" \in Tokens
    BY TokensHold
  <2>2. QED
    BY <2>1, SeqMonotonic
<1>4. Described(user, answer) \in Seq(Tokens)
  BY DescribedIs
<1>5. CASE user = <<>>
  <2>1. <<>> \o <<g>> = <<g>>
    <3>1. <<g>> \in Seq(Tokens)
      BY <1>3, OneToken
    <3>2. QED
      BY <3>1, ConcatEmptySeq
  <2>2. Described(user, answer) = <<g>> \o more
    BY <1>1, <1>5, <2>1, Zenon DEF Begun
  <2>3. QED
    BY <1>2, <1>4, <1>5, <2>2, NoPart
<1>6. CASE user # <<>>
  <2>1. Described(user, answer) = (((<<UserHeading>> \o user) \o <<"rule">>) \o <<g>>) \o more
    BY <1>1, <1>6, Zenon DEF Begun
  <2>2. Frame(Described(user, answer), UserHeading, user, "rule", g)
    BY <1>3, <2>1, FrameIs
  <2>3. QED
    BY <1>2, <1>4, <2>2, FramedPart
<1>7. QED
  BY <1>5, <1>6

\* Descriptions, and what a provider remembers of one, are sequences of tokens.
TextsOf(p) == p.text \in Seq(Tokens) /\ p.user \in Seq(Tokens)
TextInv == mrText \in Seq(Tokens) /\ \A r \in Requests : TextsOf(requests[r])

LEMMA UncachedIs == Uncached \in Seq(Tokens) /\ <<>> \in Seq(Tokens)
<1>1. "not read" \in Tokens
  BY TokensHold
<1>2. <<"not read">> \in Seq(Tokens)
  BY <1>1, OneToken
<1>3. <<>> \in Seq(Tokens)
  OBVIOUS
<1>4. QED
  BY <1>2, <1>3, Zenon DEF Uncached

LEMMA TextStarts ==
    ASSUME ToolInit
    PROVE  TextInv
<1>1. TextsOf(Resting)
  BY UncachedIs DEF TextsOf, Resting
<1>2. QED
  BY <1>1, TextsAreSequences DEF ToolInit, TextInv

LEMMA PlaceTexts ==
    ASSUME PlacesInv, TextInv, mrText' \in Seq(Tokens), NEW r \in Requests, NEW p, TextsOf(p),
           requests' = [requests EXCEPT ![r] = p]
    PROVE  TextInv'
<1>1. \A q \in Requests : requests'[q] = IF q = r THEN p ELSE requests[q]
  BY DEF PlacesInv
<1>2. QED
  BY <1>1 DEF TextInv, TextsOf

LEMMA EndTexts ==
    ASSUME PlacesInv, TextInv, mrText' \in Seq(Tokens), NEW r \in Requests, NEW p, DOMAIN p = PlaceFields,
           TextsOf(p), EndCommand(r, p)
    PROVE  TextInv'
<1>1. PICK q : q = [p EXCEPT !.pc = "next", !.todo = Tail(@)]
  OBVIOUS
<1>2. q.text = p.text /\ q.user = p.user
  BY <1>1, Fields
<1>3. TextsOf(q)
  BY <1>2 DEF TextsOf
<1>4. requests' = [requests EXCEPT ![r] = q]
  BY <1>1 DEF EndCommand
<1>5. QED
  BY <1>3, <1>4, PlaceTexts

LEMMA SavedTexts ==
    ASSUME NEW p, DOMAIN p = PlaceFields, TextsOf(p), NEW text \in Seq(Tokens), NEW labels
    PROVE  DOMAIN Saved(p, text, labels) = PlaceFields /\ TextsOf(Saved(p, text, labels))
<1>1. Saved(p, text, labels).text = text /\ Saved(p, text, labels).user = p.user
  BY Fields DEF Saved
<1>2. QED
  BY <1>1, SavedKeeps DEF TextsOf

LEMMA SeenIs ==
    ASSUME NEW p, TextsOf(p)
    PROVE  UserPartSeen(p) \in Seq(Tokens) /\ Remembered(p) \in Seq(Tokens)
<1>1. p.text \in Seq(Tokens) /\ p.user \in Seq(Tokens)
  BY DEF TextsOf
<1>2. UserPart(p.text) \in Seq(Tokens)
  BY <1>1, UserPartIs
<1>3. QED
  BY <1>1, <1>2 DEF UserPartSeen, Remembered

LEMMA WriteTexts ==
    ASSUME PlacesInv, TextInv, NEW r \in Requests, NEW new, WriteLabels(r, requests[r], new)
    PROVE  TextInv'
<1>1. DOMAIN requests[r] = PlaceFields /\ TextsOf(requests[r]) /\ mrText \in Seq(Tokens)
  BY DEF PlacesInv, TextInv
<1>2. mrText' \in Seq(Tokens)
  BY <1>1 DEF WriteLabels, TextSent, TextsOf
<1>3. PICK p : p = Saved(requests[r], mrText', new)
  OBVIOUS
<1>4. DOMAIN p = PlaceFields /\ TextsOf(p)
  BY <1>1, <1>2, <1>3, SavedTexts
<1>5. EndCommand(r, p)
  BY <1>3 DEF WriteLabels
<1>6. QED
  BY <1>2, <1>4, <1>5, EndTexts

LEMMA DescribeTexts ==
    ASSUME PlacesInv, TextInv, NEW r \in Requests, NEW answer, DescribeMR(r, answer)
    PROVE  TextInv'
<1>1. DOMAIN requests[r] = PlaceFields /\ TextsOf(requests[r]) /\ mrText \in Seq(Tokens)
  BY DEF PlacesInv, TextInv
<1> DEFINE new == DescribeLabels(requests[r].labels, answer)
           writes == toolConf.labels /\ answer.labels # {} /\ new # requests[r].labels
           text == Described(UserPartSeen(requests[r]), answer)
<1>2. \/ mrText' = text /\ EndCommand(r, Saved(requests[r], text, mrLabels'))
      \/ /\ mrText' = (IF writes THEN TextSent(requests[r]) ELSE mrText)
         /\ EndCommand(r, [requests[r] EXCEPT !.text = text, !.dirty = TRUE,
                                              !.labels = IF writes THEN new ELSE requests[r].labels])
  BY Zenon DEF DescribeMR
<1>3. text \in Seq(Tokens)
  BY <1>1, SeenIs, DescribedIs
<1> HIDE DEF new, writes, text
<1>4. CASE mrText' = text /\ EndCommand(r, Saved(requests[r], text, mrLabels'))
  <2>1. PICK p : p = Saved(requests[r], text, mrLabels')
    OBVIOUS
  <2>2. DOMAIN p = PlaceFields /\ TextsOf(p)
    BY <1>1, <1>3, <2>1, SavedTexts
  <2>3. QED
    BY <1>3, <1>4, <2>1, <2>2, EndTexts
<1>5. CASE /\ mrText' = (IF writes THEN TextSent(requests[r]) ELSE mrText)
           /\ EndCommand(r, [requests[r] EXCEPT !.text = text, !.dirty = TRUE,
                                                !.labels = IF writes THEN new ELSE requests[r].labels])
  <2>1. mrText' \in Seq(Tokens)
    BY <1>1, <1>5 DEF TextSent, TextsOf
  <2>2. PICK p : p = [requests[r] EXCEPT !.text = text, !.dirty = TRUE,
                                         !.labels = IF writes THEN new ELSE requests[r].labels]
    OBVIOUS
  <2>3. DOMAIN p = PlaceFields /\ p.text = text /\ p.user = requests[r].user
    BY <1>1, <2>2, Fields
  <2>4. TextsOf(p)
    BY <1>1, <1>3, <2>3 DEF TextsOf
  <2>5. EndCommand(r, p)
    BY <1>5, <2>2, Zenon
  <2>6. QED
    BY <2>1, <2>3, <2>4, <2>5, EndTexts
<1>6. QED
  BY <1>2, <1>4, <1>5, Zenon

LEMMA AnswerTexts ==
    ASSUME PlacesInv, TextInv, NEW r \in Requests, AnswerCommand(r)
    PROVE  TextInv'
<1>1. DOMAIN requests[r] = PlaceFields /\ TextsOf(requests[r]) /\ mrText \in Seq(Tokens)
  BY DEF PlacesInv, TextInv
<1>2. ASSUME EndCommand(r, requests[r]), UNCHANGED mrText
      PROVE  TextInv'
  BY <1>1, <1>2, EndTexts
<1>3. CASE ReviewMR(r)
  BY <1>2, <1>3, WriteTexts DEF ReviewMR, NoWrite
<1>4. CASE UpdateChangelog(r) \/ Reply(r)
  BY <1>2, <1>4 DEF UpdateChangelog, Reply
<1>5. ASSUME NEW answer, DescribeMR(r, answer)
      PROVE  TextInv'
  BY <1>5, DescribeTexts
<1>6. ASSUME NEW answer, GenerateLabels(r, answer)
      PROVE  TextInv'
  BY <1>6, WriteTexts DEF GenerateLabels
<1>7. QED
  BY <1>3, <1>4, <1>5, <1>6 DEF AnswerCommand

LEMMA ReceiveTexts ==
    ASSUME PlacesInv, TextInv, NEW r \in Requests, ReceiveRequest(r)
    PROVE  TextInv'
<1>1. mrText' = mrText /\ mrText \in Seq(Tokens)
  BY DEF ReceiveRequest, TextInv
<1>2. PICK commands : requests' = [requests EXCEPT ![r] = [Resting EXCEPT !.pc = "next", !.todo = commands,
                                                              !.text = mrText, !.labels = mrLabels]]
  BY DEF ReceiveRequest
<1>3. PICK p : p = [Resting EXCEPT !.pc = "next", !.todo = commands, !.text = mrText, !.labels = mrLabels]
  OBVIOUS
<1>4. p.text = mrText /\ p.user = Uncached
  BY <1>3 DEF Resting
<1>5. TextsOf(p)
  BY <1>1, <1>4, UncachedIs DEF TextsOf
<1>6. QED
  BY <1>1, <1>2, <1>3, <1>5, PlaceTexts

LEMMA StartTexts ==
    ASSUME PlacesInv, TextInv, NEW r \in Requests, StartCommand(r)
    PROVE  TextInv'
<1>1. DOMAIN requests[r] = PlaceFields /\ TextsOf(requests[r]) /\ mrText' = mrText /\ mrText \in Seq(Tokens)
  BY DEF PlacesInv, TextInv, StartCommand
<1>2. Remembered(requests[r]) \in Seq(Tokens) /\ requests[r].user \in Seq(Tokens)
  BY <1>1, SeenIs DEF TextsOf
<1>3. PICK user : user = IF Command(r) = "describe" THEN Remembered(requests[r]) ELSE requests[r].user
  OBVIOUS
<1>4. user \in Seq(Tokens)
  BY <1>2, <1>3
<1>5. CASE requests' = [requests EXCEPT ![r] = [requests[r] EXCEPT !.pc = "asking",
                          !.user = IF Command(r) = "describe" THEN Remembered(requests[r]) ELSE @,
                          !.file = changelog, !.seen = pushes, !.unread = FALSE]]
  <2>1. PICK p : p = [requests[r] EXCEPT !.pc = "asking", !.user = user,
                        !.file = changelog, !.seen = pushes, !.unread = FALSE]
    OBVIOUS
  <2>2. p.text = requests[r].text /\ p.user = user
    BY <1>1, <2>1, Fields
  <2>3. TextsOf(p)
    BY <1>1, <1>4, <2>2 DEF TextsOf
  <2>4. requests' = [requests EXCEPT ![r] = p]
    BY <1>3, <1>5, <2>1
  <2>5. QED
    BY <1>1, <2>3, <2>4, PlaceTexts
<1>6. CASE requests' = [requests EXCEPT ![r] = [requests[r] EXCEPT !.pc = "asking", !.file = <<>>, !.unread = TRUE]]
  <2>1. PICK p : p = [requests[r] EXCEPT !.pc = "asking", !.file = <<>>, !.unread = TRUE]
    OBVIOUS
  <2>2. p.text = requests[r].text /\ p.user = requests[r].user
    BY <1>1, <2>1, Fields
  <2>3. TextsOf(p)
    BY <1>1, <2>2 DEF TextsOf
  <2>4. requests' = [requests EXCEPT ![r] = p]
    BY <1>6, <2>1
  <2>5. QED
    BY <1>1, <2>3, <2>4, PlaceTexts
<1>7. QED
  BY <1>5, <1>6 DEF StartCommand

LEMMA NextTexts ==
    ASSUME PlacesInv, TextInv, [ToolNext]_toolVars
    PROVE  TextInv'
<1>1. CASE UNCHANGED <<mrText, requests>>
  BY <1>1 DEF TextInv, TextsOf
<1>2. CASE WriteText
  BY <1>2, TextsAreSequences DEF WriteText, PersonActs, TextInv, TextsOf
<1>3. ASSUME NEW r \in Requests, NoAnswer(r)
      PROVE  TextInv'
  <2>1. DOMAIN requests[r] = PlaceFields /\ TextsOf(requests[r]) /\ mrText' = mrText /\ mrText \in Seq(Tokens)
    BY <1>3 DEF PlacesInv, TextInv, NoAnswer
  <2>2. PICK p : p = [requests[r] EXCEPT !.fine = FALSE]
    OBVIOUS
  <2>3. DOMAIN p = PlaceFields /\ p.text = requests[r].text /\ p.user = requests[r].user
    BY <2>1, <2>2, Fields
  <2>4. TextsOf(p) /\ EndCommand(r, p)
    BY <1>3, <2>1, <2>2, <2>3 DEF TextsOf, NoAnswer
  <2>5. QED
    BY <2>1, <2>3, <2>4, EndTexts
<1>4. QED
  BY <1>1, <1>2, <1>3, ReceiveTexts, StartTexts, AnswerTexts
  DEF ToolNext, AddLabel, CommitEntry, PersonActs, toolVars

\* A description that /describe writes over one it knows holds the same user's part.
LEMMA PartStays ==
    ASSUME TextInv, NEW r \in Requests, UserPart(mrText) = UserPartSeen(requests[r]),
           Places(UserPart(mrText), Headings) = {}, ByRecognized(r)
    PROVE  UserPart(mrText') = UserPart(mrText)
<1>1. PICK answer \in Answers : Recognized(answer) /\ mrText' = Described(UserPartSeen(requests[r]), answer)
  BY DEF ByRecognized
<1>2. PICK user : user = UserPart(mrText)
  OBVIOUS
<1>3. user \in Seq(Tokens)
  BY <1>2, UserPartIs DEF TextInv
<1>4. UserPart(Described(user, answer)) = user
  BY <1>1, <1>2, <1>3, PartIsReadBack
<1>5. QED
  BY <1>1, <1>2, <1>4

\* What a person wrote survives any number of runs of /describe, for any text without a
\* generated heading, any answer that titles a section as the tool expects it, and any
\* requests, people and failures in between.
THEOREM UserTextLasts == ToolSpec => UserTextStays
<1>1. ToolInit => PlacesInv /\ TextInv
  BY ToolStarts, TextStarts
<1>2. PlacesInv /\ TextInv /\ [ToolNext]_toolVars => PlacesInv' /\ TextInv'
  BY NextPlaces, NextTexts
<1>3. PlacesInv /\ TextInv /\ [ToolNext]_toolVars =>
        [\A r \in Requests :
            (/\ Acts(r) /\ mrText' # mrText /\ requests[r].text = mrText
             /\ UserPart(mrText) = UserPartSeen(requests[r])
             /\ Places(UserPart(mrText), Headings) = {} /\ ByRecognized(r))
                => UserPart(mrText') = UserPart(mrText)]_toolVars
  BY PartStays
<1>4. QED
  BY <1>1, <1>2, <1>3, PTL DEF ToolSpec, UserTextStays

\* Whatever the tools of overlapping requests rewrite (the description, the labels, the
\* changelog file), what people wrote stays.
THEOREM PeoplesWorkLasts == ToolSpec => PeoplesWorkStays
BY UserTextLasts, LabelsOutlive, ChangelogOutlives DEF PeoplesWorkStays

-----------------------------------------------------------------------------
(* Settings (RequestSettings): a hook and what it holds. *)

HookSet == [pc : {"idle", "received", "starting", "scheduled", "running", "done"}, repo : Repos, payload : Payloads,
            own : Settings, todo : Seq(SUBSET SettingKeys), given : SUBSET SettingKeys, files : Read]

\* Settings whose instructions hold nothing twice.
Fine(s) == s \in Settings /\ IsInjective(s.added)

LEMMA SourcesDiffer ==
    /\ Default # Env /\ {Default, Env, Artifact, From("extra", "host"), From("global", "org")} \subseteq Sources
    /\ \A h \in Hooks : From("arg", h) \in Sources /\ From("arg", h) # Default /\ From("arg", h) # Env
    /\ \A r \in Repos : From("local", r) \in Sources
BY DEF From, Default, Env, Artifact, Sources

LEMMA StartIsFine == Fine(Start) /\ Start.auto = FALSE /\ Start.added = <<>>
                     /\ \A k \in SettingKeys : Start.value[k] = IF k \in environment THEN Env ELSE Default
BY SourcesDiffer DEF Fine, Settings, Start, IsInjective

LEMMA OverlayIsFine ==
    ASSUME NEW s, Fine(s), NEW keys, NEW source \in Sources
    PROVE  /\ Fine(Overlay(s, keys, source))
           /\ Overlay(s, keys, source).auto = s.auto
           /\ Overlay(s, keys, source).added \in {s.added, <<>>}
           /\ \A k \in SettingKeys : Overlay(s, keys, source).value[k] = IF k \in keys THEN source ELSE s.value[k]
<1> DEFINE t == Overlay(s, keys, source)
<1>1. s \in Settings /\ IsInjective(s.added)
  BY DEF Fine
<1>2. t \in Settings
  <2>1. s.value \in [SettingKeys -> Sources] /\ s.added \in Seq(Sources) /\ s.auto \in BOOLEAN
    BY <1>1 DEF Settings
  <2>2. <<>> \in Seq(Sources)
    OBVIOUS
  <2>3. PICK v \in [SettingKeys -> Sources], a \in Seq(Sources), b \in BOOLEAN : s = [value |-> v, added |-> a, auto |-> b]
    BY <1>1 DEF Settings
  <2>4. PICK w \in [SettingKeys -> Sources] : w = [k \in SettingKeys |-> IF k \in keys THEN source ELSE s.value[k]]
    BY <2>1
  <2>5. PICK d \in Seq(Sources) : d = IF "extra_instructions" \in keys THEN <<>> ELSE s.added
    BY <2>1, <2>2
  <2>6. t = [s EXCEPT !.value = w, !.added = d]
    BY <2>4, <2>5 DEF Overlay
  <2> HIDE DEF t
  <2>7. t = [value |-> w, added |-> d, auto |-> b]
    BY <2>3, <2>6
  <2> QED BY <2>7 DEF Settings
<1>3. t.auto = s.auto /\ t.added \in {s.added, <<>>}
  BY <1>1 DEF Settings, Overlay
<1>4. \A k \in SettingKeys : t.value[k] = IF k \in keys THEN source ELSE s.value[k]
  BY <1>1 DEF Settings, Overlay
<1>5. IsInjective(<<>>)
  BY DEF IsInjective
<1> HIDE DEF t
<1>6. IsInjective(t.added)
  BY <1>1, <1>3, <1>5
<1>7. Fine(t)
  BY <1>2, <1>6 DEF Fine
<1> QED BY <1>3, <1>4, <1>7 DEF t

\* What files leave of the value of a key.
LaidOver(s, t) == Fine(t) /\ t.auto = s.auto /\ t.added \in {s.added, <<>>}
FileSays(s, file, source, k) ==
    IF file = NoFile \/ ~file.fine THEN s.value[k]
    ELSE IF k \in environment THEN Env ELSE IF k \in file.keys \ HostOnly THEN source ELSE s.value[k]
LEMMA FileIsLaid ==
    ASSUME NEW s, Fine(s), NEW file \in SettingsFile, NEW source \in Sources
    PROVE  /\ LaidOver(s, WithFile(s, file, source))
           /\ \A k \in SettingKeys : WithFile(s, file, source).value[k] = FileSays(s, file, source, k)
<1> DEFINE low == Overlay(s, file.keys \ HostOnly, source)
           top == Overlay(low, environment, Env)
<1>1. LaidOver(s, low) /\ \A k \in SettingKeys : low.value[k] = IF k \in file.keys \ HostOnly THEN source ELSE s.value[k]
  BY OverlayIsFine DEF LaidOver
<1>2. LaidOver(low, top) /\ \A k \in SettingKeys : top.value[k] = IF k \in environment THEN Env ELSE low.value[k]
  <2>1. Fine(low) /\ Env \in Sources
    BY <1>1, SourcesDiffer DEF LaidOver
  <2> HIDE DEF low
  <2> QED BY <2>1, OverlayIsFine DEF LaidOver
<1>3. WithFile(s, file, source) = IF file = NoFile \/ ~file.fine THEN s ELSE top
  BY DEF WithFile, EnvOnTop
<1> HIDE DEF low, top
<1> QED BY <1>1, <1>2, <1>3 DEF LaidOver, FileSays

ExtraSays(s, k) ==
    IF extraFile = NoFile THEN s.value[k]
    ELSE IF k \in environment THEN Env
    ELSE IF extraFile.fine /\ k \in extraFile.keys THEN From("extra", "host") ELSE s.value[k]
LEMMA ExtraIsLaid ==
    ASSUME NEW s, Fine(s), extraFile \in SettingsFile
    PROVE  LaidOver(s, WithExtra(s)) /\ \A k \in SettingKeys : WithExtra(s).value[k] = ExtraSays(s, k)
<1> DEFINE keys == IF extraFile.fine THEN extraFile.keys ELSE {}
           low == Overlay(s, keys, From("extra", "host"))
           top == Overlay(low, environment, Env)
<1>1. LaidOver(s, low) /\ \A k \in SettingKeys : low.value[k] = IF k \in keys THEN From("extra", "host") ELSE s.value[k]
  <2>1. From("extra", "host") \in Sources
    BY SourcesDiffer
  <2> HIDE DEF keys
  <2> QED BY <2>1, OverlayIsFine DEF LaidOver
<1>2. LaidOver(low, top) /\ \A k \in SettingKeys : top.value[k] = IF k \in environment THEN Env ELSE low.value[k]
  <2>1. Fine(low) /\ Env \in Sources
    BY <1>1, SourcesDiffer DEF LaidOver
  <2> HIDE DEF low
  <2> QED BY <2>1, OverlayIsFine DEF LaidOver
<1>3. WithExtra(s) = IF extraFile = NoFile THEN s ELSE top
  BY DEF WithExtra, EnvOnTop
<1>4. \A k : k \in keys <=> extraFile.fine /\ k \in extraFile.keys
  OBVIOUS
<1> HIDE DEF keys, low, top
<1> QED BY <1>1, <1>2, <1>3, <1>4 DEF LaidOver, ExtraSays

\* The value of a key after all the files, and whether any was applied.
Laid(s, files, repo, k) ==
    IF AnyFile(files) /\ k \in environment THEN Env
    ELSE IF Says(files.local, k) /\ k \notin HostOnly THEN From("local", repo)
    ELSE IF Says(files.global, k) /\ k \notin HostOnly THEN From("global", "org")
    ELSE IF Says(extraFile, k) THEN From("extra", "host")
    ELSE s.value[k]
LEMMA FilesAreLaid ==
    ASSUME NEW s, Fine(s), NEW files \in Read, NEW repo \in Repos, extraFile \in SettingsFile
    PROVE  /\ LaidOver(s, Applied(s, files, repo))
           /\ \A k \in SettingKeys : Applied(s, files, repo).value[k] = Laid(s, files, repo, k)
<1> DEFINE e == WithExtra(s)
           g == WithFile(e, files.global, From("global", "org"))
           l == WithFile(g, files.local, From("local", repo))
<1>0. files.global \in SettingsFile /\ files.local \in SettingsFile /\ NoFile.keys = {}
  <2>1. NoFile.keys = {} /\ NoFile \in SettingsFile
    BY DEF NoFile, SettingsFile
  <2>2. GlobalFiles \subseteq SettingsFile /\ LocalFiles \subseteq SettingsFile
    BY SettingsAssumption
  <2>3. files.global \in GlobalFiles \cup {NoFile} /\ files.local \in LocalFiles \cup {NoFile}
    BY DEF Read
  <2> QED BY <2>1, <2>2, <2>3
<1>1. LaidOver(s, e) /\ \A k \in SettingKeys : e.value[k] = ExtraSays(s, k)
  BY ExtraIsLaid
<1>2. LaidOver(e, g) /\ \A k \in SettingKeys : g.value[k] = FileSays(e, files.global, From("global", "org"), k)
  <2>1. Fine(e) /\ From("global", "org") \in Sources
    BY <1>1, SourcesDiffer DEF LaidOver
  <2> HIDE DEF e
  <2> QED BY <2>1, <1>0, FileIsLaid
<1>3. LaidOver(g, l) /\ \A k \in SettingKeys : l.value[k] = FileSays(g, files.local, From("local", repo), k)
  <2>1. Fine(g) /\ From("local", repo) \in Sources
    BY <1>2, SourcesDiffer DEF LaidOver
  <2> HIDE DEF g
  <2> QED BY <2>1, <1>0, FileIsLaid
<1>4. l = Applied(s, files, repo)
  BY DEF Applied
<1> HIDE DEF e, g, l
<1>5. LaidOver(s, l)
  BY <1>1, <1>2, <1>3 DEF LaidOver
<1>6. ASSUME NEW k \in SettingKeys PROVE l.value[k] = Laid(s, files, repo, k)
  <2>1. /\ e.value[k] = ExtraSays(s, k)
        /\ g.value[k] = FileSays(e, files.global, From("global", "org"), k)
        /\ l.value[k] = FileSays(g, files.local, From("local", repo), k)
    BY <1>1, <1>2, <1>3
  <2>2. AnyFile(files) <=> \/ extraFile # NoFile
                           \/ files.global # NoFile /\ files.global.fine
                           \/ files.local # NoFile /\ files.local.fine
    BY DEF AnyFile
  <2>3. ~Says(NoFile, k)
    BY <1>0 DEF Says
  <2>4. extraFile.fine \in BOOLEAN /\ files.global.fine \in BOOLEAN /\ files.local.fine \in BOOLEAN
    BY <1>0 DEF SettingsFile
  <2> HIDE <1>0
  <2>5. CASE k \in environment
    BY <2>1, <2>2, <2>3, <2>4, <2>5 DEF ExtraSays, FileSays, Says, Laid
  <2>6. CASE k \notin environment
    BY <2>1, <2>2, <2>3, <2>4, <2>6 DEF ExtraSays, FileSays, Says, Laid
  <2> QED BY <2>5, <2>6
<1> QED BY <1>4, <1>5, <1>6

LEMMA OneMore ==
    ASSUME NEW seq \in Seq(Sources), IsInjective(seq), NEW e \in Sources, e \notin ToSet(seq)
    PROVE  /\ Append(seq, e) \in Seq(Sources) /\ IsInjective(Append(seq, e))
           /\ ToSet(Append(seq, e)) = ToSet(seq) \cup {e}
<1>1. /\ DOMAIN seq = 1 .. Len(seq) /\ Len(seq) \in Nat
      /\ DOMAIN Append(seq, e) = 1 .. Len(seq) + 1 /\ Append(seq, e) \in Seq(Sources)
      /\ Append(seq, e)[Len(seq) + 1] = e
      /\ \A i \in 1 .. Len(seq) : Append(seq, e)[i] = seq[i]
  OBVIOUS
<1>2. \A i \in DOMAIN seq : seq[i] # e
  BY DEF ToSet
<1> DEFINE t == Append(seq, e)
<1>3. ASSUME NEW i \in DOMAIN t, NEW j \in DOMAIN t, t[i] = t[j]
      PROVE  i = j
  <2> HIDE DEF t
  <2> QED BY <1>1, <1>2, <1>3 DEF IsInjective, t
<1>4. ToSet(t) = ToSet(seq) \cup {e}
  <2>1. ASSUME NEW x \in ToSet(t) PROVE x \in ToSet(seq) \cup {e}
    BY <1>1, <2>1 DEF ToSet
  <2>2. ASSUME NEW x \in ToSet(seq) \cup {e} PROVE x \in ToSet(t)
    <3>1. CASE x = e
      BY <1>1, <3>1 DEF ToSet
    <3>2. CASE x \in ToSet(seq)
      <4>1. PICK i \in DOMAIN seq : x = seq[i]
        BY <3>2 DEF ToSet
      <4>2. i \in DOMAIN t /\ t[i] = x
        BY <1>1, <4>1
      <4> QED BY <4>2 DEF ToSet
    <3> QED BY <2>2, <3>1, <3>2
  <2> QED BY <2>1, <2>2
<1>5. IsInjective(t)
  BY <1>3 DEF IsInjective
<1> QED BY <1>1, <1>4, <1>5

\* Settings that differ by one instruction at most.
Instructed(s, t, e) ==
    /\ Fine(t) /\ t.value = s.value /\ t.auto = s.auto
    /\ ToSet(t.added) = ToSet(s.added) \cup {e}
LEMMA InstructedWell ==
    ASSUME NEW s, Fine(s), NEW e \in Sources, e \notin ToSet(s.added)
    PROVE  Instructed(s, [s EXCEPT !.added = Append(@, e)], e)
<1>1. PICK v \in [SettingKeys -> Sources], a \in Seq(Sources), b \in BOOLEAN : s = [value |-> v, added |-> a, auto |-> b]
  BY DEF Fine, Settings
<1>2. /\ Append(a, e) \in Seq(Sources) /\ IsInjective(Append(a, e)) /\ ToSet(Append(a, e)) = ToSet(a) \cup {e}
  <2>1. IsInjective(a) /\ e \notin ToSet(a)
    BY <1>1 DEF Fine
  <2> QED BY <2>1, OneMore
<1>3. PICK c \in Seq(Sources) : c = Append(a, e)
  BY <1>2
<1>4. [s EXCEPT !.added = Append(@, e)] = [value |-> v, added |-> c, auto |-> b]
  <2>1. s.added = a
    BY <1>1
  <2>2. [s EXCEPT !.added = Append(@, e)] = [s EXCEPT !.added = c]
    BY <1>3, <2>1
  <2>3. [s EXCEPT !.added = c] = [value |-> v, added |-> c, auto |-> b]
    BY <1>1
  <2> QED BY <2>2, <2>3
<1>5. [value |-> v, added |-> c, auto |-> b] \in Settings
  BY DEF Settings
<1> QED BY <1>1, <1>2, <1>3, <1>4, <1>5 DEF Instructed, Fine

Tongue(s) == s.value["response_language"]
LEMMA LanguageIsSpoken ==
    ASSUME NEW s, Fine(s)
    PROVE  /\ Fine(Spoken(s)) /\ Spoken(s).value = s.value /\ Spoken(s).auto = s.auto
           /\ ToSet(Spoken(s).added) = ToSet(s.added) \cup ({Tongue(s)} \ {Default})
<1>1. Tongue(s) \in Sources
  BY DEF Tongue, Fine, Settings, SettingKeys
<1>2. CASE Tongue(s) \in ToSet(s.added) /\ Tongue(s) # Default
  BY <1>2 DEF Spoken, Tongue
<1>3. CASE Tongue(s) = Default
  BY <1>3 DEF Spoken, SpokenAgain, Tongue
<1>4. CASE Tongue(s) \notin ToSet(s.added) /\ Tongue(s) # Default
  <2>1. Spoken(s) = [s EXCEPT !.added = Append(@, Tongue(s))]
    BY <1>4 DEF Spoken, SpokenAgain, Tongue
  <2>2. Instructed(s, Spoken(s), Tongue(s))
    BY <1>1, <1>4, <2>1, InstructedWell
  <2> QED BY <1>4, <2>2 DEF Instructed
<1> QED BY <1>2, <1>3, <1>4

LEMMA ArtifactIsAdded ==
    ASSUME NEW s, Fine(s)
    PROVE  Fine(WithArtifact(s))
<1>1. CASE Artifact \in ToSet(s.added)
  BY <1>1 DEF WithArtifact
<1>2. CASE Artifact \notin ToSet(s.added)
  <2>1. Instructed(s, WithArtifact(s), Artifact)
    BY <1>2, SourcesDiffer, InstructedWell DEF WithArtifact
  <2> QED BY <2>1 DEF Instructed
<1> QED BY <1>1, <1>2


-----------------------------------------------------------------------------
(* The value in force. *)

LEMMA FileTypes ==
    ASSUME NEW files \in Read, extraFile \in SettingsFile
    PROVE  /\ files.global \in SettingsFile /\ files.local \in SettingsFile
           /\ {files.global.fine, files.local.fine, extraFile.fine, files.read} \subseteq BOOLEAN
           /\ \A k : ~AnyFile(files) => ~Says(files.local, k) /\ ~Says(files.global, k) /\ ~Says(extraFile, k)
<1>1. NoFile \in SettingsFile /\ NoFile.keys = {} /\ NoFile.fine = TRUE
  BY DEF NoFile, SettingsFile
<1>2. GlobalFiles \subseteq SettingsFile /\ LocalFiles \subseteq SettingsFile
  BY SettingsAssumption
<1>3. files.global \in GlobalFiles \cup {NoFile} /\ files.local \in LocalFiles \cup {NoFile} /\ files.read \in BOOLEAN
  BY DEF Read
<1>4. files.global \in SettingsFile /\ files.local \in SettingsFile
  BY <1>1, <1>2, <1>3
<1>5. {files.global.fine, files.local.fine, extraFile.fine} \subseteq BOOLEAN
  BY <1>4 DEF SettingsFile
<1>6. ASSUME NEW k, ~AnyFile(files)
      PROVE  ~Says(files.local, k) /\ ~Says(files.global, k) /\ ~Says(extraFile, k)
  BY <1>1, <1>5, <1>6 DEF AnyFile, Says
<1> QED BY <1>3, <1>4, <1>5, <1>6

LEMMA FirstInForce ==
    ASSUME NEW p, NEW h, NEW k \in SettingKeys, Automatic(p), p.given = {},
           p.files \in Read, extraFile \in SettingsFile
    PROVE  Laid(Start, p.files, p.repo, k) = InForce(p, h, k)
<1>1. Start.value[k] = IF k \in environment THEN Env ELSE Default
  BY StartIsFine
<1>2. ~AnyFile(p.files) => ~Says(p.files.local, k) /\ ~Says(p.files.global, k) /\ ~Says(extraFile, k)
  BY FileTypes
<1> QED BY <1>1, <1>2 DEF InForce, Laid

LEMMA ArgumentsAreLaid ==
    ASSUME NEW s, Fine(s), NEW keys, NEW h \in Hooks
    PROVE  /\ LaidOver(s, WithArgs(s, keys, h))
           /\ \A k \in SettingKeys : WithArgs(s, keys, h).value[k] = IF k \in keys THEN From("arg", h) ELSE s.value[k]
BY SourcesDiffer, OverlayIsFine DEF WithArgs, LaidOver

\* What the next configured command's arguments make of the value of a key.
NextValue(s, t, h, k) == t.value[k] = s.value[k] \/ (t.value[k] = From("arg", h) /\ s.value[k] \in {Default, Env})
LEMMA NextInForce ==
    ASSUME NEW p, NEW q, NEW h \in Hooks, NEW args, NEW s, NEW k \in SettingKeys,
           Fine(s), extraFile \in SettingsFile, p.files \in Read, p.repo \in Repos,
           Automatic(p), Automatic(q), q.files = p.files, q.repo = p.repo, q.given = p.given \cup args,
           s.value[k] = InForce(p, h, k)
    PROVE  LET t == Applied(WithArgs(s, args, h), p.files, p.repo)
           IN  t.value[k] = InForce(q, h, k) /\ NextValue(s, t, h, k)
<1> DEFINE w == WithArgs(s, args, h)
           t == Applied(w, p.files, p.repo)
<1>1. Fine(w) /\ w.value[k] = IF k \in args THEN From("arg", h) ELSE s.value[k]
  BY ArgumentsAreLaid DEF LaidOver
<1>2. t.value[k] = Laid(w, p.files, p.repo, k)
  <2> HIDE DEF w
  <2> QED BY <1>1, FilesAreLaid
<1>3. /\ ~AnyFile(p.files) => ~Says(p.files.local, k) /\ ~Says(p.files.global, k) /\ ~Says(extraFile, k)
  BY FileTypes
<1> HIDE DEF w, t
<1>4. InForce(p, h, k) = IF k \in p.given /\ ~AnyFile(p.files) THEN From("arg", h)
        ELSE IF k \in environment THEN Env
        ELSE IF Says(p.files.local, k) /\ k \notin HostOnly THEN From("local", p.repo)
        ELSE IF Says(p.files.global, k) /\ k \notin HostOnly THEN From("global", "org")
        ELSE IF Says(extraFile, k) THEN From("extra", "host")
        ELSE IF k \in p.given THEN From("arg", h)
        ELSE Default
  BY DEF InForce
<1>5. InForce(q, h, k) = IF (k \in p.given \/ k \in args) /\ ~AnyFile(p.files) THEN From("arg", h)
        ELSE IF k \in environment THEN Env
        ELSE IF Says(p.files.local, k) /\ k \notin HostOnly THEN From("local", p.repo)
        ELSE IF Says(p.files.global, k) /\ k \notin HostOnly THEN From("global", "org")
        ELSE IF Says(extraFile, k) THEN From("extra", "host")
        ELSE IF k \in p.given \/ k \in args THEN From("arg", h)
        ELSE Default
  BY DEF InForce
<1>6. t.value[k] = InForce(q, h, k)
  BY <1>1, <1>2, <1>3, <1>4, <1>5 DEF Laid
<1>7. NextValue(s, t, h, k)
  BY <1>1, <1>2, <1>3, <1>4, <1>5 DEF Laid, NextValue
<1> QED BY <1>6, <1>7 DEF w, t

LEMMA CommentInForce ==
    ASSUME NEW q, NEW h \in Hooks, NEW k \in SettingKeys, ~Automatic(q),
           extraFile \in SettingsFile, q.files \in Read, q.repo \in Repos
    PROVE  WithArgs(Applied(Start, q.files, q.repo), Head(q.todo), h).value[k] = InForce(q, h, k)
<1> DEFINE a == Applied(Start, q.files, q.repo)
<1>1. Fine(a) /\ a.value[k] = Laid(Start, q.files, q.repo, k)
  BY StartIsFine, FilesAreLaid DEF LaidOver
<1> HIDE DEF a
<1>2. WithArgs(a, Head(q.todo), h).value[k] = IF k \in Head(q.todo) THEN From("arg", h) ELSE a.value[k]
  BY <1>1, ArgumentsAreLaid
<1>3. Start.value[k] = IF k \in environment THEN Env ELSE Default
  BY StartIsFine
<1>4. /\ ~AnyFile(q.files) => ~Says(q.files.local, k) /\ ~Says(q.files.global, k) /\ ~Says(extraFile, k)
  BY FileTypes
<1>5. WithArgs(a, Head(q.todo), h).value[k] = InForce(q, h, k)
  BY <1>1, <1>2, <1>3, <1>4 DEF InForce, Laid
<1> QED BY <1>5 DEF a


-----------------------------------------------------------------------------
(* What a hook may hold between its steps. *)

\* Instructions: the language, and one the environment set before an argument replaced it.
Tongues(s, h) ==
    \A l \in ToSet(s.added) : l # Default /\ (l = Tongue(s) \/ (l = Env /\ Tongue(s) = From("arg", h)))
Passes(p, h) ==
    /\ server = "gitea" => BeforeArguments(p, h, "ignore_pr_title") = Default
    /\ (server \in {"gitea", "bitbucket_app"} /\ p.payload.kind = "opened") =>
          BeforeArguments(p, h, "disable_auto_feedback") = Default
HasOwnValues(p, h) == \A k \in SettingKeys : p.own.value[k] = InForce(p, h, k)
Governed(p, h) == p.files.read /\ p.own.auto = TRUE /\ HasOwnValues(p, h) /\ Tongues(p.own, h) /\ Passes(p, h)
Runs(p, h) == HasOwnValues(p, h) /\ LanguageIsKept(p, h, p.own) /\ (p.own.auto <=> Automatic(p))
Layered(p, h) ==
    /\ p.pc # "scheduled"
    /\ p.pc = "received" \/ (p.pc = "starting" /\ ~Automatic(p)) => p.own = Start /\ p.given = {}
    /\ p.pc \in {"received", "starting", "running"} /\ ~Automatic(p) => Len(p.todo) = 1
    /\ p.pc \in {"starting", "running"} /\ Automatic(p) => Governed(p, h)
    /\ p.pc = "running" => Runs(p, h)
Active == {"received", "starting", "scheduled", "running"}
HookOK(p, h) ==
    /\ p \in HookSet /\ IsInjective(p.own.added)
    /\ p.pc \in Active => p.todo # <<>>
    /\ Copies => Layered(p, h)

HooksInv ==
    /\ server \in WebServers /\ extraFile \in SettingsFile
    /\ DOMAIN hooks = Hooks /\ hooks = [h \in Hooks |-> hooks[h]]
    /\ \A h \in Hooks : HookOK(hooks[h], h)
    /\ Fine(shared)
    /\ BrokenFilesAreTold

\* One hook moves on.
Goes(h, q) ==
    /\ hooks' = [hooks EXCEPT ![h] = q]
    /\ HookOK(q, h)
    /\ Fine(shared')
    /\ told \subseteq told'
    /\ q.files.read => Complaints(q.files, q.repo) \subseteq told'
    /\ UNCHANGED <<server, environment, extraFile>>

LEMMA IdleHooks ==
    /\ NoHook \in HookSet /\ NoHook.own = Start /\ NoHook.given = {} /\ NoHook.files.read = FALSE /\ NoHook.pc = "idle"
    /\ NoHook.todo = <<>>
    /\ Over \in HookSet /\ Over.own = Start /\ Over.files.read = FALSE /\ Over.pc = "done"
<1>1. PICK r \in Repos : r = CHOOSE x \in Repos : TRUE
  BY SettingsAssumption
<1>2. PICK e \in Payloads : e = CHOOSE x \in Payloads : TRUE
  BY SettingsAssumption
<1>3. PICK f \in Read : f = [read |-> FALSE, global |-> NoFile, local |-> NoFile]
  BY DEF Read
<1>4. PICK s \in Settings : s = Start
  BY StartIsFine DEF Fine
<1>5. PICK t \in Seq(SUBSET SettingKeys) : t = <<>>
  <2>1. <<>> \in Seq(SUBSET SettingKeys)
    OBVIOUS
  <2> QED BY <2>1, Zenon
<1>6. PICK g \in SUBSET SettingKeys : g = {}
  OBVIOUS
<1>7. NoHook = [pc |-> "idle", repo |-> r, payload |-> e, own |-> s, todo |-> t, given |-> g, files |-> f]
  BY <1>1, <1>2, <1>3, <1>4, <1>5, <1>6 DEF NoHook
<1>8. Over = [pc |-> "done", repo |-> r, payload |-> e, own |-> s, todo |-> t, given |-> g, files |-> f]
  BY <1>7 DEF Over
<1>9. NoHook \in HookSet /\ Over \in HookSet
  BY <1>7, <1>8 DEF HookSet
<1>10. f.read = FALSE
  BY <1>3
<1> QED BY <1>4, <1>5, <1>6, <1>7, <1>8, <1>9, <1>10

LEMMA OverIsOK == \A h \in Hooks : HookOK(Over, h)
<1>1. IsInjective(Start.added)
  BY StartIsFine DEF Fine
<1> QED BY <1>1, IdleHooks DEF HookOK, Layered, Active

\* Put writes a hook back with its settings.
Alike(p, q) ==
    /\ q.pc = p.pc /\ q.repo = p.repo /\ q.payload = p.payload
    /\ q.todo = p.todo /\ q.given = p.given /\ q.files = p.files
Puts(h, p, s, q) ==
    /\ hooks' = [hooks EXCEPT ![h] = q] /\ q \in HookSet /\ Alike(p, q)
    /\ q.own = IF Copies /\ p # Over THEN s ELSE p.own
    /\ Fine(shared')
LEMMA PutPuts ==
    ASSUME NEW h \in Hooks, NEW p \in HookSet, NEW s, Fine(s), Fine(shared), Put(h, p, s)
    PROVE  \E q : Puts(h, p, s, q)
<1>1. PICK o \in Settings : o = IF Copies /\ p # Over THEN s ELSE p.own
  BY DEF Fine, HookSet
<1> DEFINE q == [p EXCEPT !.own = o]
<1>2. q \in HookSet /\ Alike(p, q) /\ q.own = o
  BY DEF HookSet, Alike
<1>3. hooks' = [hooks EXCEPT ![h] = q]
  BY <1>1 DEF Put
<1>4. Fine(shared')
  BY DEF Put
<1> QED BY <1>1, <1>2, <1>3, <1>4 DEF Puts

LEMMA AlikeInForce ==
    ASSUME NEW p, NEW q, Alike(p, q), NEW h
    PROVE  /\ \A k : InForce(q, h, k) = InForce(p, h, k)
           /\ Automatic(q) <=> Automatic(p)
BY DEF Alike, InForce, Automatic

\* Files once read for a hook are its files.
LEMMA FilesAreRead ==
    ASSUME NEW h \in Hooks, NEW files \in Read, ReadFiles(h, files)
    PROVE  /\ hooks[h].files.read => files = hooks[h].files
           /\ server # "action" => files.read = TRUE
BY DEF ReadFiles, Read


LEMMA HookIs ==
    ASSUME HooksInv, NEW h \in Hooks
    PROVE  /\ HookOK(hooks[h], h) /\ hooks[h] \in HookSet /\ Fine(hooks[h].own) /\ Fine(SettingsOf(h))
           /\ extraFile \in SettingsFile /\ Fine(shared)
           /\ Copies => SettingsOf(h) = hooks[h].own
<1>1. HookOK(hooks[h], h) /\ Fine(shared) /\ extraFile \in SettingsFile
  BY DEF HooksInv
<1>2. hooks[h].own \in Settings
  BY <1>1 DEF HookOK, HookSet
<1> QED BY <1>1, <1>2 DEF HookOK, Fine, SettingsOf

\* A hook that is over told what it had to.
LEMMA EndIsOK ==
    ASSUME NEW h \in Hooks, hooks' = [hooks EXCEPT ![h] = Over], Fine(shared'), told \subseteq told',
           UNCHANGED <<server, environment, extraFile>>
    PROVE  Goes(h, Over)
BY OverIsOK, IdleHooks DEF Goes

LEMMA ReceiveGoes ==
    ASSUME HooksInv, NEW h \in Hooks, Receive(h)
    PROVE  \E q : Goes(h, q)
<1>1. PICK p \in Payloads, r \in Repos :
        hooks' = [hooks EXCEPT ![h] = IF Unwanted(p) THEN Over
                        ELSE [NoHook EXCEPT !.pc = "received", !.repo = r, !.payload = p, !.own = Start,
                                            !.todo = IF p.kind = "comment" THEN <<p.args>> ELSE AutoCommands]]
  BY DEF Receive
<1>2. Fine(shared') /\ told' = told /\ UNCHANGED <<server, environment, extraFile>>
  BY DEF Receive, Unread, HooksInv
<1>3. CASE Unwanted(p)
  <2>1. hooks' = [hooks EXCEPT ![h] = Over]
    BY <1>1, <1>3
  <2> QED BY <1>2, <2>1, EndIsOK
<1>4. CASE ~Unwanted(p)
  <2>1. PICK t \in Seq(SUBSET SettingKeys) : t = IF p.kind = "comment" THEN <<p.args>> ELSE AutoCommands
    <3>1. AutoCommands \in Seq(SUBSET SettingKeys) /\ p.args \in SUBSET SettingKeys
      BY SettingsAssumption
    <3>2. <<p.args>> \in Seq(SUBSET SettingKeys)
      BY <3>1
    <3> QED BY <3>1, <3>2
  <2>2. PICK s \in Settings : s = Start
    BY StartIsFine DEF Fine
  <2> DEFINE q == [NoHook EXCEPT !.pc = "received", !.repo = r, !.payload = p, !.own = s, !.todo = t]
  <2>3. hooks' = [hooks EXCEPT ![h] = q]
    BY <1>1, <1>4, <2>1, <2>2
  <2>4. /\ q \in HookSet /\ q.pc = "received" /\ q.own = s /\ q.todo = t /\ q.given = NoHook.given
        /\ q.files = NoHook.files /\ q.payload = p
    BY IdleHooks DEF HookSet
  <2> HIDE DEF q
  <2>5. t # <<>> /\ (p.kind = "comment" => Len(t) = 1)
    BY <2>1, SettingsAssumption
  <2>6. Layered(q, h)
    BY <2>2, <2>4, <2>5, IdleHooks DEF Layered, Automatic
  <2>7. IsInjective(Start.added)
    BY StartIsFine DEF Fine
  <2>8. HookOK(q, h)
    BY <2>2, <2>4, <2>5, <2>6, <2>7 DEF HookOK
  <2>9. q.files.read = FALSE
    BY <2>4, IdleHooks
  <2>10. Goes(h, q)
    BY <1>2, <2>3, <2>8, <2>9 DEF Goes
  <2> QED BY <2>10
<1> QED BY <1>3, <1>4

LEMMA PrepareCommentGoes ==
    ASSUME HooksInv, NEW h \in Hooks, PrepareComment(h)
    PROVE  \E q : Goes(h, q)
<1> DEFINE p == hooks[h]
           n == [p EXCEPT !.pc = IF server = "bitbucket_server" THEN "scheduled" ELSE "starting"]
           s == IF server = "action" THEN WithArtifact(SettingsOf(h)) ELSE SettingsOf(h)
<1>1. /\ p.pc = "received" /\ ~Automatic(p) /\ Put(h, n, s) /\ told' = told
      /\ UNCHANGED <<server, environment, extraFile>>
  BY DEF PrepareComment, Unread
<1>2. HookOK(p, h) /\ p \in HookSet /\ Fine(s)
  BY HookIs, ArtifactIsAdded
<1>3. /\ n \in HookSet /\ n.own = p.own /\ n.repo = p.repo /\ n.payload = p.payload /\ n.todo = p.todo
      /\ n.given = p.given /\ n.files = p.files
      /\ n.pc = IF server = "bitbucket_server" THEN "scheduled" ELSE "starting"
  BY <1>2 DEF HookSet
<1> HIDE DEF n, s
<1>4. PICK q : Puts(h, n, s, q)
  BY <1>1, <1>2, <1>3, HookIs, PutPuts
<1>5. q.own \in {p.own, s} /\ (Copies => q.own = p.own)
  <2>1. Copies => s = p.own
    BY HookIs DEF s, Copies
  <2> QED BY <1>3, <1>4, <2>1 DEF Puts
<1>6. IsInjective(q.own.added) /\ q.todo # <<>>
  BY <1>1, <1>2, <1>3, <1>4, <1>5 DEF Puts, Fine, HookOK, Active, Alike
<1>7. Copies => Layered(q, h)
  <2>1. HAVE Copies
  <2>2. Layered(p, h) /\ server # "bitbucket_server"
    BY <1>2, <2>1 DEF HookOK, Copies
  <2>3. p.own = Start /\ p.given = {} /\ Len(p.todo) = 1
    BY <1>1, <2>2 DEF Layered
  <2>4. q.pc = "starting" /\ q.own = Start /\ q.given = {} /\ q.todo = p.todo /\ ~Automatic(q)
    BY <1>1, <1>3, <1>4, <1>5, <2>1, <2>2, <2>3 DEF Puts, Alike, Automatic
  <2> QED BY <2>3, <2>4 DEF Layered
<1>8. HookOK(q, h)
  BY <1>4, <1>6, <1>7 DEF HookOK, Puts
<1>9. q.files.read => Complaints(q.files, q.repo) \subseteq told'
  <2>1. q.files = p.files /\ q.repo = p.repo
    BY <1>3, <1>4 DEF Puts, Alike
  <2> QED BY <1>1, <2>1 DEF HooksInv, BrokenFilesAreTold
<1>10. Goes(h, q)
  BY <1>1, <1>4, <1>8, <1>9 DEF Goes, Puts
<1> QED BY <1>10


LEMMA AutoIsSet ==
    ASSUME NEW s, Fine(s), NEW b \in BOOLEAN
    PROVE  LET t == [s EXCEPT !.auto = b]
           IN  Fine(t) /\ t.value = s.value /\ t.added = s.added /\ t.auto = b
<1>1. PICK v \in [SettingKeys -> Sources], a \in Seq(Sources), c \in BOOLEAN : s = [value |-> v, added |-> a, auto |-> c]
  BY DEF Fine, Settings
<1>2. [s EXCEPT !.auto = b] = [value |-> v, added |-> a, auto |-> b]
  BY <1>1
<1>3. [value |-> v, added |-> a, auto |-> b] \in Settings
  BY DEF Settings
<1> QED BY <1>1, <1>2, <1>3 DEF Fine

\* A hook that goes on to its commands with the settings of its repository.
LEMMA FirstCommandGoverned ==
    ASSUME NEW h \in Hooks, NEW q \in HookSet, NEW s, extraFile \in SettingsFile,
           q.pc = "starting", Automatic(q), q.files.read, q.given = {},
           s = Applied(Start, q.files, q.repo), ~Stops(q.payload, s),
           q.own.value = s.value, q.own.added = s.added, q.own.auto = TRUE, Copies
    PROVE  Layered(q, h)
<1>1. q.files \in Read /\ q.repo \in Repos
  BY DEF HookSet
<1>2. LaidOver(Start, s) /\ \A k \in SettingKeys : s.value[k] = Laid(Start, q.files, q.repo, k)
  BY <1>1, StartIsFine, FilesAreLaid
<1>3. ASSUME NEW k \in SettingKeys
      PROVE  s.value[k] = InForce(q, h, k)
  BY <1>1, <1>2, FirstInForce
<1>4. HasOwnValues(q, h)
  BY <1>3 DEF HasOwnValues
<1>5. q.own.added = <<>>
  BY <1>2, StartIsFine DEF LaidOver
<1>6. Tongues(q.own, h)
  BY <1>5 DEF Tongues, ToSet
<1>7. Passes(q, h)
  <2>1. ASSUME NEW k \in SettingKeys PROVE BeforeArguments(q, h, k) = s.value[k]
    <3>1. [q EXCEPT !.given = {}] = q
      BY DEF HookSet
    <3> QED BY <1>3, <3>1 DEF BeforeArguments
  <2>2. {"ignore_pr_title", "disable_auto_feedback"} \subseteq SettingKeys
    BY DEF SettingKeys
  <2>3. server = "gitea" => s.value["ignore_pr_title"] = Default
    BY DEF Stops, Ignores
  <2>4. q.payload.kind = "opened" => s.value["disable_auto_feedback"] = Default
    BY DEF Stops, Disabled
  <2>5. /\ BeforeArguments(q, h, "ignore_pr_title") = s.value["ignore_pr_title"]
        /\ BeforeArguments(q, h, "disable_auto_feedback") = s.value["disable_auto_feedback"]
    BY <2>1, <2>2
  <2> QED BY <2>3, <2>4, <2>5 DEF Passes
<1> QED BY <1>4, <1>6, <1>7 DEF Layered, Governed

LEMMA PrepareGoes ==
    ASSUME HooksInv, NEW h \in Hooks, Prepare(h)
    PROVE  \E q : Goes(h, q)
<1> DEFINE p == hooks[h]
           first == IF server = "bitbucket_server" THEN "scheduled" ELSE "starting"
<1>1. p.pc = "received" /\ server # "action" /\ Automatic(p) /\ UNCHANGED <<server, environment, extraFile>>
  BY DEF Prepare
<1>2. PICK files \in Read :
        LET s == Applied(SettingsOf(h), files, p.repo)
        IN  /\ ReadFiles(h, files)
            /\ told' = told \cup Complaints(files, p.repo)
            /\ IF Stops(p.payload, s) THEN Put(h, Over, s)
               ELSE Put(h, IF PushOff(p.payload) THEN Over ELSE [p EXCEPT !.files = files, !.pc = first],
                        [s EXCEPT !.auto = TRUE])
  BY DEF Prepare
<1> DEFINE s == Applied(SettingsOf(h), files, p.repo)
           t == [s EXCEPT !.auto = TRUE]
           n == [p EXCEPT !.files = files, !.pc = first]
<1>3. HookOK(p, h) /\ p \in HookSet /\ Fine(SettingsOf(h)) /\ extraFile \in SettingsFile /\ Fine(shared)
  BY HookIs
<1>4. Fine(s)
  BY <1>3, FilesAreLaid DEF LaidOver, HookSet
<1>5. Fine(t) /\ t.value = s.value /\ t.added = s.added /\ t.auto = TRUE
  <2> HIDE DEF s
  <2> QED BY <1>4, AutoIsSet
<1>6. /\ n \in HookSet /\ n.own = p.own /\ n.repo = p.repo /\ n.payload = p.payload /\ n.todo = p.todo
      /\ n.given = p.given /\ n.files = files /\ n.pc = first
  BY <1>3 DEF HookSet
<1>7. files.read = TRUE
  BY <1>1, <1>2, FilesAreRead
<1>8. told \subseteq told' /\ Complaints(files, p.repo) \subseteq told'
  BY <1>2
<1>9. ASSUME NEW u, Fine(u), Put(h, Over, u)
      PROVE  \E q : Goes(h, q)
  <2>1. PICK q : Puts(h, Over, u, q)
    BY <1>3, <1>9, IdleHooks, PutPuts
  <2>2. q \in HookSet /\ q.pc = "done" /\ q.own = Start /\ q.files = Over.files
    BY <2>1, IdleHooks DEF Puts, Alike
  <2>3. HookOK(q, h)
    BY <2>2, StartIsFine DEF HookOK, Layered, Active, Fine
  <2>4. q.files.read = FALSE
    BY <2>2, IdleHooks
  <2>5. Goes(h, q)
    BY <1>1, <1>8, <2>1, <2>3, <2>4 DEF Goes, Puts
  <2> QED BY <2>5
<1> HIDE DEF s, t, n
<1>10. CASE Stops(p.payload, s)
  <2>1. Put(h, Over, s)
    BY <1>2, <1>10 DEF s
  <2> QED BY <1>4, <1>9, <2>1
<1>11. CASE ~Stops(p.payload, s) /\ PushOff(p.payload)
  <2>1. Put(h, Over, t)
    BY <1>2, <1>11 DEF s, t
  <2> QED BY <1>5, <1>9, <2>1
<1>12. CASE ~Stops(p.payload, s) /\ ~PushOff(p.payload)
  <2>1. Put(h, n, t)
    BY <1>2, <1>12 DEF s, t, n
  <2>2. PICK q : Puts(h, n, t, q)
    BY <1>3, <1>5, <1>6, <2>1, PutPuts
  <2>3. n # Over
    BY <1>6, IdleHooks
  <2>4. /\ q \in HookSet /\ q.own = (IF Copies THEN t ELSE p.own) /\ q.repo = p.repo /\ q.payload = p.payload
        /\ q.todo = p.todo /\ q.given = p.given /\ q.files = files /\ q.pc = first
    BY <1>6, <2>2, <2>3 DEF Puts, Alike
  <2>5. IsInjective(q.own.added) /\ q.todo # <<>>
    BY <1>1, <1>3, <1>5, <2>4 DEF Fine, HookOK, Active
  <2>6. Copies => Layered(q, h)
    <3>1. HAVE Copies
    <3>2. SettingsOf(h) = Start /\ p.given = {} /\ first = "starting"
      BY <1>1, <1>3, <3>1 DEF HookOK, Layered, Copies, SettingsOf
    <3>3. s = Applied(Start, q.files, q.repo)
      BY <2>4, <3>2 DEF s
    <3>4. q.own.value = s.value /\ q.own.added = s.added /\ q.own.auto = TRUE
      BY <1>5, <2>4, <3>1
    <3>5. q.pc = "starting" /\ Automatic(q) /\ q.files.read /\ q.given = {} /\ ~Stops(q.payload, s)
      BY <1>1, <1>7, <1>12, <2>4, <3>2 DEF Automatic
    <3> QED BY <1>3, <2>4, <3>1, <3>3, <3>4, <3>5, FirstCommandGoverned
  <2>7. HookOK(q, h)
    BY <2>4, <2>5, <2>6 DEF HookOK
  <2>8. Complaints(q.files, q.repo) \subseteq told'
    BY <1>8, <2>4
  <2>9. Goes(h, q)
    BY <1>1, <1>8, <2>2, <2>7, <2>8 DEF Goes, Puts
  <2> QED BY <2>9
<1> QED BY <1>10, <1>11, <1>12


LEMMA PrepareActionGoes ==
    ASSUME HooksInv, NEW h \in Hooks, PrepareAction(h)
    PROVE  \E q : Goes(h, q)
<1> DEFINE p == hooks[h]
           event == p.payload
<1>1. p.pc = "received" /\ server = "action" /\ UNCHANGED <<server, environment, extraFile>>
  BY ZenonT(30) DEF PrepareAction
<1>2. PICK files \in Read :
        LET s == IF event.kind = "workflow" THEN Applied(Spoken(SettingsOf(h)), files, p.repo)
                 ELSE Spoken(Applied(SettingsOf(h), files, p.repo))
        IN  /\ ReadFiles(h, files)
            /\ told' = told \cup Complaints(files, p.repo)
            /\ IF PushOff(event) THEN Put(h, Over, [WithArtifact(s) EXCEPT !.auto = FALSE])
               ELSE Put(h, [p EXCEPT !.files = files, !.pc = "starting",
                                     !.todo = IF event.kind = "push" THEN @ ELSE ActionTools],
                        [WithArtifact(s) EXCEPT !.auto = TRUE])
  BY DEF PrepareAction
<1> DEFINE s == IF event.kind = "workflow" THEN Applied(Spoken(SettingsOf(h)), files, p.repo)
                ELSE Spoken(Applied(SettingsOf(h), files, p.repo))
           t(b) == [WithArtifact(s) EXCEPT !.auto = b]
           n == [p EXCEPT !.files = files, !.pc = "starting",
                          !.todo = IF event.kind = "push" THEN @ ELSE ActionTools]
<1>3. HookOK(p, h) /\ p \in HookSet /\ Fine(SettingsOf(h)) /\ extraFile \in SettingsFile /\ Fine(shared) /\ p.repo \in Repos
  BY HookIs DEF HookSet
<1>4. Fine(s)
  <2>1. Fine(Spoken(SettingsOf(h)))
    BY <1>3, LanguageIsSpoken
  <2>2. Fine(Applied(Spoken(SettingsOf(h)), files, p.repo)) /\ Fine(Applied(SettingsOf(h), files, p.repo))
    BY <1>3, <2>1, FilesAreLaid DEF LaidOver
  <2> QED BY <2>2, LanguageIsSpoken
<1>5. Fine(t(FALSE)) /\ Fine(t(TRUE))
  <2> HIDE DEF s
  <2>1. Fine(WithArtifact(s))
    BY <1>4, ArtifactIsAdded
  <2> QED BY <2>1, AutoIsSet
<1>6. /\ n \in HookSet /\ n.own = p.own /\ n.repo = p.repo /\ n.files = files /\ n.pc = "starting" /\ n.todo # <<>>
  <2>1. PICK w \in Seq(SUBSET SettingKeys) : w # <<>> /\ w = IF event.kind = "push" THEN p.todo ELSE ActionTools
    <3>1. p.todo \in Seq(SUBSET SettingKeys) /\ p.todo # <<>>
      BY <1>1, <1>3 DEF HookSet, HookOK, Active
    <3>2. ActionTools \in Seq(SUBSET SettingKeys) /\ ActionTools # <<>>
      BY DEF ActionTools
    <3> QED BY <3>1, <3>2
  <2>2. n = [p EXCEPT !.files = files, !.pc = "starting", !.todo = w]
    BY <2>1
  <2> HIDE DEF n
  <2> QED BY <1>3, <2>1, <2>2 DEF HookSet
<1>7. told \subseteq told' /\ Complaints(files, p.repo) \subseteq told'
  BY <1>2
<1>8. (IF PushOff(event) THEN Put(h, Over, t(FALSE)) ELSE Put(h, n, t(TRUE))) /\ ~Copies
  BY <1>1, <1>2 DEF Copies
<1> HIDE DEF s, t, n
<1>9. CASE PushOff(event)
  <2>1. PICK q : Puts(h, Over, t(FALSE), q)
    BY <1>3, <1>5, <1>8, <1>9, IdleHooks, PutPuts
  <2>2. q \in HookSet /\ q.pc = "done" /\ q.own = Start /\ q.files = Over.files
    BY <2>1, IdleHooks DEF Puts, Alike
  <2>3. HookOK(q, h) /\ q.files.read = FALSE
    BY <1>8, <2>2, IdleHooks, StartIsFine DEF HookOK, Active, Fine
  <2>4. Goes(h, q)
    BY <1>1, <1>7, <2>1, <2>3 DEF Goes, Puts
  <2> QED BY <2>4
<1>10. CASE ~PushOff(event)
  <2>1. PICK q : Puts(h, n, t(TRUE), q)
    BY <1>3, <1>5, <1>6, <1>8, <1>10, PutPuts
  <2>2. q \in HookSet /\ q.own = p.own /\ q.repo = p.repo /\ q.files = files /\ q.todo # <<>>
    BY <1>6, <1>8, <2>1 DEF Puts, Alike
  <2>3. HookOK(q, h)
    BY <1>3, <1>8, <2>2 DEF HookOK
  <2>4. Goes(h, q)
    BY <1>1, <1>7, <2>1, <2>2, <2>3 DEF Goes, Puts
  <2> QED BY <2>4
<1> QED BY <1>9, <1>10

LEMMA CommandReturnsGoes ==
    ASSUME HooksInv, NEW h \in Hooks, CommandReturns(h)
    PROVE  \E q : Goes(h, q)
<1> DEFINE p == hooks[h]
<1>1. /\ p.pc = "running" /\ told' = told /\ shared' = shared /\ UNCHANGED <<server, environment, extraFile>>
      /\ hooks' = [hooks EXCEPT ![h] = IF Len(p.todo) = 1 THEN Over ELSE [p EXCEPT !.todo = Tail(@), !.pc = "starting"]]
  BY DEF CommandReturns, Unread
<1>2. HookOK(p, h) /\ p \in HookSet /\ Fine(shared)
  BY HookIs
<1>3. CASE Len(p.todo) = 1
  <2>1. hooks' = [hooks EXCEPT ![h] = Over] /\ Fine(shared')
    BY <1>1, <1>2, <1>3
  <2> QED BY <1>1, <2>1, EndIsOK
<1>4. CASE Len(p.todo) # 1
  <2>1. p.todo \in Seq(SUBSET SettingKeys) /\ p.todo # <<>>
    BY <1>1, <1>2 DEF HookSet, HookOK, Active
  <2>2. PICK d \in Seq(SUBSET SettingKeys) : d = p.todo
    BY <2>1
  <2>3. Tail(d) \in Seq(SUBSET SettingKeys) /\ Tail(d) # <<>>
    <3>1. d # <<>> /\ Len(d) # 1
      BY <1>4, <2>1, <2>2
    <3>2. Len(d) \in Nat /\ Len(d) # 0
      BY <3>1, EmptySeq
    <3>3. Tail(d) \in Seq(SUBSET SettingKeys) /\ Len(Tail(d)) = Len(d) - 1
      BY <3>1, HeadTailProperties
    <3> QED BY <3>1, <3>2, <3>3
  <2> DEFINE w == Tail(d)
  <2> DEFINE q == [p EXCEPT !.todo = w, !.pc = "starting"]
  <2>4. hooks' = [hooks EXCEPT ![h] = q]
    BY <1>1, <1>4, <2>2
  <2> HIDE DEF w
  <2>5. /\ q \in HookSet /\ q.own = p.own /\ q.repo = p.repo /\ q.payload = p.payload /\ q.given = p.given
        /\ q.files = p.files /\ q.pc = "starting" /\ q.todo = w
    <3>1. w \in Seq(SUBSET SettingKeys)
      BY <2>3 DEF w
    <3> QED BY <1>2, <3>1 DEF HookSet
  <2> HIDE DEF q
  <2>6. Copies => Layered(q, h)
    <3>1. HAVE Copies
    <3>2. Layered(p, h)
      BY <1>2, <3>1 DEF HookOK
    <3>3. Automatic(p) /\ Automatic(q)
      BY <1>1, <1>4, <2>5, <3>2 DEF Layered, Automatic
    <3>4. ASSUME NEW k PROVE InForce(q, h, k) = InForce(p, h, k)
      BY <2>5, <3>3 DEF InForce
    <3>5. ASSUME NEW k PROVE BeforeArguments(q, h, k) = BeforeArguments(p, h, k)
      <4> DEFINE a == [p EXCEPT !.given = {}]
                 b == [q EXCEPT !.given = {}]
      <4>1. /\ a.files = p.files /\ a.repo = p.repo /\ a.payload = p.payload /\ a.given = {}
            /\ b.files = p.files /\ b.repo = p.repo /\ b.payload = p.payload /\ b.given = {}
        BY <1>2, <2>5 DEF HookSet
      <4> HIDE DEF a, b
      <4>2. Automatic(a) /\ Automatic(b)
        BY <3>3, <4>1 DEF Automatic
      <4>3. InForce(a, h, k) = InForce(b, h, k)
        BY <4>1, <4>2 DEF InForce
      <4> QED BY <4>3 DEF a, b, BeforeArguments
    <3>6. Governed(p, h)
      BY <1>1, <3>2, <3>3 DEF Layered
    <3>7. Governed(q, h)
      BY <2>5, <3>4, <3>5, <3>6 DEF Governed, HasOwnValues, Passes
    <3> QED BY <2>5, <3>3, <3>7 DEF Layered
  <2>7. HookOK(q, h)
    BY <1>2, <2>3, <2>5, <2>6 DEF HookOK, w
  <2>8. q.files.read => Complaints(q.files, q.repo) \subseteq told'
    BY <1>1, <2>5 DEF HooksInv, BrokenFilesAreTold
  <2>9. Goes(h, q)
    BY <1>1, <1>2, <2>4, <2>7, <2>8 DEF Goes
  <2> QED BY <2>9
<1> QED BY <1>3, <1>4


LEMMA CommandIsFine ==
    ASSUME HooksInv, NEW h \in Hooks, NEW s, Fine(s), NEW files \in Read
    PROVE  Fine(CommandSettings(h, s, files))
<1> DEFINE p == hooks[h]
           args == Head(p.todo)
           before == IF server = "bitbucket_server" THEN Applied(s, files, p.repo) ELSE s
           first == Applied(WithArgs(before, args, h), files, p.repo)
           last == WithArgs(Applied(s, files, p.repo), args, h)
<1>1. p.repo \in Repos /\ extraFile \in SettingsFile
  BY HookIs DEF HookSet
<1>2. Fine(Applied(s, files, p.repo))
  BY <1>1, FilesAreLaid DEF LaidOver
<1>3. Fine(WithArgs(before, args, h))
  <2>1. Fine(before)
    BY <1>2
  <2> HIDE DEF before
  <2> QED BY <2>1, ArgumentsAreLaid DEF LaidOver
<1>4. Fine(first)
  <2> DEFINE w == WithArgs(before, args, h)
  <2>1. Fine(w)
    BY <1>3
  <2> HIDE DEF w
  <2>2. Fine(Applied(w, files, p.repo))
    BY <1>1, <2>1, FilesAreLaid DEF LaidOver
  <2> QED BY <2>2 DEF w
<1>5. Fine(last)
  BY <1>2, ArgumentsAreLaid DEF LaidOver
<1> HIDE DEF first, last
<1>6. Fine(Spoken(first)) /\ Fine(Spoken(last))
  BY <1>4, <1>5, LanguageIsSpoken
<1>7. CommandSettings(h, s, files) = Spoken(first) \/ CommandSettings(h, s, files) = Spoken(last)
  BY DEF CommandSettings, first, last
<1> QED BY <1>6, <1>7

\* A configured command runs under what the layers say.
LEMMA AutomaticRuns ==
    ASSUME NEW h \in Hooks, NEW p \in HookSet, NEW q \in HookSet, NEW args, extraFile \in SettingsFile,
           Fine(p.own), Automatic(p), Automatic(q), Governed(p, h),
           q.files = p.files, q.repo = p.repo, q.payload = p.payload, q.given = p.given \cup args,
           q.own = Spoken(Applied(WithArgs(p.own, args, h), p.files, p.repo))
    PROVE  Governed(q, h) /\ Runs(q, h)
<1> DEFINE s == p.own
           w == WithArgs(s, args, h)
           t == Applied(w, p.files, p.repo)
<1>0. p.files \in Read /\ p.repo \in Repos /\ "response_language" \in SettingKeys
  BY DEF HookSet, SettingKeys
<1>1. ASSUME NEW k \in SettingKeys
      PROVE  t.value[k] = InForce(q, h, k) /\ NextValue(s, t, h, k)
  <2>1. s.value[k] = InForce(p, h, k)
    BY DEF Governed, HasOwnValues
  <2> QED BY <1>0, <2>1, NextInForce
<1>2. Fine(w) /\ w.auto = s.auto /\ w.added \in {s.added, <<>>}
  BY ArgumentsAreLaid DEF LaidOver
<1>3. Fine(t) /\ t.auto = w.auto /\ t.added \in {w.added, <<>>}
  <2> HIDE DEF w
  <2> QED BY <1>0, <1>2, FilesAreLaid DEF LaidOver
<1>4. NextValue(s, t, h, "response_language")
  BY <1>0, <1>1
<1> HIDE DEF w, t
<1>5. Tongues(t, h)
  <2>1. ASSUME NEW l \in ToSet(t.added)
        PROVE  l # Default /\ (l = Tongue(t) \/ (l = Env /\ Tongue(t) = From("arg", h)))
    <3>1. l \in ToSet(s.added)
      BY <1>2, <1>3, <2>1 DEF ToSet
    <3>2. l # Default /\ (l = Tongue(s) \/ (l = Env /\ Tongue(s) = From("arg", h)))
      BY <3>1 DEF Governed, Tongues
    <3> QED BY <1>4, <3>2, SourcesDiffer DEF NextValue, Tongue
  <2> QED BY <2>1 DEF Tongues
<1>6. /\ q.own.value = t.value /\ q.own.auto = t.auto
      /\ ToSet(q.own.added) = ToSet(t.added) \cup ({Tongue(t)} \ {Default})
  <2>1. q.own = Spoken(t)
    BY DEF w, t
  <2> QED BY <1>3, <2>1, LanguageIsSpoken
<1>7. Tongue(q.own) = Tongue(t)
  BY <1>6 DEF Tongue
<1>8. Tongues(q.own, h)
  BY <1>5, <1>6, <1>7 DEF Tongues
<1>9. HasOwnValues(q, h)
  BY <1>1, <1>6 DEF HasOwnValues
<1>10. q.own.auto = TRUE
  BY <1>2, <1>3, <1>6 DEF Governed
<1>11. Passes(q, h)
  <2>1. ASSUME NEW k PROVE BeforeArguments(q, h, k) = BeforeArguments(p, h, k)
    <3> DEFINE a == [p EXCEPT !.given = {}]
               b == [q EXCEPT !.given = {}]
    <3>1. /\ a.files = p.files /\ a.repo = p.repo /\ a.payload = p.payload /\ a.given = {}
          /\ b.files = p.files /\ b.repo = p.repo /\ b.payload = p.payload /\ b.given = {}
      BY DEF HookSet
    <3> HIDE DEF a, b
    <3>2. Automatic(a) /\ Automatic(b)
      BY <3>1 DEF Automatic
    <3>3. InForce(a, h, k) = InForce(b, h, k)
      BY <3>1, <3>2 DEF InForce
    <3> QED BY <3>3 DEF a, b, BeforeArguments
  <2> QED BY <2>1 DEF Governed, Passes
<1>12. LanguageIsKept(q, h, q.own)
  BY <1>6, <1>7, <1>8 DEF LanguageIsKept, Speaks, Tongues, Tongue
<1>13. Governed(q, h)
  BY <1>8, <1>9, <1>10, <1>11 DEF Governed
<1>14. Runs(q, h)
  BY <1>9, <1>10, <1>12 DEF Runs
<1> QED BY <1>13, <1>14

\* A comment's command, too.
LEMMA CommentRuns ==
    ASSUME NEW h \in Hooks, NEW q \in HookSet, ~Automatic(q), extraFile \in SettingsFile,
           q.own = Spoken(WithArgs(Applied(Start, q.files, q.repo), Head(q.todo), h))
    PROVE  Runs(q, h)
<1> DEFINE a == Applied(Start, q.files, q.repo)
           t == WithArgs(a, Head(q.todo), h)
<1>1. q.files \in Read /\ q.repo \in Repos
  BY DEF HookSet
<1>2. Fine(a) /\ a.auto = FALSE /\ a.added = <<>>
  BY <1>1, StartIsFine, FilesAreLaid DEF LaidOver
<1>3. \A k \in SettingKeys : t.value[k] = InForce(q, h, k)
  BY <1>1, CommentInForce
<1> HIDE DEF a
<1>4. Fine(t) /\ t.auto = FALSE /\ t.added = <<>>
  BY <1>2, ArgumentsAreLaid DEF LaidOver
<1> HIDE DEF t
<1>5. q.own = Spoken(t)
  BY DEF a, t
<1>6. /\ q.own.value = t.value /\ q.own.auto = FALSE
      /\ ToSet(q.own.added) = ToSet(t.added) \cup ({Tongue(t)} \ {Default})
  BY <1>4, <1>5, LanguageIsSpoken
<1>7. ToSet(t.added) = {}
  BY <1>4 DEF ToSet
<1>8. LanguageIsKept(q, h, q.own)
  BY <1>6, <1>7 DEF LanguageIsKept, Speaks, Tongue
<1>9. q.own.auto <=> Automatic(q)
  BY <1>6
<1> QED BY <1>3, <1>6, <1>8, <1>9 DEF Runs, HasOwnValues


LEMMA AgentStartsGoes ==
    ASSUME HooksInv, NEW h \in Hooks, AgentStarts(h)
    PROVE  \E q : Goes(h, q)
<1> DEFINE p == hooks[h]
           begun == [p EXCEPT !.pc = "running", !.given = @ \cup Head(p.todo)]
<1>1. p.pc \in {"starting", "scheduled"} /\ UNCHANGED <<server, environment, extraFile>>
  BY DEF AgentStarts
<1>2. /\ HookOK(p, h) /\ p \in HookSet /\ Fine(SettingsOf(h)) /\ extraFile \in SettingsFile /\ Fine(shared)
      /\ p.repo \in Repos /\ Fine(p.own)
  BY HookIs DEF HookSet
<1>3. Head(p.todo) \in SUBSET SettingKeys /\ p.todo # <<>>
  <2>1. p.todo \in Seq(SUBSET SettingKeys) /\ p.todo # <<>>
    BY <1>1, <1>2 DEF HookSet, HookOK, Active
  <2> QED BY <2>1
<1>4. PICK g \in SUBSET SettingKeys : g = p.given \cup Head(p.todo)
  BY <1>2, <1>3 DEF HookSet
<1>5. begun = [p EXCEPT !.pc = "running", !.given = g]
  BY <1>4
<1> HIDE DEF begun
<1>6. /\ begun \in HookSet /\ begun.own = p.own /\ begun.repo = p.repo /\ begun.payload = p.payload
      /\ begun.todo = p.todo /\ begun.given = g /\ begun.files = p.files /\ begun.pc = "running"
  BY <1>2, <1>5 DEF HookSet
<1>7. CASE server = "action" /\ p.payload.kind \in {"opened", "workflow"}
  <2>1. Put(h, begun, SettingsOf(h)) /\ told' = told /\ ~Copies
    BY <1>7 DEF AgentStarts, Unread, Copies, begun
  <2>2. PICK q : Puts(h, begun, SettingsOf(h), q)
    BY <1>2, <1>6, <2>1, PutPuts
  <2>3. q \in HookSet /\ q.own = p.own /\ q.repo = p.repo /\ q.files = p.files /\ q.todo = p.todo
    BY <1>6, <2>1, <2>2 DEF Puts, Alike
  <2>4. HookOK(q, h)
    BY <1>2, <1>3, <2>1, <2>3 DEF HookOK
  <2>5. q.files.read => Complaints(q.files, q.repo) \subseteq told'
    BY <2>1, <2>3 DEF HooksInv, BrokenFilesAreTold
  <2>6. Goes(h, q)
    BY <1>1, <2>1, <2>2, <2>4, <2>5 DEF Goes, Puts
  <2> QED BY <2>6
<1>8. CASE ~(server = "action" /\ p.payload.kind \in {"opened", "workflow"})
  <2>1. PICK files \in Read :
            /\ ReadFiles(h, files)
            /\ told' = told \cup Complaints(files, p.repo)
            /\ Put(h, [begun EXCEPT !.files = files], CommandSettings(h, SettingsOf(h), files))
    BY <1>8 DEF AgentStarts, begun
  <2> DEFINE n == [begun EXCEPT !.files = files]
             s == CommandSettings(h, SettingsOf(h), files)
  <2>2. /\ n \in HookSet /\ n.own = p.own /\ n.repo = p.repo /\ n.payload = p.payload
        /\ n.todo = p.todo /\ n.given = g /\ n.files = files /\ n.pc = "running"
    BY <1>6 DEF HookSet
  <2>3. Fine(s)
    BY <1>2, CommandIsFine
  <2>4. Put(h, n, s) /\ n # Over
    BY <2>1, <2>2, IdleHooks
  <2> HIDE DEF n, s
  <2>5. PICK q : Puts(h, n, s, q)
    BY <1>2, <2>2, <2>3, <2>4, PutPuts
  <2>6. /\ q \in HookSet /\ q.own = (IF Copies THEN s ELSE p.own) /\ q.repo = p.repo /\ q.payload = p.payload
        /\ q.todo = p.todo /\ q.given = g /\ q.files = files /\ q.pc = "running"
    BY <2>2, <2>4, <2>5 DEF Puts, Alike
  <2>7. IsInjective(q.own.added) /\ q.todo # <<>>
    BY <1>2, <1>3, <2>3, <2>6 DEF Fine
  <2>8. Copies => Layered(q, h)
    <3>1. HAVE Copies
    <3>2. Layered(p, h) /\ SettingsOf(h) = p.own /\ server \notin {"action", "bitbucket_server"} /\ p.pc = "starting"
      BY <1>1, <1>2, <3>1, HookIs DEF HookOK, Layered, Copies
    <3>3. q.own = s
      BY <2>6, <3>1
    <3>4. CASE Automatic(p)
      <4>1. Governed(p, h)
        BY <3>2, <3>4 DEF Layered
      <4>2. files = p.files
        BY <2>1, <4>1, FilesAreRead DEF Governed
      <4>3. s = Spoken(Applied(WithArgs(p.own, Head(p.todo), h), p.files, p.repo))
        BY <3>2, <3>4, <4>2 DEF s, CommandSettings, ArgsFirst
      <4>4. Automatic(q)
        BY <2>6, <3>4 DEF Automatic
      <4>5. q.files = p.files /\ q.given = p.given \cup Head(p.todo) /\ q.repo = p.repo /\ q.payload = p.payload
        BY <1>4, <2>6, <4>2
      <4>6. q.own = Spoken(Applied(WithArgs(p.own, Head(p.todo), h), p.files, p.repo))
        BY <3>3, <4>3
      <4>7. Governed(q, h) /\ Runs(q, h)
        BY <1>2, <2>6, <3>4, <4>1, <4>4, <4>5, <4>6, AutomaticRuns
      <4> QED BY <2>6, <4>4, <4>7 DEF Layered
    <3>5. CASE ~Automatic(p)
      <4>1. p.own = Start /\ Len(p.todo) = 1
        BY <3>2, <3>5 DEF Layered
      <4>2. s = Spoken(WithArgs(Applied(Start, files, p.repo), Head(p.todo), h))
        BY <3>2, <3>5, <4>1 DEF s, CommandSettings, ArgsFirst
      <4>3. ~Automatic(q)
        BY <2>6, <3>5 DEF Automatic
      <4>4. q.own = Spoken(WithArgs(Applied(Start, q.files, q.repo), Head(q.todo), h))
        BY <2>6, <3>3, <4>2
      <4>5. Runs(q, h)
        BY <1>2, <2>6, <4>3, <4>4, CommentRuns
      <4> QED BY <2>6, <4>1, <4>3, <4>5 DEF Layered
    <3> QED BY <3>4, <3>5
  <2>9. HookOK(q, h)
    BY <2>6, <2>7, <2>8 DEF HookOK
  <2>10. Complaints(q.files, q.repo) \subseteq told' /\ told \subseteq told'
    BY <2>1, <2>6
  <2>11. Goes(h, q)
    BY <1>1, <2>5, <2>9, <2>10 DEF Goes, Puts
  <2> QED BY <2>11
<1> QED BY <1>7, <1>8

\* Whatever a hook does, it goes on as it may, and the others stay as they are.
LEMMA OneHookGoes ==
    ASSUME HooksInv, NEW h \in Hooks,
           Receive(h) \/ Prepare(h) \/ PrepareAction(h) \/ PrepareComment(h) \/ AgentStarts(h) \/ CommandReturns(h)
    PROVE  \E q : Goes(h, q)
BY ReceiveGoes, PrepareGoes, PrepareActionGoes, PrepareCommentGoes, AgentStartsGoes, CommandReturnsGoes

LEMMA OthersStayOK ==
    ASSUME UNCHANGED <<server, environment, extraFile>>, \A h \in Hooks : HookOK(hooks'[h], h)
    PROVE  (\A h \in Hooks : HookOK(hooks[h], h))'
<1> SUFFICES ASSUME NEW h \in Hooks
             PROVE  HookOK(hooks[h], h)'
  OBVIOUS
<1>1. PICK p : p = hooks'[h]
  OBVIOUS
<1>2. HookOK(p, h)
  BY <1>1
<1>3. Start' = Start /\ (Copies' <=> Copies) /\ Automatic(p)' = Automatic(p) /\ HookSet' = HookSet
  BY DEF Start, Copies, Automatic, HookSet, Settings, Read
<1>4. ASSUME NEW q, NEW k
      PROVE  InForce(q, h, k)' = InForce(q, h, k)
  BY DEF InForce, AnyFile, Automatic, Says
<1>5. HasOwnValues(p, h)' <=> HasOwnValues(p, h)
  BY <1>4 DEF HasOwnValues
<1>6. Passes(p, h)' <=> Passes(p, h)
  BY <1>4 DEF Passes, BeforeArguments
<1>7. Tongues(p.own, h)' <=> Tongues(p.own, h)
  BY DEF Tongues, Tongue
<1>8. LanguageIsKept(p, h, p.own)' <=> LanguageIsKept(p, h, p.own)
  BY DEF LanguageIsKept, Speaks, Automatic
<1>9. HookOK(p, h)'
  BY <1>2, <1>3, <1>5, <1>6, <1>7, <1>8 DEF HookOK, Layered, Governed, Runs
<1>10. QED
  BY <1>1, <1>9

LEMMA HooksStayOK ==
    ASSUME HooksInv, [SettingsNext]_settingsVars
    PROVE  HooksInv'
<1>1. CASE \E h \in Hooks : Receive(h) \/ Prepare(h) \/ PrepareAction(h) \/ PrepareComment(h)
                            \/ AgentStarts(h) \/ CommandReturns(h)
  <2>0. PICK h \in Hooks : \E q : Goes(h, q)
    BY <1>1, OneHookGoes
  <2>1. PICK q : Goes(h, q)
    BY <2>0
  <2>2. hooks'[h] = q /\ DOMAIN hooks' = Hooks /\ hooks' = [g \in Hooks |-> hooks'[g]]
        /\ \A g \in Hooks \ {h} : hooks'[g] = hooks[g]
    BY <2>1 DEF Goes, HooksInv
  <2>3. ASSUME NEW g \in Hooks PROVE HookOK(hooks'[g], g)
    BY <2>1, <2>2 DEF Goes, HooksInv
  <2>4. BrokenFilesAreTold'
    <3>1. ASSUME NEW g \in Hooks, hooks'[g].files.read
          PROVE  Complaints(hooks'[g].files, hooks'[g].repo) \subseteq told'
      BY <2>1, <2>2, <3>1 DEF Goes, HooksInv, BrokenFilesAreTold
    <3> QED BY <3>1 DEF BrokenFilesAreTold, Complaints
  <2>5. Fine(shared)'
    BY <2>1 DEF Goes, Fine, Settings
  <2>6. (\A g \in Hooks : HookOK(hooks[g], g))'
    BY <2>1, <2>3, OthersStayOK DEF Goes
  <2> QED BY <2>1, <2>2, <2>4, <2>5, <2>6 DEF HooksInv, Goes
<1>2. CASE EditGlobal \/ EditLocal \/ TimePasses \/ UNCHANGED settingsVars
  <2>1. UNCHANGED <<server, environment, extraFile, hooks, shared, told>>
    BY <1>2 DEF EditGlobal, EditLocal, Edited, TimePasses, settingsVars
  <2>2. (\A g \in Hooks : HookOK(hooks[g], g))'
    BY <2>1, OthersStayOK DEF HooksInv
  <2>3. BrokenFilesAreTold' /\ Fine(shared)'
    BY <2>1 DEF HooksInv, BrokenFilesAreTold, Complaints, Fine, Settings
  <2> QED BY <2>1, <2>2, <2>3 DEF HooksInv
<1> QED BY <1>1, <1>2 DEF SettingsNext

LEMMA HooksBeginOK ==
    ASSUME SettingsInit
    PROVE  HooksInv
<1>1. ASSUME NEW h \in Hooks PROVE HookOK(hooks[h], h) /\ hooks[h].files.read = FALSE
  <2>1. hooks[h] = NoHook
    BY DEF SettingsInit
  <2> QED BY <2>1, IdleHooks, StartIsFine DEF HookOK, Layered, Active, Fine
<1>2. Fine(shared)
  BY StartIsFine DEF SettingsInit
<1>3. extraFile \in SettingsFile /\ server \in WebServers
  BY SettingsAssumption DEF SettingsInit
<1>4. DOMAIN hooks = Hooks /\ hooks = [h \in Hooks |-> hooks[h]]
  BY DEF SettingsInit
<1> QED BY <1>1, <1>2, <1>3, <1>4 DEF HooksInv, BrokenFilesAreTold

\* Requests do not bleed into each other, for any number of hooks and repositories, any
\* files, environment and arguments, and every interleaving of their steps.
THEOREM SettingsAreOwn == SettingsSpec => []OwnSettings
<1>1. ASSUME HooksInv PROVE OwnSettings
  <2>1. OnlyItsOwn
    <3> SUFFICES ASSUME NEW h \in Hooks, server \in {"gitea", "bitbucket_app", "gerrit"}, hooks[h].pc = "running"
                 PROVE  Runs(hooks[h], h) /\ SettingsOf(h) = hooks[h].own
      BY DEF OnlyItsOwn, Runs, HasOwnValues
    <3>1. Copies
      BY DEF Copies
    <3> QED BY <1>1, <3>1, HookIs DEF HookOK, Layered
  <2>2. InstructedOnce
    BY <1>1, HookIs DEF InstructedOnce, Fine
  <2>3. FiltersAreTheRepositorys
    <3> SUFFICES ASSUME NEW h \in Hooks, hooks[h].pc = "running", Automatic(hooks[h]), server \in {"gitea", "bitbucket_app"}
                 PROVE  Passes(hooks[h], h)
      BY DEF FiltersAreTheRepositorys, Passes
    <3>1. Copies
      BY DEF Copies
    <3> QED BY <1>1, <3>1, HookIs DEF HookOK, Layered, Governed
  <2> QED BY <1>1, <2>1, <2>2, <2>3 DEF OwnSettings, HooksInv
<1> QED BY <1>1, HooksBeginOK, HooksStayOK, PTL DEF SettingsSpec


-----------------------------------------------------------------------------
(* The organisation's file and its cache. *)

\* A cached file in its TTL is the file, or was it until less than a TTL ago.
CacheInv ==
    /\ globalFile \in SettingsFile /\ localFile \in [Repos -> LocalFiles]
    /\ globalCache.file \in SettingsFile /\ globalCache.until \in Nat /\ globalCache.until <= serverTime + CacheTTL
    /\ \A w \in globalWas : w.file \in SettingsFile /\ w.at \in Nat
    /\ serverTime \in 0 .. MaxServerTime /\ edits \in 0 .. MaxEdits /\ fetchFaults \in 0 .. MaxFetchFaults
    /\ told \subseteq Repos \X {"global", "local"}
    /\ Valid => \/ globalCache.file = globalFile
                \/ \E w \in globalWas : globalCache.file = w.file /\ globalCache.until <= w.at + CacheTTL

Reads(h, files) == files \in Read /\ ReadFiles(h, files) /\ told' = told \cup Complaints(files, hooks[h].repo)
HoldsFiles(h, files) == hooks'[h].files = files \/ hooks'[h].files.read = FALSE
OnlyHook(h) == \A g \in Hooks \ {h} : hooks'[g] = hooks[g]
AsideStays == UNCHANGED <<globalFile, localFile, globalWas, edits, serverTime>>
\* What a hook's step does with files: it reads them now, or holds what it had.
Looks(h) ==
    /\ OnlyHook(h) /\ AsideStays
    /\ \/ HoldsFiles(h, hooks[h].files) /\ UNCHANGED <<globalCache, fetchFaults, told>>
       \/ \E files : Reads(h, files) /\ HoldsFiles(h, files)

LEMMA PutFiles ==
    ASSUME HooksInv, NEW h \in Hooks, NEW p \in HookSet, NEW s, Put(h, p, s)
    PROVE  hooks'[h].files = p.files /\ OnlyHook(h)
<1>1. DOMAIN hooks = Hooks
  BY DEF HooksInv
<1> DEFINE o == IF Copies /\ p # Over THEN s ELSE p.own
<1>2. hooks' = [hooks EXCEPT ![h] = [p EXCEPT !.own = o]]
  BY DEF Put
<1> HIDE DEF o
<1>3. [p EXCEPT !.own = o].files = p.files
  BY DEF HookSet
<1> QED BY <1>1, <1>2, <1>3 DEF OnlyHook

LEMMA HooksLook ==
    ASSUME HooksInv, NEW h \in Hooks,
           Receive(h) \/ Prepare(h) \/ PrepareAction(h) \/ PrepareComment(h) \/ AgentStarts(h) \/ CommandReturns(h)
    PROVE  Looks(h)
<1> DEFINE p == hooks[h]
<1>0. p \in HookSet /\ DOMAIN hooks = Hooks /\ Over \in HookSet /\ Over.files.read = FALSE
  BY HookIs, IdleHooks DEF HooksInv
<1>1. CASE Receive(h)
  <2>1. PICK e \in Payloads, r \in Repos :
        hooks' = [hooks EXCEPT ![h] = IF Unwanted(e) THEN Over
                        ELSE [NoHook EXCEPT !.pc = "received", !.repo = r, !.payload = e, !.own = Start,
                                            !.todo = IF e.kind = "comment" THEN <<e.args>> ELSE AutoCommands]]
    BY <1>1 DEF Receive
  <2> DEFINE t == IF e.kind = "comment" THEN <<e.args>> ELSE AutoCommands
             n == [NoHook EXCEPT !.pc = "received", !.repo = r, !.payload = e, !.own = Start, !.todo = t]
  <2>2. n.files.read = FALSE
    <3> HIDE DEF t
    <3> QED BY IdleHooks DEF HookSet
  <2>3. hooks' = [hooks EXCEPT ![h] = IF Unwanted(e) THEN Over ELSE n]
    BY <2>1
  <2> HIDE DEF n, t
  <2>4. hooks'[h].files.read = FALSE /\ OnlyHook(h)
    BY <1>0, <2>2, <2>3 DEF OnlyHook
  <2> QED BY <1>1, <2>4 DEF Receive, Unread, Looks, HoldsFiles, AsideStays
<1>2. CASE Prepare(h)
  <2> DEFINE first == IF server = "bitbucket_server" THEN "scheduled" ELSE "starting"
  <2>1. PICK files \in Read :
        LET s == Applied(SettingsOf(h), files, p.repo)
        IN  /\ ReadFiles(h, files)
            /\ told' = told \cup Complaints(files, p.repo)
            /\ IF Stops(p.payload, s) THEN Put(h, Over, s)
               ELSE Put(h, IF PushOff(p.payload) THEN Over ELSE [p EXCEPT !.files = files, !.pc = first],
                        [s EXCEPT !.auto = TRUE])
    BY <1>2 DEF Prepare
  <2> DEFINE n == [p EXCEPT !.files = files, !.pc = first]
  <2>2. n \in HookSet /\ n.files = files
    BY <1>0 DEF HookSet
  <2>3. \E s : Put(h, Over, s) \/ Put(h, n, s)
    BY <2>1
  <2> HIDE DEF n
  <2>4. HoldsFiles(h, files) /\ OnlyHook(h)
    BY <1>0, <2>2, <2>3, PutFiles DEF HoldsFiles
  <2>5. AsideStays
    BY <1>2 DEF Prepare, AsideStays
  <2> QED BY <2>1, <2>4, <2>5, ZenonT(30) DEF Looks, Reads
<1>3. CASE PrepareAction(h)
  <2>1. PICK files \in Read :
        LET s == IF p.payload.kind = "workflow" THEN Applied(Spoken(SettingsOf(h)), files, p.repo)
                 ELSE Spoken(Applied(SettingsOf(h), files, p.repo))
        IN  /\ ReadFiles(h, files)
            /\ told' = told \cup Complaints(files, p.repo)
            /\ IF PushOff(p.payload) THEN Put(h, Over, [WithArtifact(s) EXCEPT !.auto = FALSE])
               ELSE Put(h, [p EXCEPT !.files = files, !.pc = "starting",
                                     !.todo = IF p.payload.kind = "push" THEN @ ELSE ActionTools],
                        [WithArtifact(s) EXCEPT !.auto = TRUE])
    BY <1>3 DEF PrepareAction
  <2> DEFINE n == [p EXCEPT !.files = files, !.pc = "starting",
                            !.todo = IF p.payload.kind = "push" THEN @ ELSE ActionTools]
  <2>2. n \in HookSet /\ n.files = files
    <3>1. PICK w \in Seq(SUBSET SettingKeys) : w = IF p.payload.kind = "push" THEN p.todo ELSE ActionTools
      <4>1. p.todo \in Seq(SUBSET SettingKeys)
        BY <1>0 DEF HookSet
      <4>2. ActionTools \in Seq(SUBSET SettingKeys)
        BY DEF ActionTools
      <4> QED BY <4>1, <4>2
    <3>2. n = [p EXCEPT !.files = files, !.pc = "starting", !.todo = w]
      BY <3>1
    <3> HIDE DEF n
    <3> QED BY <1>0, <3>2 DEF HookSet
  <2>3. \E s : Put(h, Over, s) \/ Put(h, n, s)
    BY <2>1, ZenonT(30)
  <2> HIDE DEF n
  <2>4. HoldsFiles(h, files) /\ OnlyHook(h)
    BY <1>0, <2>2, <2>3, PutFiles DEF HoldsFiles
  <2>5. AsideStays
    BY <1>3 DEF PrepareAction, AsideStays
  <2> QED BY <2>1, <2>4, <2>5, ZenonT(30) DEF Looks, Reads
<1>4. CASE PrepareComment(h)
  <2> DEFINE n == [p EXCEPT !.pc = IF server = "bitbucket_server" THEN "scheduled" ELSE "starting"]
             s == IF server = "action" THEN WithArtifact(SettingsOf(h)) ELSE SettingsOf(h)
  <2>1. Put(h, n, s) /\ UNCHANGED <<globalCache, fetchFaults, told>> /\ AsideStays
    BY <1>4 DEF PrepareComment, Unread, AsideStays
  <2>2. n \in HookSet /\ n.files = p.files
    BY <1>0 DEF HookSet
  <2> HIDE DEF n, s
  <2>3. hooks'[h].files = p.files /\ OnlyHook(h)
    BY <2>1, <2>2, PutFiles
  <2> QED BY <2>1, <2>3 DEF Looks, HoldsFiles
<1>5. CASE AgentStarts(h)
  <2> DEFINE begun == [p EXCEPT !.pc = "running", !.given = @ \cup Head(p.todo)]
  <2>1. begun \in HookSet /\ begun.files = p.files
    <3>1. PICK g \in SUBSET SettingKeys : g = p.given \cup Head(p.todo)
      <4>1. p.todo \in Seq(SUBSET SettingKeys) /\ p.todo # <<>> /\ p.given \in SUBSET SettingKeys
        BY <1>0, <1>5, HookIs DEF AgentStarts, HookOK, HookSet, Active
      <4>2. Head(p.todo) \in SUBSET SettingKeys
        BY <4>1
      <4> QED BY <4>1, <4>2
    <3>2. begun = [p EXCEPT !.pc = "running", !.given = g]
      BY <3>1
    <3> HIDE DEF begun
    <3> QED BY <1>0, <3>2 DEF HookSet
  <2>2. AsideStays
    BY <1>5 DEF AgentStarts, AsideStays
  <2>3. CASE server = "action" /\ p.payload.kind \in {"opened", "workflow"}
    <3>1. Put(h, begun, SettingsOf(h)) /\ UNCHANGED <<globalCache, fetchFaults, told>>
      BY <1>5, <2>3 DEF AgentStarts, Unread
    <3> HIDE DEF begun
    <3>2. hooks'[h].files = p.files /\ OnlyHook(h)
      BY <2>1, <3>1, PutFiles
    <3> QED BY <2>2, <3>1, <3>2 DEF Looks, HoldsFiles
  <2>4. CASE ~(server = "action" /\ p.payload.kind \in {"opened", "workflow"})
    <3>1. PICK files \in Read :
            /\ ReadFiles(h, files)
            /\ told' = told \cup Complaints(files, p.repo)
            /\ Put(h, [begun EXCEPT !.files = files], CommandSettings(h, SettingsOf(h), files))
      BY <1>5, <2>4 DEF AgentStarts
    <3> DEFINE n == [begun EXCEPT !.files = files]
    <3> HIDE DEF begun
    <3>2. n \in HookSet /\ n.files = files
      BY <2>1 DEF HookSet
    <3> HIDE DEF n
    <3>3. hooks'[h].files = files /\ OnlyHook(h)
      <4>1. Put(h, n, CommandSettings(h, SettingsOf(h), files))
        BY <3>1 DEF n
      <4> QED BY <3>2, <4>1, PutFiles
    <3> QED BY <2>2, <3>1, <3>3 DEF Looks, HoldsFiles, Reads
  <2> QED BY <2>3, <2>4
<1>6. CASE CommandReturns(h)
  <2> DEFINE n == [p EXCEPT !.todo = Tail(@), !.pc = "starting"]
  <2>1. hooks' = [hooks EXCEPT ![h] = IF Len(p.todo) = 1 THEN Over ELSE n]
        /\ UNCHANGED <<globalCache, fetchFaults, told>> /\ AsideStays
    BY <1>6 DEF CommandReturns, Unread, AsideStays
  <2>2. n.files = p.files
    BY <1>0 DEF HookSet
  <2> HIDE DEF n
  <2>3. HoldsFiles(h, p.files) /\ OnlyHook(h)
    BY <1>0, <2>1, <2>2 DEF HoldsFiles, OnlyHook
  <2> QED BY <2>1, <2>3 DEF Looks
<1> QED BY <1>1, <1>2, <1>3, <1>4, <1>5, <1>6


LEMMA ReadingIsFresh ==
    ASSUME CacheInv, HooksInv, NEW h \in Hooks, NEW files, Reads(h, files), HasGlobal, ~hooks[h].files.read
    PROVE  GotFresh(files.global) \/ (files.global = NoFile /\ fetchFaults' # fetchFaults)
<1>1. files.global = GlobalNow \/ (files.global = NoFile /\ fetchFaults' # fetchFaults)
  <2>1. ASSUME fetchFaults' = fetchFaults + 1 PROVE fetchFaults' # fetchFaults
    BY <2>1 DEF CacheInv
  <2> QED BY <2>1 DEF Reads, ReadFiles
<1>2. GotFresh(GlobalNow)
  <2>1. CASE ~Valid
    BY <2>1 DEF GlobalNow, GotFresh
  <2>2. CASE Valid /\ globalCache.file = globalFile
    BY <2>2 DEF GlobalNow, GotFresh
  <2>3. CASE Valid /\ globalCache.file # globalFile
    <3>1. PICK w \in globalWas : globalCache.file = w.file /\ globalCache.until <= w.at + CacheTTL
      BY <2>3 DEF CacheInv
    <3>2. serverTime < w.at + CacheTTL
      <4>1. serverTime \in Nat /\ w.at \in Nat /\ CacheTTL \in Nat /\ globalCache.until \in Nat /\ globalCache.until > serverTime
        BY <2>3, SettingsAssumption DEF CacheInv, Valid
      <4> QED BY <3>1, <4>1
    <3> QED BY <2>3, <3>1, <3>2 DEF GlobalNow, GotFresh
  <2> QED BY <2>1, <2>2, <2>3
<1> QED BY <1>1, <1>2

LEMMA CacheStays ==
    ASSUME CacheInv, HooksInv, [SettingsNext]_settingsVars
    PROVE  CacheInv'
<1>0. {CacheTTL, MaxEdits, MaxFetchFaults, MaxServerTime} \subseteq Nat /\ GlobalFiles \subseteq SettingsFile
  BY SettingsAssumption
<1>1. CASE \E h \in Hooks : Receive(h) \/ Prepare(h) \/ PrepareAction(h) \/ PrepareComment(h)
                            \/ AgentStarts(h) \/ CommandReturns(h)
  <2>1. PICK h \in Hooks : Looks(h)
    BY <1>1, HooksLook
  <2>2. AsideStays
    BY <2>1 DEF Looks
  <2>3. globalCache' \in {globalCache, Cached} /\ fetchFaults' \in 0 .. MaxFetchFaults
    <3>1. CASE UNCHANGED <<globalCache, fetchFaults, told>>
      BY <3>1 DEF CacheInv
    <3>2. CASE \E files : Reads(h, files)
      <4>1. PICK files : ReadFiles(h, files)
        BY <3>2 DEF Reads
      <4>2. fetchFaults \in 0 .. MaxFetchFaults
        BY DEF CacheInv
      <4> QED BY <1>0, <4>1, <4>2 DEF ReadFiles
    <3> QED BY <2>1, <3>1, <3>2 DEF Looks
  <2>4. told' \subseteq Repos \X {"global", "local"}
    <3>1. CASE UNCHANGED <<globalCache, fetchFaults, told>>
      BY <3>1 DEF CacheInv
    <3>2. CASE \E files : Reads(h, files)
      <4>1. PICK files : told' = told \cup Complaints(files, hooks[h].repo)
        BY <3>2 DEF Reads
      <4>2. hooks[h].repo \in Repos
        BY HookIs DEF HookSet
      <4>3. Complaints(files, hooks[h].repo) \subseteq Repos \X {"global", "local"}
        BY <4>2 DEF Complaints
      <4> QED BY <4>1, <4>3 DEF CacheInv
    <3> QED BY <2>1, <3>1, <3>2 DEF Looks
  <2>5. CASE globalCache' = globalCache
    BY <2>2, <2>3, <2>4, <2>5 DEF CacheInv, AsideStays, Valid
  <2>6. CASE globalCache' = [file |-> globalFile, until |-> serverTime + CacheTTL]
    <3>1. globalCache'.file = globalFile /\ globalCache'.until = serverTime + CacheTTL
      BY <2>6
    <3> QED BY <1>0, <2>2, <2>3, <2>4, <3>1 DEF CacheInv, AsideStays, Valid
  <2> QED BY <2>3, <2>5, <2>6 DEF Cached
<1>2. CASE EditGlobal
  <2> DEFINE old == [file |-> globalFile, at |-> serverTime]
  <2>1. /\ globalFile' \in GlobalFiles /\ globalWas' = globalWas \cup {old} /\ edits' = edits + 1 /\ edits < MaxEdits
        /\ UNCHANGED <<localFile, globalCache, serverTime, fetchFaults, told>>
    BY <1>2 DEF EditGlobal, Edited
  <2>2. edits' \in 0 .. MaxEdits
    BY <1>0, <2>1 DEF CacheInv
  <2>3. \A w \in globalWas' : w.file \in SettingsFile /\ w.at \in Nat
    BY <2>1 DEF CacheInv
  <2>4. ASSUME Valid'
        PROVE  \E w \in globalWas' : globalCache.file = w.file /\ globalCache.until <= w.at + CacheTTL
    <3>1. Valid
      BY <2>1, <2>4 DEF Valid
    <3>2. CASE globalCache.file = globalFile
      <4>1. old \in globalWas' /\ old.file = globalFile /\ old.at = serverTime
        BY <2>1
      <4> QED BY <3>2, <4>1 DEF CacheInv
    <3>3. CASE globalCache.file # globalFile
      BY <2>1, <3>1, <3>3 DEF CacheInv
    <3> QED BY <3>2, <3>3
  <2> QED BY <1>0, <2>1, <2>2, <2>3, <2>4 DEF CacheInv
<1>3. CASE EditLocal
  <2>1. /\ UNCHANGED <<globalFile, globalWas, globalCache, serverTime, fetchFaults, told>>
        /\ edits' = edits + 1 /\ edits < MaxEdits
        /\ localFile' \in [Repos -> LocalFiles]
    BY <1>3 DEF EditLocal, Edited, CacheInv
  <2>2. edits' \in 0 .. MaxEdits
    BY <1>0, <2>1 DEF CacheInv
  <2> QED BY <2>1, <2>2 DEF CacheInv, Valid
<1>4. CASE TimePasses
  <2>1. /\ UNCHANGED <<globalFile, localFile, globalWas, globalCache, edits, fetchFaults, told>>
        /\ serverTime' = serverTime + 1 /\ serverTime < MaxServerTime
    BY <1>4 DEF TimePasses
  <2>2. serverTime' \in 0 .. MaxServerTime /\ serverTime' \in Nat
    BY <1>0, <2>1 DEF CacheInv
  <2>3. globalCache'.until <= serverTime' + CacheTTL
    BY <1>0, <2>1 DEF CacheInv
  <2>4. Valid' => Valid
    BY <1>0, <2>1 DEF CacheInv, Valid
  <2> QED BY <2>1, <2>2, <2>3, <2>4 DEF CacheInv
<1>5. CASE UNCHANGED settingsVars
  BY <1>5 DEF settingsVars, CacheInv, Valid
<1> QED BY <1>1, <1>2, <1>3, <1>4, <1>5 DEF SettingsNext

LEMMA CacheBegins ==
    ASSUME SettingsInit
    PROVE  CacheInv
<1>1. NoFile \in SettingsFile
  BY DEF NoFile, SettingsFile
<1>2. globalFile \in SettingsFile
  BY <1>1, SettingsAssumption DEF SettingsInit
<1>3. {CacheTTL, MaxEdits, MaxFetchFaults, MaxServerTime} \subseteq Nat
  BY SettingsAssumption
<1>4. globalCache.file = NoFile /\ globalCache.until = 0 /\ globalWas = {} /\ serverTime = 0
  BY DEF SettingsInit
<1>5. ~Valid
  BY <1>4 DEF Valid
<1> QED BY <1>1, <1>2, <1>3, <1>4, <1>5 DEF CacheInv, SettingsInit

\* A hook reads the organisation's file as it is or as it was less than a TTL ago, however
\* often the file is edited and whichever other hooks read it meanwhile, but for a failure
\* of its own.
THEOREM GlobalStaysFresh == SettingsSpec => GlobalIsFresh
<1>1. ASSUME CacheInv, HooksInv, [SettingsNext]_settingsVars
      PROVE  FreshStep
  <2> SUFFICES ASSUME NEW g \in Hooks, HasGlobal, hooks'[g].files.read, ~hooks[g].files.read
               PROVE  \/ GotFresh(hooks'[g].files.global)
                      \/ hooks'[g].files.global = NoFile /\ fetchFaults' # fetchFaults
    BY DEF FreshStep
  <2>1. CASE \E h \in Hooks : Receive(h) \/ Prepare(h) \/ PrepareAction(h) \/ PrepareComment(h)
                              \/ AgentStarts(h) \/ CommandReturns(h)
    <3>1. PICK h \in Hooks : Looks(h)
      BY <1>1, <2>1, HooksLook
    <3>2. g = h
      BY <3>1 DEF Looks, OnlyHook
    <3>3. PICK files : Reads(h, files) /\ hooks'[h].files = files
      BY <3>1, <3>2 DEF Looks, HoldsFiles
    <3> QED BY <1>1, <3>2, <3>3, ReadingIsFresh
  <2>2. CASE EditGlobal \/ EditLocal \/ TimePasses \/ UNCHANGED settingsVars
    <3>1. hooks' = hooks
      BY <2>2 DEF EditGlobal, EditLocal, Edited, TimePasses, settingsVars
    <3> QED BY <3>1
  <2> QED BY <1>1, <2>1, <2>2 DEF SettingsNext
<1> QED BY <1>1, HooksBeginOK, HooksStayOK, CacheBegins, CacheStays, PTL DEF SettingsSpec, GlobalIsFresh

\* Types, for any constants: settings, hooks, files and what was told.
THEOREM SettingsTypesHold == SettingsSpec => []SettingsTypeOK
<1>1. ASSUME CacheInv, HooksInv PROVE SettingsTypeOK
  <2>0. LocalFiles \subseteq SettingsFile /\ {CacheTTL, MaxServerTime} \subseteq Nat
    BY SettingsAssumption
  <2>1. ASSUME NEW h \in Hooks
        PROVE  /\ hooks[h].pc \in {"idle", "received", "starting", "scheduled", "running", "done"}
               /\ hooks[h].own \in Settings
               /\ hooks[h].pc \in {"starting", "scheduled", "running"} => hooks[h].todo # <<>>
               /\ {hooks[h].files.global, hooks[h].files.local} \subseteq SettingsFile
    <3>1. hooks[h] \in HookSet /\ HookOK(hooks[h], h) /\ extraFile \in SettingsFile
      BY <1>1, HookIs
    <3>2. hooks[h].files \in Read
      BY <3>1 DEF HookSet
    <3>3. {hooks[h].files.global, hooks[h].files.local} \subseteq SettingsFile
      BY <3>1, <3>2, FileTypes
    <3> QED BY <3>1, <3>3 DEF HookSet, HookOK, Active
  <2>2. globalCache.until \in 0 .. MaxServerTime + CacheTTL
    BY <1>1, <2>0 DEF CacheInv
  <2>3. {localFile[r] : r \in Repos} \cup {w.file : w \in globalWas} \subseteq SettingsFile
    BY <1>1, <2>0 DEF CacheInv
  <2> QED BY <1>1, <2>1, <2>2, <2>3 DEF SettingsTypeOK, HooksInv, CacheInv, Fine
<1> QED BY <1>1, HooksBeginOK, HooksStayOK, CacheBegins, CacheStays, PTL DEF SettingsSpec

===============================================================================
