------------------------------- MODULE ToolRuns -------------------------------
(* The tools that write to one merge request (tools/, agent/pr_agent.py) through the
   GitLab provider. A request runs its commands one after the other with one provider,
   which keeps the merge request as it was fetched; at each model call other requests
   and people get their turn. *)
EXTENDS Naturals, Sequences, FiniteSets, SequencesExt

CONSTANTS
    Requests,
    CommandLists,   \* what a request may ask for
    Texts,          \* what a person may write as the description
    UserLabels,
    Answers,        \* [type, desc, own, labels]: titled sections, a key of its own, labels
    ToolConfs,      \* [labels, ptype]: describe publishes labels, and the type
    MaxPersonSteps,
    MaxToolFaults

ASSUME ToolAssumption == Texts \subseteq Seq(STRING)

VARIABLES
    mrText,         \* the description, a sequence of tokens
    mrLabels,
    mrNotes,        \* general comments, [kind, by, n]
    changelog,      \* the file on the source branch, newest entry first
    requests,       \* each request's place, commands and provider
    pushes,         \* commits to the changelog so far
    reviews,        \* reviews published so far
    toolConf,
    personSteps,
    toolFaults

toolVars == <<mrText, mrLabels, mrNotes, changelog, requests, pushes, reviews, toolConf, personSteps, toolFaults>>

\* Tokens: a person's prose, a horizontal rule, the headings that get_user_description
\* knows, and all other generated text.
UserHeading == "### User description"
Headings == {UserHeading, "### PR Type", "### Description"}
TypeLabels == {"bug fix", "enhancement"}
ReviewLabels == {"Review effort 3/5"}
Uncached == <<"not read">>
Resting == [pc |-> "idle", todo |-> <<>>, text |-> <<>>, user |-> Uncached, labels |-> {}, dirty |-> FALSE,
            file |-> <<>>, seen |-> 0, unread |-> FALSE, fine |-> TRUE]

ToolInit ==
    /\ mrText \in Texts
    /\ mrLabels = {}
    /\ mrNotes = {}
    /\ changelog = <<0>>
    /\ requests = [r \in Requests |-> Resting]
    /\ pushes = 0
    /\ reviews = 0
    /\ toolConf \in ToolConfs
    /\ personSteps = 0
    /\ toolFaults = 0

ToolFault == toolFaults < MaxToolFaults /\ toolFaults' = toolFaults + 1
ToolFine == UNCHANGED toolFaults

-----------------------------------------------------------------------------
(* The description. *)

\* The part of a description that its person wrote: all of it if it does not begin
\* with a generated heading; else what stands between the heading of the user's part
\* and the next one, less a rule; without a next heading, what comes before a rule.
WithRule(text) == text
LessRule(text) == IF text # <<>> /\ Last(text) = "rule" THEN Front(text) ELSE text
Places(text, tokens) == {i \in DOMAIN text : text[i] \in tokens}
Least(S) == CHOOSE i \in S : \A j \in S : i <= j
UserPart(text) ==
    IF text = <<>> \/ Head(text) \notin Headings THEN text
    ELSE IF Places(text, {UserHeading}) = {} THEN <<>>
    ELSE LET start == Least(Places(text, {UserHeading}))
             ends == Places(text, Headings \ {UserHeading})
             rules == Places(text, {"rule"})
             before == IF rules = {} THEN text ELSE SubSeq(text, 1, Least(rules) - 1)
         IN  IF ends # {} /\ Least(ends) > start THEN LessRule(SubSeq(text, start + 1, Least(ends) - 1))
             ELSE IF before # <<>> /\ Head(before) = UserHeading THEN Tail(before) ELSE before

\* Sections in the order of _prepare_data: unknown keys of the answer first, then the
\* user's part, the type and the description; a rule between sections; the files last.
Section(text, is, heading, body) ==
    IF ~is THEN text ELSE (IF text = <<>> THEN <<>> ELSE text \o <<"rule">>) \o <<heading>> \o body
Described(user, answer) ==
    LET own == Section(<<>>, answer.own, "### Own key", <<"ai">>)
        kept == Section(own, user # <<>>, UserHeading, user)
        typed == Section(kept, answer.type /\ toolConf.ptype, "### PR Type", <<"ai">>)
        described == Section(typed, answer.desc, "### Description", <<"ai">>)
    IN  Section(described, TRUE, "files", <<>>)

-----------------------------------------------------------------------------
(* Labels: each tool replaces its own and keeps what it saw of the others'. The provider
   answers with the labels it fetched, asked for an update or not. *)

LabelsKept(seen, own) == seen \ own
DescribeLabels(seen, answer) == answer.labels \cup LabelsKept(seen, TypeLabels)
LabelsOfReview(seen) == ReviewLabels \cup LabelsKept(seen, ReviewLabels)

-----------------------------------------------------------------------------
(* People. *)

PersonActs ==
    /\ personSteps < MaxPersonSteps
    /\ personSteps' = personSteps + 1
    /\ UNCHANGED <<mrNotes, requests, reviews, toolConf, toolFaults>>
WriteText ==
    /\ PersonActs
    /\ mrText' \in Texts \ {mrText}
    /\ UNCHANGED <<mrLabels, changelog, pushes>>
AddLabel ==
    /\ PersonActs
    /\ \E l \in UserLabels \ mrLabels : mrLabels' = mrLabels \cup {l}
    /\ UNCHANGED <<mrText, changelog, pushes>>
CommitEntry ==
    /\ PersonActs
    /\ pushes' = pushes + 1
    /\ changelog' = <<pushes'>> \o changelog
    /\ UNCHANGED <<mrText, mrLabels>>

-----------------------------------------------------------------------------
(* A request. *)

Command(r) == Head(requests[r].todo)

\* The provider is fetched when a request's first tool is made.
ReceiveRequest(r) ==
    /\ requests[r].pc = "idle"
    /\ \E commands \in CommandLists :
        requests' = [requests EXCEPT ![r] = [Resting EXCEPT !.pc = "next", !.todo = commands,
                                                !.text = mrText, !.labels = mrLabels]]
    /\ UNCHANGED <<mrText, mrLabels, mrNotes, changelog, pushes, reviews, toolConf, personSteps, toolFaults>>

\* A tool reads what it needs and says that it works; /describe takes the user's part
\* from the provider, which keeps it unless there is none. A changelog that cannot be
\* read passes for an empty one.
UserPartSeen(p) == IF p.user # Uncached THEN p.user ELSE UserPart(p.text)
NoUserPart(text) == text # <<>> /\ Head(text) \in Headings /\ Places(text, {UserHeading}) = {}
Remembered(p) == IF p.user # Uncached \/ NoUserPart(p.text) THEN p.user ELSE UserPart(p.text)
StartCommand(r) ==
    LET p == requests[r]
    IN  /\ p.pc = "next"
        /\ p.todo # <<>>
        /\ mrNotes' = IF Command(r) = "config" THEN mrNotes ELSE mrNotes \cup {[kind |-> "progress", by |-> r, n |-> 0]}
        /\ \/ /\ ToolFine
              /\ requests' = [requests EXCEPT ![r] =
                    [p EXCEPT !.pc = "asking", !.user = IF Command(r) = "describe" THEN Remembered(p) ELSE @,
                              !.file = changelog, !.seen = pushes, !.unread = FALSE]]
           \/ /\ ToolFault
              /\ Command(r) = "update_changelog"
              /\ requests' = [requests EXCEPT ![r] = [p EXCEPT !.pc = "asking", !.file = <<>>, !.unread = TRUE]]
        /\ UNCHANGED <<mrText, mrLabels, changelog, pushes, reviews, toolConf, personSteps>>

AllNotes(r) == mrNotes
NoProgress(r) == {n \in mrNotes : n.kind # "progress" \/ n.by # r}
EndCommand(r, p) == requests' = [requests EXCEPT ![r] = [p EXCEPT !.pc = "next", !.todo = Tail(@)]]

\* A write sends all that was set since the last one that worked, and its answer
\* refreshes the provider's copy. The error of a write is only logged.
TextSent(p) == IF p.dirty THEN p.text ELSE mrText
Saved(p, text, labels) == [p EXCEPT !.text = text, !.labels = labels, !.dirty = FALSE]
WriteLabels(r, p, new) ==
    /\ mrLabels' = new
    /\ mrText' = TextSent(p)
    /\ EndCommand(r, Saved(p, mrText', new))
NoWrite(r, p) == UNCHANGED <<mrText, mrLabels>> /\ EndCommand(r, p)

DescribeMR(r, answer) ==
    LET p == requests[r]
        new == DescribeLabels(p.labels, answer)
        writes == toolConf.labels /\ answer.labels # {} /\ new # p.labels
        text == Described(UserPartSeen(p), answer)
    IN  /\ Command(r) = "describe"
        /\ mrLabels' = IF writes THEN new ELSE mrLabels
        /\ \/ ToolFine /\ mrText' = text /\ EndCommand(r, Saved(p, text, mrLabels'))
           \/ /\ ToolFault
              /\ mrText' = IF writes THEN TextSent(p) ELSE mrText
              /\ EndCommand(r, [p EXCEPT !.text = text, !.dirty = TRUE, !.labels = IF writes THEN new ELSE @])
        /\ mrNotes' = NoProgress(r)
        /\ UNCHANGED <<changelog, pushes, reviews>>

\* The first review comment is edited; if that fails a second one is published.
ReviewNotes == {n \in mrNotes : n.kind = "review"}
FirstNote(notes) == CHOOSE n \in notes : \A m \in notes : n.by <= m.by
AddReview(r, note) == mrNotes' = NoProgress(r) \cup {note} /\ ToolFine
ShowReview(r, note) ==
    \/ ReviewNotes = {} /\ AddReview(r, note)
    \/ /\ ReviewNotes # {}
       /\ LET first == FirstNote(ReviewNotes)
          IN  mrNotes' = (NoProgress(r) \ {first}) \cup {[first EXCEPT !.n = note.n]}
       /\ ToolFine
    \/ ReviewNotes # {} /\ mrNotes' = NoProgress(r) \cup {note} /\ ToolFault
ReviewMR(r) ==
    LET p == requests[r]
        new == LabelsOfReview(p.labels)
        note == [kind |-> "review", by |-> reviews + 1, n |-> reviews + 1]
    IN  /\ Command(r) = "review"
        /\ IF new # p.labels THEN WriteLabels(r, p, new) ELSE NoWrite(r, p)
        /\ reviews' = reviews + 1
        /\ ShowReview(r, note)
        /\ UNCHANGED <<changelog, pushes>>

GenerateLabels(r, answer) ==
    /\ Command(r) = "generate_labels"
    /\ WriteLabels(r, requests[r], DescribeLabels(requests[r].labels, answer))
    /\ mrNotes' = NoProgress(r)
    /\ ToolFine
    /\ UNCHANGED <<changelog, pushes, reviews>>

\* The new entry goes before the file as it was read.
NewFile(entry, file) == <<entry>> \o file
UpdateChangelog(r) ==
    /\ Command(r) = "update_changelog"
    /\ pushes' = pushes + 1
    /\ changelog' = NewFile(pushes + 1, requests[r].file)
    /\ mrNotes' = NoProgress(r)
    /\ EndCommand(r, requests[r])
    /\ ToolFine
    /\ UNCHANGED <<mrText, mrLabels, reviews>>

\* /ask and /config only comment.
Reply(r) ==
    /\ Command(r) \in {"ask", "config"}
    /\ mrNotes' = NoProgress(r) \cup {[kind |-> "reply", by |-> r, n |-> Len(requests[r].todo)]}
    /\ EndCommand(r, requests[r])
    /\ ToolFine
    /\ UNCHANGED <<mrText, mrLabels, changelog, pushes, reviews>>

AnswerCommand(r) ==
    /\ requests[r].pc = "asking"
    /\ \/ \E answer \in Answers : DescribeMR(r, answer) \/ GenerateLabels(r, answer)
       \/ ReviewMR(r) \/ UpdateChangelog(r) \/ Reply(r)
    /\ UNCHANGED <<toolConf, personSteps>>

\* Every model failed: the tool logs it, or handle_request does; the note stays.
NoAnswer(r) ==
    /\ requests[r].pc = "asking"
    /\ Command(r) # "config"
    /\ ToolFault
    /\ EndCommand(r, [requests[r] EXCEPT !.fine = FALSE])
    /\ UNCHANGED <<mrText, mrLabels, mrNotes, changelog, pushes, reviews, toolConf, personSteps>>

ToolNext ==
    \/ WriteText \/ AddLabel \/ CommitEntry
    \/ \E r \in Requests : ReceiveRequest(r) \/ StartCommand(r) \/ AnswerCommand(r) \/ NoAnswer(r)

ToolSpec == ToolInit /\ [][ToolNext]_toolVars

-----------------------------------------------------------------------------
(* Properties. *)

\* Types; a review comment shows a review that was published.
ToolTypeOK ==
    /\ \A n \in mrNotes : n.kind \in {"progress", "reply"} \/ n.n \in 1..reviews
    /\ \A r \in Requests : requests[r].pc \in {"idle", "next", "asking"}
    /\ \A i \in DOMAIN changelog : changelog[i] \in 0..pushes

Acts(r) == requests[r].pc = "asking" /\ requests'[r].pc = "next"

\* Any number of runs of /describe keep what the person wrote: a run over a description
\* nobody edited since its provider was fetched leaves the same user's part. It takes
\* that the person used no generated heading, and that the answer brings a heading and
\* no key of its own; such a key comes first and hides the rest from the next run.
Recognized(answer) == ~answer.own /\ (answer.desc \/ (answer.type /\ toolConf.ptype))
ByRecognized(r) == \E answer \in Answers : Recognized(answer) /\ mrText' = Described(UserPartSeen(requests[r]), answer)
UserTextStays ==
    [][\A r \in Requests :
        (/\ Acts(r) /\ mrText' # mrText /\ requests[r].text = mrText
         /\ UserPart(mrText) = UserPartSeen(requests[r])
         /\ Places(UserPart(mrText), Headings) = {} /\ ByRecognized(r))
            => UserPart(mrText') = UserPart(mrText)]_toolVars

\* No tool removes a label of a person or of another tool, but one that was set after
\* its provider was fetched.
LabelsStay ==
    [][\A r \in Requests : Acts(r) =>
        \A l \in mrLabels \ mrLabels' :
            \/ l \notin requests[r].labels
            \/ l \in (IF Command(r) = "review" THEN ReviewLabels ELSE TypeLabels)]_toolVars

\* A changelog entry is lost only to a run that could not read the file, or during
\* whose model call somebody else committed to it.
ChangelogStays ==
    [][\A i \in DOMAIN changelog :
        \/ \E j \in DOMAIN changelog' : changelog'[j] = changelog[i]
        \/ \E r \in Requests : Acts(r) /\ (requests[r].unread \/ requests[r].seen # pushes)]_toolVars

\* The newest review is always on show, in one comment unless an edit has failed.
ReviewIsCurrent ==
    /\ reviews > 0 => \E n \in ReviewNotes : n.n = reviews
    /\ Cardinality(ReviewNotes) <= 1 + toolFaults

\* A request of which every command had its answer leaves no progress note.
ProgressEnds ==
    \A r \in Requests : requests[r].pc = "next" /\ requests[r].todo = <<>> /\ requests[r].fine =>
        \A n \in mrNotes : n.kind = "progress" => n.by # r

\* Whatever the tools of overlapping requests rewrite, what people wrote stays.
PeoplesWorkStays == UserTextStays /\ LabelsStay /\ ChangelogStays

\* The comments of a merge request tell how far its requests have come.
CommentsAreCurrent == ReviewIsCurrent /\ ProgressEnds
=============================================================================
