----------------------------- MODULE GithubPolling -----------------------------
(* The GitHub polling server (servers/github_polling.py): one loop fetches the
   unread notifications, marks each as read, decides whether its latest comment
   mentions the user, and at the end of the batch starts one process per mention.
   Meanwhile people comment. *)
EXTENDS Naturals, Sequences, FiniteSets

CONSTANTS
    Threads,        \* pull requests, one notification thread each
    BreakAt,        \* index of the last process of a batch: 11, for max_allowed_parallel_tasks = 10
    MaxScan,        \* max_comment_to_scan
    MaxComments     \* bounds what people write

VARIABLES
    discussion,     \* each thread's comments: "mention", "plain" or "bot"
    unread,         \* threads with an unread notification
    modified,       \* the list differs from the one the loop saw last
    poller,         \* the loop's place, its batch and its queue
    handledIds,     \* comments whose id was seen as the latest one
    starts,         \* how often a process was started for a comment
    excused         \* mentions that were queued and not started, or never looked at

pollVars == <<discussion, unread, modified, poller, handledIds, starts, excused>>

CommentIds == Threads \X (1..MaxComments)
Resting == [pc |-> "sleep", batch |-> {}, at |-> <<>>, queue |-> <<>>]

PollInit ==
    /\ discussion = [th \in Threads |-> <<>>]
    /\ unread = {}
    /\ modified = TRUE
    /\ poller = Resting
    /\ handledIds = {}
    /\ starts = [c \in CommentIds |-> 0]
    /\ excused = {}

KindOf(c) == discussion[c[1]][c[2]]
Written == UNION {{<<th, n>> : n \in DOMAIN discussion[th]} : th \in Threads}
Mentions == {c \in Written : KindOf(c) = "mention"}

-----------------------------------------------------------------------------
(* GitHub. *)

\* A comment of somebody else makes the thread unread; the bot's own does not.
Comment(th) ==
    /\ Cardinality(Written) < MaxComments
    /\ \E kind \in {"mention", "plain", "bot"} :
        /\ discussion' = [discussion EXCEPT ![th] = Append(@, kind)]
        /\ IF kind = "bot" THEN UNCHANGED <<unread, modified>>
           ELSE unread' = unread \cup {th} /\ modified' = TRUE
    /\ UNCHANGED <<poller, handledIds, starts, excused>>

-----------------------------------------------------------------------------
(* The loop. *)

\* The notifications name the comment that is the latest now. An unchanged list is
\* answered with 304, and the loop sleeps again.
Latest(th) == <<th, Len(discussion[th])>>
Fetch ==
    /\ poller.pc = "sleep"
    /\ modified
    /\ modified' = FALSE
    /\ poller' = IF unread = {} THEN Resting
                 ELSE [Resting EXCEPT !.pc = "mark", !.batch = {Latest(th) : th \in unread}]
    /\ UNCHANGED <<discussion, unread, handledIds, starts, excused>>

\* The notification is marked as read, or GitHub refuses to, which is only logged.
\* Marking covers what was written since the list was fetched.
Newer(c) == {d \in Mentions : d[1] = c[1] /\ d[2] > c[2]}
MarkRead(c) ==
    /\ poller.pc = "mark"
    /\ c \in poller.batch
    /\ poller' = [poller EXCEPT !.pc = "validate", !.batch = @ \ {c}, !.at = c]
    /\ \/ unread' = unread \ {c[1]} /\ excused' = excused \cup Newer(c)
       \/ UNCHANGED <<unread, excused>>
    /\ UNCHANGED <<discussion, modified, handledIds, starts>>

\* An exception ends the batch with its queue: what was marked as read is forgotten,
\* and what was not is not fetched again before the list changes.
Mentioned(th) == {c \in Mentions : c[1] = th}
BatchFails(c) ==
    /\ poller.pc = "mark"
    /\ c \in poller.batch
    /\ poller' = Resting
    /\ excused' = excused \cup (UNION {Mentioned(d[1]) : d \in poller.batch})
                          \cup (UNION {Mentioned(poller.queue[k][1]) : k \in DOMAIN poller.queue})
    /\ UNCHANGED <<discussion, unread, modified, handledIds, starts>>

\* The previous comments are those that are there when they are asked for.
Previous(th) ==
    {n \in DOMAIN discussion[th] :
        n > Len(discussion[th]) - MaxScan /\ discussion[th][n] = "mention"}
Newest(S) == CHOOSE n \in S : \A k \in S : k <= n

QueueAlone(c) == poller' = [poller EXCEPT !.pc = "mark", !.at = <<>>, !.queue = <<c>>]
Queue(c) == poller' = [poller EXCEPT !.pc = "mark", !.at = <<>>, !.queue = Append(@, c)]
Skip == poller' = [poller EXCEPT !.pc = "mark", !.at = <<>>]

\* A latest comment that was seen before is skipped. One that mentions the user is
\* queued; otherwise the newest mention among the previous ones is.
SeenKeepsNothing(c) == UNCHANGED handledIds
Seen(c) == handledIds' = handledIds \cup {c}
Validate ==
    LET c == poller.at
        th == c[1]
    IN  /\ poller.pc = "validate"
        /\ IF Mentioned(th) = {} THEN Skip /\ UNCHANGED handledIds
           ELSE IF c \in handledIds THEN Skip /\ UNCHANGED handledIds
           ELSE /\ Seen(c)
                /\ IF KindOf(c) = "mention" THEN Queue(c)
                   ELSE IF Previous(th) # {} THEN Queue(<<th, Newest(Previous(th))>>) ELSE Skip
        /\ UNCHANGED <<discussion, unread, modified, starts, excused>>

\* A request fails: is_valid_notification swallows it, with or without the id noted.
ValidateFails ==
    /\ poller.pc = "validate"
    /\ Skip
    /\ handledIds' \in {handledIds, handledIds \cup {poller.at}}
    /\ excused' = excused \cup Mentioned(poller.at[1])
    /\ UNCHANGED <<discussion, unread, modified, starts>>

\* One process per queued comment; the index is tested after the start.
Started(k) == k - 1 <= BreakAt
StartProcesses ==
    LET started == {k \in DOMAIN poller.queue : Started(k)}
    IN  /\ poller.pc = "mark"
        /\ poller.batch = {}
        /\ poller' = Resting
        /\ starts' = [c \in CommentIds |->
                        starts[c] + Cardinality({k \in started : poller.queue[k] = c})]
        /\ excused' = excused \cup {poller.queue[k] : k \in DOMAIN poller.queue \ started}
        /\ UNCHANGED <<discussion, unread, modified, handledIds>>

PollStep ==
    \/ Fetch \/ StartProcesses \/ Validate \/ ValidateFails
    \/ \E c \in poller.batch : MarkRead(c) \/ BatchFails(c)

PollNext == (\E th \in Threads : Comment(th)) \/ PollStep

PollSpec == PollInit /\ [][PollNext]_pollVars /\ WF_pollVars(PollStep)

-----------------------------------------------------------------------------
(* Properties. *)

\* Types; only mentions are queued, excused or started, and only written comments are seen.
PollTypeOK ==
    /\ poller.pc \in {"sleep", "mark", "validate"}
    /\ unread \subseteq Threads
    /\ handledIds \subseteq Written
    /\ \A k \in DOMAIN poller.queue : poller.queue[k] \in Mentions
    /\ {c \in CommentIds : starts[c] > 0} \cup excused \subseteq Mentions

\* However often GitHub delivers a notification, a command is run again only because
\* the loop scanned back for it from a comment that mentions nobody, once for each:
\* the scan does not ask whether the comment it finds was handled.
RepeatsHaveCause ==
    \A c \in CommentIds :
        starts[c] <= 1 + Cardinality({d \in handledIds : d[1] = c[1] /\ KindOf(d) # "mention"})

\* A mention is answered, unless it lost its batch, came between fetch and mark, was
\* over the cap, or newer comments hide it: a newer mention, or more than are scanned.
Hidden(c) ==
    \/ \E d \in Mentions : d[1] = c[1] /\ d[2] > c[2]
    \/ Len(discussion[c[1]]) - c[2] >= MaxScan
MentionIsAnswered ==
    \A c \in CommentIds : c \in Mentions ~> (starts[c] > 0 \/ c \in excused \/ Hidden(c))
=============================================================================
