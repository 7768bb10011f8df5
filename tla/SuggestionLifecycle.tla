-------------------------- MODULE SuggestionLifecycle --------------------------
(***************************************************************************)
(* What the telemetry promises of one inline code suggestion: the states   *)
(* its row goes through (telemetry/models.py, Suggestion.state) and when   *)
(* an adoption may be reported in action_events.  How the webhooks, the    *)
(* store and GitLab bring that about is SuggestionFlow.                    *)
(***************************************************************************)
CONSTANT Suggestions

VARIABLES
    state,   \* the state of each row, "absent" before it is recorded
    adopted  \* the suggestions an action "applied" or "adopted_implicitly" names

vars == <<state, adopted>>

States == {"absent", "open", "applied", "dismissed", "superseded"}

TypeOK ==
    /\ state \in [Suggestions -> States]
    /\ adopted \subseteq Suggestions

Init ==
    /\ state = [s \in Suggestions |-> "absent"]
    /\ adopted = {}

Move(S, from, to) ==
    /\ \A s \in S : state[s] \in from
    /\ state' = [s \in Suggestions |-> IF s \in S THEN to ELSE state[s]]

Record(s) == Move({s}, {"absent"}, "open") /\ UNCHANGED adopted

(* One Apply commit may adopt several suggestions. *)
Adopt(S) == Move(S, {"open"}, "applied") /\ UNCHANGED adopted

(* A reviewer may still dismiss what has been applied... *)
Dismiss(s) == Move({s}, {"open", "applied"}, "dismissed") /\ UNCHANGED adopted

(* ...but a source update retires only what nobody has acted on. *)
Supersede(s) == Move({s}, {"open"}, "superseded") /\ UNCHANGED adopted

(* An adoption is reported once the row says so, never before. *)
Report(s) ==
    /\ state[s] = "applied"
    /\ adopted' = adopted \cup {s}
    /\ UNCHANGED state

Next ==
    \/ \E s \in Suggestions : Record(s) \/ Dismiss(s) \/ Supersede(s) \/ Report(s)
    \/ \E S \in SUBSET Suggestions : Adopt(S)

Spec == Init /\ [][Next]_vars
=============================================================================
