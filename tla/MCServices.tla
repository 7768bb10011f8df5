------------------------------ MODULE MCServices ------------------------------
(* The server components of one run: each behaviour is that of the one component
   its initial state names, with the others at rest. *)
EXTENDS GithubPushTrigger, GithubPolling, PatchText, DiffBudget

Hook == [action |-> "synchronize", bot |-> FALSE, filtered |-> FALSE, draft |-> FALSE, first |-> FALSE,
         same |-> FALSE, merge |-> FALSE, slash |-> FALSE, eligible |-> TRUE]
MCEvents == {Hook, [Hook EXCEPT !.draft = TRUE], [Hook EXCEPT !.action = "opened"]}

MCPatchConfs == {[before |-> 0, after |-> 0, dynamic |-> FALSE, upTo |-> 0],
                 [before |-> 3, after |-> 1, dynamic |-> FALSE, upTo |-> 0],
                 [before |-> 3, after |-> 1, dynamic |-> TRUE, upTo |-> 3]}
FileKind(type, lang, plain, wide, cut, old, new) ==
    [type |-> type, lang |-> lang, plain |-> plain, wide |-> wide, cut |-> cut, old |-> old, new |-> new]
MCFileKinds ==
    {FileKind("ADDED", "py", 2, 2, 2, {}, {}),
     FileKind("MODIFIED", "py", 2, 4, 2, {}, {}),
     FileKind("MODIFIED", "md", 6, 7, 5, {}, {}),
     FileKind("DELETED", "md", 3, 3, 3, {}, {}),
     FileKind("RENAMED", "py", 3, 4, 0, {1}, {2}),
     FileKind("UNKNOWN", "md", 1, 1, 1, {1}, {1, 2}),
     FileKind("UNKNOWN", "md", 1, 1, 1, {}, {}),
     FileKind("RENAMED", "md", 0, 0, 0, {}, {})}
MCLanguages == <<"py">>
MCLimits == <<14, 10>>
VARIABLE service

Init == service \in {"push", "poll", "patch", "diff"} /\ PushInit /\ PollInit /\ PatchInit /\ DiffInit
PushService == service = "push" /\ PushNext /\ UNCHANGED <<service, pollVars, patchVars, diffVars>>
PollService == service = "poll" /\ PollNext /\ UNCHANGED <<service, pushVars, patchVars, diffVars>>
PatchOfFile == service = "patch" /\ PatchNext /\ UNCHANGED <<service, pushVars, pollVars, diffVars>>
DiffOfRequest == service = "diff" /\ DiffNext /\ UNCHANGED <<service, pushVars, pollVars, patchVars>>
Next == PushService \/ PollService \/ PatchOfFile \/ DiffOfRequest
vars == <<service, pushVars, pollVars, patchVars, diffVars>>
Fairness ==
    /\ \A t \in PushTasks : WF_vars(PushStep(t) /\ UNCHANGED <<service, pollVars, patchVars, diffVars>>)
    /\ WF_vars(service = "poll" /\ PollStep /\ UNCHANGED <<service, pushVars, patchVars, diffVars>>)
Spec == Init /\ [][Next]_vars /\ Fairness

\* The types of every component.
ServicesTypeOK == PushTypeOK /\ PollTypeOK /\ PatchTypeOK /\ DiffTypeOK
=============================================================================
