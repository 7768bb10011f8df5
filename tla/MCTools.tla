-------------------------------- MODULE MCTools --------------------------------
(* One run for the components whose properties are safety only: each behaviour is
   that of the one component its initial state names, with the others at rest. *)
EXTENDS MCReview, WeeklyReport, HookDispatch, TelemetryViews, ToolRuns, RequestSettings

MCReportConfs == {[notifier |-> "webhook", repoPath |-> TRUE], [notifier |-> "openapi", repoPath |-> FALSE]}
MCHookConfigs == {[trigger |-> TRUE, describes |-> TRUE, allowed |-> TRUE],
                  [trigger |-> FALSE, describes |-> TRUE, allowed |-> FALSE]}
MCRuleLists == {<<>>, <<"C", "A">>}
MCRuleSeverities == [key \in {"A"} |-> "low"]
MCCommandLists == {<<"describe", "review">>, <<"describe">>, <<"generate_labels">>, <<"update_changelog">>, <<"ask">>}
MCTexts == {<<"prose">>, <<"prose", "rule", "prose">>}
MCAnswers == {[type |-> TRUE, desc |-> TRUE, own |-> FALSE, labels |-> {"bug fix"}],
              [type |-> TRUE, desc |-> FALSE, own |-> FALSE, labels |-> {}],
              [type |-> FALSE, desc |-> TRUE, own |-> TRUE, labels |-> {"enhancement"}]}
MCToolConfs == {[labels |-> TRUE, ptype |-> TRUE], [labels |-> FALSE, ptype |-> FALSE]}
Sets(keys) == [keys |-> keys, fine |-> TRUE]
MCPayloads == {[kind |-> "opened", bot |-> FALSE, valid |-> TRUE, args |-> {}],
               [kind |-> "push", bot |-> FALSE, valid |-> TRUE, args |-> {}],
               [kind |-> "push", bot |-> TRUE, valid |-> FALSE, args |-> {}],
               [kind |-> "workflow", bot |-> FALSE, valid |-> TRUE, args |-> {}],
               [kind |-> "comment", bot |-> FALSE, valid |-> TRUE, args |-> {"findings"}]}
MCEnvironments == {{}, {"findings", "response_language"}}
MCExtraFiles == {[keys |-> {}, fine |-> TRUE], Sets({"findings", "paths"})}
MCGlobalFiles == {Sets({"findings", "disable_auto_feedback"}), [keys |-> {"disable_auto_feedback"}, fine |-> FALSE]}
MCLocalFiles == {Sets({"findings", "response_language"}),
                 Sets({"ignore_pr_title", "paths", "response_language", "extra_instructions"})}
MCAutoCommands == <<{"findings"}, {"response_language", "ignore_pr_title"}>>
\* The interchangeable things of the components are the same two (repositories are not:
\* a hook at rest names one of them).
Symmetry == Permutations(Hooks)

VARIABLE tool

restOfImprove == <<reportVars, dispatchVars, viewVars, toolVars, settingsVars>>
restOfReport == <<improveVars, dispatchVars, viewVars, toolVars, settingsVars>>
restOfDispatch == <<improveVars, reportVars, viewVars, toolVars, settingsVars>>
restOfViews == <<improveVars, reportVars, dispatchVars, toolVars, settingsVars>>
restOfTools == <<improveVars, reportVars, dispatchVars, viewVars, settingsVars>>
restOfSettings == <<improveVars, reportVars, dispatchVars, viewVars, toolVars>>
vars == <<tool, improveVars, restOfImprove>>
\* A server has both an environment and an extra file with keys, or neither.
Init ==
    /\ tool \in {"improve", "report", "dispatch", "views", "tools", "settings"}
    /\ ImproveInit /\ ReportInit /\ HookInit /\ ViewInit /\ ToolInit /\ SettingsInit
    /\ tool # "report" => reportConf = CHOOSE c \in ReportConfs : TRUE
    /\ tool # "dispatch" => hookConf = CHOOSE c \in HookConfigs : TRUE
    /\ tool # "tools" => toolConf = (CHOOSE c \in ToolConfs : TRUE) /\ mrText = (CHOOSE t \in Texts : TRUE)
    /\ (extraFile = NoFile) <=> (environment = {})
    /\ tool # "settings" => /\ server = (CHOOSE s \in WebServers : s \notin {"bitbucket_app", "action"})
                            /\ environment = (CHOOSE e \in Environments : TRUE)
                            /\ extraFile = (CHOOSE f \in ExtraFiles : TRUE)
                            /\ localFile = [r \in Repos |-> CHOOSE f \in LocalFiles : TRUE]
Improve == tool = "improve" /\ ImproveNext /\ UNCHANGED <<tool, restOfImprove>>
WeeklyJob == tool = "report" /\ ReportNext /\ UNCHANGED <<tool, restOfReport>>
Dispatch == tool = "dispatch" /\ HookNext /\ UNCHANGED <<tool, restOfDispatch>>
Store == tool = "views" /\ ViewNext /\ UNCHANGED <<tool, restOfViews>>
Tools == tool = "tools" /\ ToolNext /\ UNCHANGED <<tool, restOfTools>>
RequestsServed == tool = "settings" /\ SettingsNext /\ UNCHANGED <<tool, restOfSettings>>
Next == Improve \/ WeeklyJob \/ Dispatch \/ Store \/ Tools \/ RequestsServed
Spec == Init /\ [][Next]_vars

\* The types of every component.
ToolsTypeOK == ImproveTypeOK /\ ReportTypeOK /\ HookTypeOK /\ ViewTypeOK /\ ToolTypeOK /\ SettingsTypeOK
=============================================================================
