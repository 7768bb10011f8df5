--------------------------- MODULE RequestSettings ---------------------------
(* Whose settings a command runs under (git_providers/utils.py, agent/pr_agent.py and the
   webhook servers). A hook is served with a copy of the process's settings, or on the
   process's own; before each command the repository's files are merged into them.
   A command's model calls are where other hooks get their turn. *)
EXTENDS Naturals, Sequences, FiniteSets, SequencesExt

CONSTANTS
    Hooks,
    Repos,          \* repositories of one organisation
    WebServers,
    Payloads,       \* [kind, bot, valid, args]: a comment's arguments, by key
    Environments,   \* keys that environment variables set
    ExtraFiles, GlobalFiles, LocalFiles,    \* [keys, fine]
    AutoCommands,   \* of each configured command, the keys its arguments set
    CacheTTL,       \* _GLOBAL_SETTINGS_CACHE_TTL_SECONDS
    MaxEdits, MaxFetchFaults, MaxServerTime

\* An ordinary key, a host-only one, a filter and a switch of automatic runs, the language
\* and the instructions of the prompts. A value is known by where it comes from.
SettingKeys == {"findings", "paths", "ignore_pr_title", "disable_auto_feedback",
                "response_language", "extra_instructions"}
HostOnly == {"paths"}
SettingsFile == [keys : SUBSET SettingKeys, fine : BOOLEAN]

\* A server that has no command configured runs none, and is left out.
ASSUME SettingsAssumption ==
    /\ Repos # {} /\ Payloads # {}
    /\ Payloads \subseteq [kind : {"opened", "push", "workflow", "comment"}, bot : BOOLEAN, valid : BOOLEAN,
                           args : SUBSET SettingKeys]
    /\ ExtraFiles \cup GlobalFiles \cup LocalFiles \subseteq SettingsFile
    /\ AutoCommands \in Seq(SUBSET SettingKeys) /\ AutoCommands # <<>>
    /\ {CacheTTL, MaxEdits, MaxFetchFaults, MaxServerTime} \subseteq Nat

VARIABLES
    server,
    environment, extraFile,
    globalFile,     \* the organisation's pr-agent-settings
    localFile,      \* of each repository
    globalWas,      \* its earlier versions, and when they were replaced
    globalCache,    \* [file, until]
    shared,         \* the process's settings
    hooks,          \* each hook's place, its settings and the files it has read
    told,           \* comments on settings that could not be applied
    edits, fetchFaults, serverTime

settingsVars == <<server, environment, extraFile, globalFile, localFile, globalWas, globalCache, shared, hooks, told,
                  edits, fetchFaults, serverTime>>

NoFile == [keys |-> {}, fine |-> TRUE]
From(source, of) == <<source, of>>
Default == From("default", "host")
Env == From("env", "host")
Start ==
    [value |-> [k \in SettingKeys |-> IF k \in environment THEN Env ELSE Default], added |-> <<>>, auto |-> FALSE]
\* Of a hook that is over nothing stays but what it did to the process's settings.
NoHook == [pc |-> "idle", repo |-> CHOOSE r \in Repos : TRUE, payload |-> CHOOSE p \in Payloads : TRUE, own |-> Start,
           todo |-> <<>>, given |-> {}, files |-> [read |-> FALSE, global |-> NoFile, local |-> NoFile]]
Over == [NoHook EXCEPT !.pc = "done"]

SettingsInit ==
    /\ server \in WebServers
    /\ environment \in Environments
    /\ extraFile \in ExtraFiles
    /\ globalFile \in IF server \in {"bitbucket_app", "action"} THEN GlobalFiles ELSE {NoFile}
    /\ localFile \in [Repos -> LocalFiles]
    /\ globalWas = {}
    /\ globalCache = [file |-> NoFile, until |-> 0]
    /\ shared = Start
    /\ hooks = [h \in Hooks |-> NoHook]
    /\ told = {}
    /\ edits = 0
    /\ fetchFaults = 0
    /\ serverTime = 0

\* Azure DevOps and Bitbucket Server give a hook no settings of its own. The GitHub action
\* is a process for one event.
AllButGitea == server \in {"bitbucket_app", "gerrit"}
Copies == server \in {"gitea", "bitbucket_app", "gerrit"}
SettingsOf(h) == IF Copies THEN hooks[h].own ELSE shared
Put(h, p, s) ==
    /\ hooks' = [hooks EXCEPT ![h] = [p EXCEPT !.own = IF Copies /\ p # Over THEN s ELSE @]]
    /\ shared' = IF Copies THEN shared ELSE s

-----------------------------------------------------------------------------
(* apply_repo_settings. *)

\* A section is replaced by itself with the file's keys; what had been added to the
\* instructions goes with them.
Overlay(s, keys, source) ==
    [s EXCEPT !.value = [k \in SettingKeys |-> IF k \in keys THEN source ELSE s.value[k]],
              !.added = IF "extra_instructions" \in keys THEN <<>> ELSE @]
EnvOnTop(s) == Overlay(s, environment, Env)

\* The extra file may set any key, and is skipped when it does not load. A repository's
\* file that cannot be applied is told and leaves the settings as they were.
WithExtra(s) ==
    IF extraFile = NoFile THEN s
    ELSE EnvOnTop(Overlay(s, IF extraFile.fine THEN extraFile.keys ELSE {}, From("extra", "host")))
WithFile(s, file, source) ==
    IF file = NoFile \/ ~file.fine THEN s ELSE EnvOnTop(Overlay(s, file.keys \ HostOnly, source))
Applied(s, files, repo) ==
    WithFile(WithFile(WithExtra(s), files.global, From("global", "org")), files.local, From("local", repo))
Complaints(files, repo) == {<<repo, c>> : c \in {d \in {"global", "local"} : ~files[d].fine}}

\* The organisation's file is asked for once in a TTL; a failure to read it is not kept.
HasGlobal == server \in {"bitbucket_app", "action"}
ValidForever == globalCache.until > 0
Valid == globalCache.until > serverTime
GlobalNow == IF ~HasGlobal THEN NoFile ELSE IF Valid THEN globalCache.file ELSE globalFile
Cached == IF HasGlobal /\ ~Valid THEN [file |-> globalFile, until |-> serverTime + CacheTTL] ELSE globalCache

\* Files are read once for a hook, and again for each command in the action. One that
\* cannot be read passes for one that is not there.
ReadFiles(h, files) ==
    LET remembers == server # "action"
        repo == hooks[h].repo
    IN  IF hooks[h].files.read THEN files = hooks[h].files /\ UNCHANGED <<globalCache, fetchFaults>>
        ELSE \/ /\ files = [read |-> remembers, global |-> GlobalNow, local |-> localFile[repo]]
                /\ globalCache' = Cached
                /\ UNCHANGED fetchFaults
             \/ /\ fetchFaults < MaxFetchFaults
                /\ fetchFaults' = fetchFaults + 1
                /\ \/ /\ files = [read |-> remembers, global |-> GlobalNow, local |-> NoFile]
                      /\ globalCache' = Cached
                   \/ /\ HasGlobal /\ ~Valid
                      /\ files = [read |-> remembers, global |-> NoFile, local |-> localFile[repo]]
                      /\ UNCHANGED globalCache
Unread == UNCHANGED <<globalCache, fetchFaults, told>>

-----------------------------------------------------------------------------
(* The agent. *)

WithArgs(s, keys, h) == Overlay(s, keys, From("arg", h))

\* The language is asked for once in the instructions.
SpokenAgain(s) ==
    IF s.value["response_language"] = Default THEN s ELSE [s EXCEPT !.added = Append(@, s.value["response_language"])]
Spoken(s) == IF s.value["response_language"] \in ToSet(s.added) THEN s ELSE SpokenAgain(s)
Artifact == From("artifact", "host")
WithArtifact(s) == IF Artifact \in ToSet(s.added) THEN s ELSE [s EXCEPT !.added = Append(@, Artifact)]

\* The servers set a configured command's arguments before the agent applies the
\* repository's files once more; the agent sets a comment's after it. Bitbucket Server
\* does the former with comments too.
Automatic(p) == p.payload.kind # "comment"
ArgsFirst(p) == server = "bitbucket_server" \/ (Automatic(p) /\ server # "action")
CommandSettings(h, s, files) ==
    LET p == hooks[h]
        args == Head(p.todo)
        before == IF server = "bitbucket_server" THEN Applied(s, files, p.repo) ELSE s
    IN  Spoken(IF ArgsFirst(p) THEN Applied(WithArgs(before, args, h), files, p.repo)
               ELSE WithArgs(Applied(s, files, p.repo), args, h))

-----------------------------------------------------------------------------
(* The servers. *)

Kinds == [s \in WebServers |->
    CASE s = "gerrit" -> {"comment"}
      [] s = "azure" -> {"opened", "comment"}
      [] s = "action" -> {"opened", "push", "workflow", "comment"}
      [] OTHER -> {"opened", "push", "comment"}]
Ignores(s) == s.value["ignore_pr_title"] # Default
Disabled(s) == s.value["disable_auto_feedback"] # Default

\* Until it waits for something, a handler goes on without interruption.
Synchronous(h) ==
    hooks[h].pc = "starting" \/ (hooks[h].pc = "received" /\ server \in {"bitbucket_server", "action"})
Turn(h) == \A g \in Hooks \ {h} : ~Synchronous(g)

\* What a server drops before it knows the repository's settings.
Unwanted(p) ==
    \/ p.bot /\ (server = "bitbucket_app" \/ (server = "action" /\ p.kind \in {"push", "comment"}))
    \/ ~p.valid /\ p.kind # "opened" /\ server \in {"gitea", "azure"}
    \/ /\ Ignores(Start)
       /\ IF server = "bitbucket_app" THEN p.kind = "opened" ELSE server = "gitea" /\ p.kind # "comment"

Receive(h) ==
    /\ hooks[h].pc = "idle"
    /\ Turn(h)
    /\ server = "action" => \A g \in Hooks : hooks[g].pc = "idle"
    /\ \E p \in Payloads, r \in Repos :
        /\ p.kind \in Kinds[server]
        /\ hooks' = [hooks EXCEPT ![h] = IF Unwanted(p) THEN Over
                        ELSE [NoHook EXCEPT !.pc = "received", !.repo = r, !.payload = p, !.own = Start,
                                            !.todo = IF p.kind = "comment" THEN <<p.args>> ELSE AutoCommands]]
    /\ Unread
    /\ UNCHANGED <<server, environment, extraFile, globalFile, localFile, globalWas, shared, edits, serverTime>>

\* Before automatic commands the repository's settings are applied, and may say that
\* there are none to run. A push trigger that is off is seen last.
Stops(p, s) ==
    \/ p.kind = "opened" /\ (Disabled(s) \/ (server = "bitbucket_app" /\ Ignores(s)))
    \/ server = "bitbucket_server" /\ (Disabled(s) \/ Ignores(s))
    \/ server = "gitea" /\ Ignores(s)
PushOff(p) == p.kind = "push" /\ ~p.valid
Read == [read : BOOLEAN, global : GlobalFiles \cup {NoFile}, local : LocalFiles \cup {NoFile}]
Prepare(h) ==
    LET p == hooks[h]
        first == IF server = "bitbucket_server" THEN "scheduled" ELSE "starting"
    IN  /\ p.pc = "received"
        /\ Turn(h)
        /\ server # "action" /\ Automatic(p)
        /\ \E files \in Read :
            LET s == Applied(SettingsOf(h), files, p.repo)
            IN  /\ ReadFiles(h, files)
                /\ told' = told \cup Complaints(files, p.repo)
                /\ IF Stops(p.payload, s) THEN Put(h, Over, s)
                   ELSE Put(h, IF PushOff(p.payload) THEN Over ELSE [p EXCEPT !.files = files, !.pc = first],
                            [s EXCEPT !.auto = TRUE])
        /\ UNCHANGED <<server, environment, extraFile, globalFile, localFile, globalWas, edits, serverTime>>

\* The action speaks the repository's language, but after another workflow only the
\* process's, and leaves filters and switches alone. It runs its three tools itself, and
\* the agent only for a push.
ActionTools == <<{}, {}, {}>>
PrepareAction(h) ==
    LET p == hooks[h]
        event == p.payload
    IN  /\ p.pc = "received"
        /\ server = "action" /\ Automatic(p)
        /\ \E files \in Read :
            LET s == IF event.kind = "workflow" THEN Applied(Spoken(SettingsOf(h)), files, p.repo)
                     ELSE Spoken(Applied(SettingsOf(h), files, p.repo))
            IN  /\ ReadFiles(h, files)
                /\ told' = told \cup Complaints(files, p.repo)
                /\ IF PushOff(event) THEN Put(h, Over, [WithArtifact(s) EXCEPT !.auto = FALSE])
                   ELSE Put(h, [p EXCEPT !.files = files, !.pc = "starting",
                                         !.todo = IF event.kind = "push" THEN @ ELSE ActionTools],
                            [WithArtifact(s) EXCEPT !.auto = TRUE])
        /\ UNCHANGED <<server, environment, extraFile, globalFile, localFile, globalWas, edits, serverTime>>
PrepareComment(h) ==
    LET p == hooks[h]
    IN  /\ p.pc = "received"
        /\ Turn(h)
        /\ ~Automatic(p)
        /\ Put(h, [p EXCEPT !.pc = IF server = "bitbucket_server" THEN "scheduled" ELSE "starting"],
               IF server = "action" THEN WithArtifact(SettingsOf(h)) ELSE SettingsOf(h))
        /\ Unread
        /\ UNCHANGED <<server, environment, extraFile, globalFile, localFile, globalWas, edits, serverTime>>

AgentStarts(h) ==
    LET p == hooks[h]
        begun == [p EXCEPT !.pc = "running", !.given = @ \cup Head(p.todo)]
    IN  /\ p.pc \in {"starting", "scheduled"}
        /\ Turn(h)
        /\ IF server = "action" /\ p.payload.kind \in {"opened", "workflow"}
           THEN Put(h, begun, SettingsOf(h)) /\ Unread
           ELSE \E files \in Read :
                    /\ ReadFiles(h, files)
                    /\ told' = told \cup Complaints(files, p.repo)
                    /\ Put(h, [begun EXCEPT !.files = files], CommandSettings(h, SettingsOf(h), files))
        /\ UNCHANGED <<server, environment, extraFile, globalFile, localFile, globalWas, edits, serverTime>>
CommandReturns(h) ==
    LET p == hooks[h]
    IN  /\ p.pc = "running"
        /\ Turn(h)
        /\ hooks' = [hooks EXCEPT ![h] = IF Len(p.todo) = 1 THEN Over
                                         ELSE [p EXCEPT !.todo = Tail(@), !.pc = "starting"]]
        /\ Unread
        /\ UNCHANGED <<server, environment, extraFile, globalFile, localFile, globalWas, shared, edits, serverTime>>

-----------------------------------------------------------------------------
(* Repositories and the clock. *)

Edited ==
    /\ edits < MaxEdits
    /\ edits' = edits + 1
    /\ \A h \in Hooks : ~Synchronous(h)
    /\ UNCHANGED <<server, environment, extraFile, globalCache, shared, hooks, told, fetchFaults, serverTime>>
EditGlobal ==
    /\ HasGlobal
    /\ Edited
    /\ globalFile' \in GlobalFiles \ {globalFile}
    /\ globalWas' = globalWas \cup {[file |-> globalFile, at |-> serverTime]}
    /\ UNCHANGED localFile
EditLocal ==
    /\ Edited
    /\ \E r \in Repos, f \in LocalFiles : f # localFile[r] /\ localFile' = [localFile EXCEPT ![r] = f]
    /\ UNCHANGED <<globalFile, globalWas>>
TimePasses ==
    /\ HasGlobal
    /\ serverTime < MaxServerTime
    /\ \A h \in Hooks : ~Synchronous(h)
    /\ serverTime' = serverTime + 1
    /\ UNCHANGED <<server, environment, extraFile, globalFile, localFile, globalWas, globalCache, shared, hooks, told,
                   edits, fetchFaults>>

SettingsNext ==
    \/ \E h \in Hooks :
        \/ Receive(h) \/ Prepare(h) \/ PrepareAction(h) \/ PrepareComment(h)
        \/ AgentStarts(h) \/ CommandReturns(h)
    \/ EditGlobal \/ EditLocal \/ TimePasses

SettingsSpec == SettingsInit /\ [][SettingsNext]_settingsVars

-----------------------------------------------------------------------------
(* What a request may rely on. *)

Sources == {Default, Env, Artifact, From("extra", "host"), From("global", "org")}
           \cup {From("local", r) : r \in Repos} \cup {From("arg", h) : h \in Hooks}
Settings == [value : [SettingKeys -> Sources], added : Seq(Sources), auto : BOOLEAN]

\* The types of settings, hooks and caches.
SettingsTypeOK ==
    /\ server \in WebServers
    /\ {extraFile, globalFile, globalCache.file} \subseteq SettingsFile
    /\ {localFile[r] : r \in Repos} \cup {w.file : w \in globalWas} \subseteq SettingsFile
    /\ shared \in Settings
    /\ \A h \in Hooks :
        /\ hooks[h].pc \in {"idle", "received", "starting", "scheduled", "running", "done"}
        /\ hooks[h].own \in Settings
        /\ hooks[h].pc \in {"starting", "scheduled", "running"} => hooks[h].todo # <<>>
        /\ {hooks[h].files.global, hooks[h].files.local} \subseteq SettingsFile
    /\ told \subseteq Repos \X {"global", "local"}
    /\ globalCache.until \in 0 .. MaxServerTime + CacheTTL
    /\ serverTime \in 0 .. MaxServerTime /\ edits \in 0 .. MaxEdits /\ fetchFaults \in 0 .. MaxFetchFaults

\* The value a key has by the order of the layers: a comment's argument over the environment
\* over the repository's file, the organisation's, the extra one, the arguments of
\* configured commands and the default. With no file at all those arguments come first.
Says(file, k) == file.fine /\ k \in file.keys
AnyFile(files) == extraFile # NoFile \/ \E f \in {files.global, files.local} : f # NoFile /\ f.fine
InForce(p, h, k) ==
    LET argument == k \in (IF Automatic(p) THEN p.given ELSE Head(p.todo))
    IN  IF argument /\ (~Automatic(p) \/ ~AnyFile(p.files)) THEN From("arg", h)
        ELSE IF k \in environment THEN Env
        ELSE IF Says(p.files.local, k) /\ k \notin HostOnly THEN From("local", p.repo)
        ELSE IF Says(p.files.global, k) /\ k \notin HostOnly THEN From("global", "org")
        ELSE IF Says(extraFile, k) THEN From("extra", "host")
        ELSE IF argument THEN From("arg", h)
        ELSE Default

\* A hook served with a copy of the settings runs its commands under what its own
\* repository, its organisation, the host and its arguments say, whatever other hooks did
\* between its steps and however many commands it has run; its instructions hold its own
\* language, and beside it only the one that the environment set before an argument of a
\* later command replaced it; and its flag tells automatic commands
\* (config_loader.get_settings, the servers' deepcopy, apply_repo_settings).
Speaks(s, languages) == {s.value["response_language"]} \ {Default} \subseteq languages
LanguageIsKept(p, h, s) ==
    /\ Speaks(s, ToSet(s.added))
    /\ \A l \in ToSet(s.added) \ {s.value["response_language"]} :
            l = Env /\ Automatic(p) /\ s.value["response_language"] = From("arg", h)
OnlyItsOwn ==
    \A h \in Hooks : LET p == hooks[h] s == SettingsOf(h) IN
        (server \in {"gitea", "bitbucket_app", "gerrit"} /\ p.pc = "running") =>
            /\ \A k \in SettingKeys : s.value[k] = InForce(p, h, k)
            /\ LanguageIsKept(p, h, s)
            /\ s.auto <=> Automatic(p)

\* An instruction is never in the prompt twice, on any server, however many commands a
\* process has run.
InstructedOnce == \A h \in Hooks : IsInjective(SettingsOf(h).added)

\* No automatic command runs where the host or the files of its repository filter the pull
\* request out or switch automatic commands off, on the servers that look, whatever the
\* arguments of the commands say and whatever the process's settings became.
BeforeArguments(p, h, k) == InForce([p EXCEPT !.given = {}], h, k)
FiltersAreTheRepositorys ==
    \A h \in Hooks : LET p == hooks[h] IN
        (p.pc = "running" /\ Automatic(p)) =>
            /\ server = "gitea" => BeforeArguments(p, h, "ignore_pr_title") = Default
            /\ (server \in {"gitea", "bitbucket_app"} /\ p.payload.kind = "opened") =>
                  BeforeArguments(p, h, "disable_auto_feedback") = Default

\* A file that cannot be applied never fails silently: once it was read, its pull request
\* has been told.
BrokenFilesAreTold == \A h \in Hooks : hooks[h].files.read => Complaints(hooks[h].files, hooks[h].repo) \subseteq told

\* Requests do not bleed into each other: the four above.
OwnSettings == OnlyItsOwn /\ InstructedOnce /\ FiltersAreTheRepositorys /\ BrokenFilesAreTold

\* A hook that reads the organisation's file gets it as it is, or as it was less than a TTL
\* ago; nothing but a failure to read gives it another, and no failure outlives its hook
\* (git_provider.get_cached_global_settings).
GotFresh(got) ==
    \/ got = globalFile
    \/ \E w \in globalWas : got = w.file /\ serverTime < w.at + CacheTTL
FreshStep ==
    \A h \in Hooks :
        (HasGlobal /\ hooks'[h].files.read /\ ~hooks[h].files.read) =>
            \/ GotFresh(hooks'[h].files.global)
            \/ hooks'[h].files.global = NoFile /\ fetchFaults' # fetchFaults
GlobalIsFresh == [][FreshStep]_settingsVars
=============================================================================
