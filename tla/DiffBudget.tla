------------------------------ MODULE DiffBudget ------------------------------
(* Which files of a merge request a model is shown (algo/pr_processing.py): the provider
   fetches and filters them, and the tool packs their patches into one prompt or several
   within the model's limit, again for each fallback model. *)
EXTENDS Integers, Sequences, FiniteSets, Functions

CONSTANTS
    FileKinds,      \* [type, lang, plain, wide, cut, old, new]: tokens of the patch as it is,
                    \* with context, without deleting hunks; ignore patterns its paths match
    FileCount,
    Languages,      \* the main ones, in the order of their size
    MaxFull,        \* from this file on only the patch is fetched
    DiffTools,      \* what asks: review, ask, describe, improve
    Limits,         \* the models' limits, in the order they are tried
    PromptSizes,
    LargePolicies,  \* "skip" or "clip"
    Soft, Hard,     \* OUTPUT_BUFFER_TOKENS_SOFT_THRESHOLD and _HARD_
    Delta,          \* room that is worth a list of names
    Wrap,           \* tokens of a file's heading
    MaxCalls,       \* max_number_of_calls of /improve
    MaxAiCalls      \* max_ai_calls of /describe

FileTypes == {"ADDED", "MODIFIED", "RENAMED", "DELETED", "UNKNOWN"}

ASSUME BudgetAssumption ==
    /\ FileKinds # {} /\ DiffTools # {} /\ LargePolicies # {}
    /\ \A k \in FileKinds : k.type \in FileTypes /\ {k.plain, k.wide, k.cut} \subseteq Nat
    /\ FileCount \in Nat /\ Languages \in Seq(Range(Languages))
    /\ Limits \in Seq(Nat) /\ Limits # <<>>
    /\ PromptSizes \subseteq Nat
    /\ {Soft, Hard, Delta, Wrap} \subseteq Nat /\ Hard + Wrap <= Soft
    /\ MaxCalls \in Nat /\ MaxCalls >= 1 /\ MaxAiCalls \in Nat /\ MaxAiCalls >= 2

VARIABLES
    changes,        \* the files of the merge request
    diffFiles,      \* those the provider kept, cached: their places in changes
    measured,       \* FilePatchInfo.tokens
    diffTool, promptTokens, policy,
    model,          \* which one is tried
    prompts,        \* the files of each prompt, [files, tokens]
    remaining,      \* files said to be left over
    named,          \* files of which only the name is given
    calls,
    step

diffVars == <<changes, diffFiles, measured, diffTool, promptTokens, policy, model, prompts, remaining, named, calls,
              step>>

DiffInit ==
    /\ changes = [i \in 1..FileCount |-> CHOOSE k \in FileKinds : TRUE]
    /\ diffFiles = {}
    /\ measured = [i \in 1..FileCount |-> -1]
    /\ diffTool = CHOOSE d \in DiffTools : TRUE
    /\ promptTokens = 0
    /\ policy = CHOOSE p \in LargePolicies : TRUE
    /\ model = 1
    /\ prompts = <<>>
    /\ remaining = <<>>
    /\ named = {}
    /\ calls = 0
    /\ step = "idle"

\* A tool is asked about a merge request; its prompt without the diff is counted.
StartTool ==
    /\ step = "idle"
    /\ changes' \in [1..FileCount -> FileKinds]
    /\ diffTool' \in DiffTools
    /\ promptTokens' \in PromptSizes
    /\ policy' \in LargePolicies
    /\ step' = "fetch"
    /\ UNCHANGED <<diffFiles, measured, model, prompts, remaining, named, calls>>

Chosen == UNCHANGED <<changes, diffTool, promptTokens, policy>>
Limit == Limits[model]

\* The elements of a set in the order of a strict total order.
InOrder(S, before(_, _)) ==
    [n \in 1..Cardinality(S) |-> CHOOSE f \in S : Cardinality({g \in S : before(g, f)}) = n - 1]

\* What a loop over a sequence has computed when it ends.
Over(Step(_, _), start, s) ==
    LET acc[i \in 0..Len(s)] == IF i = 0 THEN start ELSE Step(acc[i - 1], s[i])
    IN  acc[Len(s)]

-----------------------------------------------------------------------------
(* Fetching. *)

\* A pattern drops a file of which neither path escapes it; a file that is kept by each
\* pattern is kept.
IgnoredFile(f) == changes[f].old \cap changes[f].new # {}
Fetched == {f \in 1..FileCount : ~IgnoredFile(f)}
Kind(f) == changes[f]
Full(f) == Cardinality({g \in diffFiles : g <= f}) < MaxFull

GetDiffFiles ==
    /\ step = "fetch"
    /\ diffFiles' = IF diffFiles # {} THEN diffFiles ELSE Fetched
    /\ step' = "measure"
    /\ Chosen
    /\ UNCHANGED <<measured, model, prompts, remaining, named, calls>>

\* sort_files_by_main_languages: a language's files together, the other files last.
\* Within a language the largest first, if the sizes are asked for.
Group(f) ==
    IF Kind(f).lang \in Range(Languages) THEN CHOOSE n \in DOMAIN Languages : Languages[n] = Kind(f).lang
    ELSE Len(Languages) + 1
ByLanguage(f, g) == Group(f) < Group(g) \/ (Group(f) = Group(g) /\ f < g)
LargerFirst(f, g) ==
    \/ Group(f) < Group(g)
    \/ Group(f) = Group(g) /\ (measured[f] > measured[g] \/ (measured[f] = measured[g] /\ f < g))

-----------------------------------------------------------------------------
(* The whole diff with context, if it fits. *)

Numbers == diffTool \in {"review", "improve"}
WideTokens(f) == Wrap + (IF Full(f) THEN Kind(f).wide ELSE Kind(f).plain)
Patched == {f \in diffFiles : Kind(f).plain > 0}
AddWide(total, f) == total + WideTokens(f)
SumOf(files) == Over(AddWide, promptTokens, files)
AnyFits(total) == total < Limit + Soft
Fits(total) == total + Soft < Limit
Prompt(files, tokens) == [files |-> files, tokens |-> tokens]

MeasureDiff ==
    LET files == InOrder(Patched, ByLanguage)
    IN  /\ step = "measure"
        /\ measured' = [f \in 1..FileCount |-> IF f \in Patched THEN WideTokens(f) ELSE measured[f]]
        /\ IF Fits(SumOf(files))
           THEN /\ prompts' = IF diffTool = "improve" /\ files = <<>> THEN <<>> ELSE <<Prompt(files, SumOf(files))>>
                /\ step' = "ask"
           ELSE prompts' = <<>> /\ step' = IF diffTool = "improve" THEN "group" ELSE "prune"
        /\ remaining' = <<>>
        /\ named' = {}
        /\ Chosen
        /\ UNCHANGED <<diffFiles, model, calls>>

-----------------------------------------------------------------------------
(* pr_generate_compressed_diff, with the first prompt and, for a large merge request,
   more of them. *)

\* A deleted file has no patch left, nor has one of an unknown type without contents.
Deleted(f) == Kind(f).type = "DELETED" \/ (Kind(f).type = "UNKNOWN" /\ ~Full(f))
FileDict == InOrder({f \in Patched : ~Deleted(f)}, LargerFirst)
CutTokens(f) == Kind(f).cut + (IF Numbers THEN Wrap ELSE 0)
FinalTokens(f) == Kind(f).cut + Wrap

\* generate_full_patch: what is too large for the rest of the prompt waits for the next
\* one; once the prompt is full, files are not even that.
PackStep(acc, f) ==
    IF acc.tokens > Limit - Hard THEN acc
    ELSE IF acc.tokens + CutTokens(f) > Limit - Soft THEN [acc EXCEPT !.rest = Append(@, f)]
    ELSE IF CutTokens(f) = 0 THEN acc
    ELSE [acc EXCEPT !.files = Append(@, f), !.tokens = @ + FinalTokens(f)]
FullPatch(files) == Over(PackStep, [files |-> <<>>, rest |-> <<>>, tokens |-> promptTokens], files)

\* The iterations after the first end when nothing is left, or at the bound.
PackNext(acc, i) ==
    LET next == FullPatch(acc.rest)
    IN  IF acc.rest = <<>> THEN acc
        ELSE [rest |-> next.rest, prompts |-> IF next.files = <<>> THEN acc.prompts
                                               ELSE Append(acc.prompts, Prompt(next.files, next.tokens))]
Packed(large) ==
    LET first == FullPatch(FileDict)
        start == [rest |-> first.rest, prompts |-> <<Prompt(first.files, first.tokens)>>]
    IN  IF large THEN Over(PackNext, start, [i \in 1..(MaxAiCalls - 2) |-> i]) ELSE start

\* The names of files left out, as many as there is room for: added ones, then others.
\* Deleted ones are not among the files at all.
LeftOut(types, files) ==
    InOrder({f \in Patched : ~Deleted(f) /\ Kind(f).type \in types /\ f \notin Range(files)}, LargerFirst)
NameAll(acc, list) == [names |-> acc.names \cup Range(list), tokens |-> acc.tokens + 1 + Len(list)]
NameStep(acc, list) ==
    LET room == Limit - Hard - acc.tokens
        n == IF 1 + Len(list) <= room THEN Len(list) ELSE IF room > 1 THEN room - 1 ELSE 0
    IN  IF list = <<>> \/ n = 0 THEN acc ELSE NameAll(acc, SubSeq(list, 1, n))
NamedFiles(prompt) ==
    LET none == [names |-> {}, tokens |-> prompt.tokens]
    IN  IF Limit - Hard - prompt.tokens <= Delta THEN none
        ELSE NameStep(NameStep(none, LeftOut({"ADDED"}, prompt.files)),
                      LeftOut({"MODIFIED", "RENAMED"}, prompt.files))

PruneDiff ==
    LET packed == Packed(diffTool = "describe")
        first == packed.prompts[1]
        lists == NamedFiles(first)
    IN  /\ step = "prune"
        /\ IF Len(packed.prompts) > 1
           THEN prompts' = packed.prompts /\ named' = {}
           ELSE prompts' = <<[first EXCEPT !.tokens = lists.tokens]>> /\ named' = lists.names
        /\ remaining' = packed.rest
        /\ step' = "ask"
        /\ Chosen
        /\ UNCHANGED <<diffFiles, measured, model, calls>>

-----------------------------------------------------------------------------
(* get_pr_multi_diffs: the patches in turn, a new prompt whenever one is full. *)

Room == Limit - Soft - promptTokens
TooLarge(f) == FinalTokens(f) > Room
GroupTokens(f) ==
    IF ~TooLarge(f) THEN FinalTokens(f)
    ELSE IF policy = "clip" /\ Room > 0 THEN Room ELSE 0
Flush(acc) == [acc EXCEPT !.out = Append(@, Prompt(acc.files, acc.tokens)), !.files = <<>>, !.tokens = promptTokens]
AddFile(acc, f) == [acc EXCEPT !.files = Append(@, f), !.tokens = @ + GroupTokens(f)]
FlushAndLose(acc, f) == Flush(acc)
FlushAndAdd(acc, f) == IF Len(acc.out) + 1 = MaxCalls THEN Flush(acc) ELSE AddFile(Flush(acc), f)
GroupStep(acc, f) ==
    IF Len(acc.out) = MaxCalls \/ GroupTokens(f) = 0 THEN acc
    ELSE IF acc.tokens + GroupTokens(f) > Limit - Soft THEN FlushAndAdd(acc, f)
    ELSE AddFile(acc, f)
Grouped ==
    LET end == Over(GroupStep, [out |-> <<>>, files |-> <<>>, tokens |-> promptTokens], FileDict)
    IN  IF end.files = <<>> THEN end.out ELSE Flush(end).out

GroupDiffs ==
    /\ step = "group"
    /\ prompts' = Grouped
    /\ step' = "ask"
    /\ Chosen
    /\ UNCHANGED <<diffFiles, measured, model, remaining, named, calls>>

-----------------------------------------------------------------------------
(* The model answers, or the next one is tried. *)

\* A large merge request takes one call for its summary besides.
CallsFor == Len(prompts) + (IF diffTool = "describe" /\ Len(prompts) > 1 THEN 1 ELSE 0)
AskModel ==
    /\ step = "ask"
    /\ calls' = CallsFor
    /\ step' = "done"
    /\ Chosen
    /\ UNCHANGED <<diffFiles, measured, model, prompts, remaining, named>>
TryNextModel ==
    /\ step = "ask"
    /\ IF model < Len(Limits) THEN model' = model + 1 /\ step' = "fetch"
       ELSE model' = model /\ step' = "failed"
    /\ Chosen
    /\ UNCHANGED <<diffFiles, measured, prompts, remaining, named, calls>>

DiffNext == StartTool \/ GetDiffFiles \/ MeasureDiff \/ PruneDiff \/ GroupDiffs \/ AskModel \/ TryNextModel

DiffSpec == DiffInit /\ [][DiffNext]_diffVars

-----------------------------------------------------------------------------
(* Properties. *)

Ready == step \in {"ask", "done"}
InPrompts == UNION {Range(prompts[k].files) : k \in DOMAIN prompts}

\* Types; no more calls than the tool was given.
DiffTypeOK ==
    /\ step \in {"idle", "fetch", "measure", "prune", "group", "ask", "done", "failed"}
    /\ model \in DOMAIN Limits
    /\ InPrompts \cup named \subseteq Patched
    /\ calls <= IF diffTool = "improve" THEN MaxCalls ELSE IF diffTool = "describe" THEN MaxAiCalls ELSE 1

\* Every prompt fits the model that is asked, with room for its answer, whichever file
\* or list came last; one that is over was so before any file.
PromptFits ==
    Ready => \A k \in DOMAIN prompts :
        /\ prompts[k].tokens <= Limit - Hard \/ (prompts[k].files = <<>> /\ prompts[k].tokens = promptTokens)
        /\ diffTool = "improve" => prompts[k].tokens <= Limit - Soft

\* No patch is shown twice, in one prompt or in two, and none of /improve's is empty.
ShownOnce ==
    /\ \A k, l \in DOMAIN prompts : \A i \in DOMAIN prompts[k].files, j \in DOMAIN prompts[l].files :
        prompts[k].files[i] = prompts[l].files[j] => k = l /\ i = j
    /\ diffTool = "improve" /\ Ready => \A k \in DOMAIN prompts : prompts[k].files # <<>>

\* A patch that is in no prompt is a deleted file's or empty, or there was no room: the
\* prompt it would have gone to is too full for it, all calls are used, or it was too
\* large for any.
NothingForgotten ==
    Ready => \A f \in Patched :
        \/ f \in InPrompts
        \/ Deleted(f) \/ Kind(f).cut = 0
        \/ diffTool = "improve" /\ (Len(prompts) = MaxCalls \/ GroupTokens(f) = 0)
        \/ diffTool # "improve" /\ (\A k \in DOMAIN prompts : prompts[k].tokens + CutTokens(f) > Limit - Soft)

\* What a pruned diff leaves out is said: by its name while there is room for names, or,
\* with several prompts, as left over. Nothing says that a file was deleted.
Unsaid == {f \in Patched : f \notin InPrompts \cup named /\ ~Deleted(f) /\ Kind(f).cut > 0}
LeftOverIsSaid ==
    Ready /\ diffTool # "improve" /\ promptTokens <= Limit - Hard =>
        \A f \in Unsaid :
            IF Len(prompts) > 1 THEN f \in Range(remaining)
            ELSE Kind(f).type = "UNKNOWN" \/ prompts[1].tokens + Delta + 1 >= Limit - Hard

\* Every file of a diff is shown once, or there is a reason, and it is said.
FilesAreAccountedFor == ShownOnce /\ NothingForgotten /\ LeftOverIsSaid
=============================================================================
