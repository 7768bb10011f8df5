------------------------------- MODULE MCReview -------------------------------
EXTENDS ImproveRounds, TLC

Suggest(line, label, title, rules, titleRules, patch) ==
    [line |-> line, label |-> label, title |-> title, rules |-> rules, titleRules |-> titleRules,
     patch |-> patch, valid |-> TRUE, cut |-> FALSE, done |-> FALSE]
Fix == Suggest(10, "bug", "fix", {"R"}, {}, "p")
FixAgain == Suggest(10, "bug", "fix again", {"R"}, {}, "q")
Near == Suggest(13, "style", "near", {}, {"R"}, "s")
Moved == Suggest(20, "bug", "fix", {"R"}, {}, "p")
CutBody == [Suggest(40, "style", "document", {}, {}, "t") EXCEPT !.cut = TRUE]
Stale == [Suggest(40, "bug", "stale", {}, {}, "u") EXCEPT !.done = TRUE]

MCReplies == {<<>>, <<Fix, FixAgain, Near>>, <<Moved, Stale>>, <<Near, CutBody, Moved>>}

Inlined == [publish |-> TRUE, auto |-> FALSE, gfm |-> TRUE, committable |-> TRUE, persistent |-> TRUE,
            dual |-> 0, tellEmpty |-> TRUE]
MCConfigs == {Inlined, [Inlined EXCEPT !.auto = TRUE, !.gfm = FALSE], [Inlined EXCEPT !.committable = FALSE, !.dual = 8],
              [Inlined EXCEPT !.publish = FALSE, !.auto = TRUE]}
=============================================================================
