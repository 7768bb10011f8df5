CONSTANTS
    a = a
    b = b
    c = c
    p = p
    q = q
    Suggestions <- Twins
    Patches <- OnePatch
    Patch <- PatchOfTwins
    Original = "original"
    Suggested = "suggested"
    Versions = {"original", "suggested"}
    MaxUserSteps = 3
SPECIFICATION Spec
INVARIANTS TypeOK AdoptionHasEvidence ReportedAdoptionWasMade RetiredThreadsWereResolved
CHECK_DEADLOCK FALSE
