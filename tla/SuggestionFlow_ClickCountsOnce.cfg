CONSTANTS
    a = a
    b = b
    c = c
    p = p
    q = q
    Suggestions <- Twins
    Patches <- OnePatch
    Patch <- PatchOfTwins
    Original = "original"
    Suggested = "suggested"
    Versions = {"original", "suggested"}
    MaxUserSteps = 1
SPECIFICATION Spec
INVARIANT ClickCountsOnce
CHECK_DEADLOCK FALSE
