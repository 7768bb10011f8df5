CONSTANTS
    a = a
    b = b
    c = c
    p = p
    q = q
    Suggestions <- Pair
    Patches <- AllPatches
    Patch <- PatchOfPair
    Original = "original"
    Suggested = "suggested"
    Versions = {"original", "suggested"}
    MaxUserSteps = 3
SPECIFICATION Spec
PROPERTIES ImplementsLifecycle
CHECK_DEADLOCK FALSE
