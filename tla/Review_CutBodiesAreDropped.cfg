CONSTANTS
    ImproveTasks = {r1, r2}
    Replies <- MCReplies
    Scores = {6, 9}
    ImproveConfigs <- MCConfigs
    MaxModels = 2
    MaxReviewerSteps = 1
    MaxCallFaults = 1
SPECIFICATION ImproveSpec
INVARIANT CutBodiesAreDropped
CHECK_DEADLOCK FALSE
