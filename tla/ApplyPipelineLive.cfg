CONSTANTS
    Projects = {p1}
    Iids = {m1}
    Shas = {s1, s2}
    Tasks = {t1, t2}
    NoJob = NoJob
    NoClaim = NoClaim
    NoIid = NoIid
    NoTask = NoTask
    NoRun = NoRun
    ClaimTTL = 0
    MaxTime = 1
    Cooldown = 1
    CommandCounts = {0, 1}
SPECIFICATION Spec
PROPERTIES ImplementsCoordinator HandlersReturn
