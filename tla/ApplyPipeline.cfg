CONSTANTS
    Projects = {p1}
    Iids = {m1, m2}
    Shas = {s1, s2}
    Tasks = {t1, t2, t3}
    NoJob = NoJob
    NoClaim = NoClaim
    NoIid = NoIid
    NoTask = NoTask
    NoRun = NoRun
    ClaimTTL = 1
    MaxTime = 2
    Cooldown = 1
    CommandCounts = {1}
SPECIFICATION Spec
INVARIANTS TypeOK SlotExclusion CooldownKept 
SYMMETRY Symmetry
