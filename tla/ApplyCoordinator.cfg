CONSTANTS
    Projects = {p1}
    Iids = {m1, m2}
    Shas = {s1, s2, s3}
    Hooks = {push, update}
    Tasks = {t1, t2}
    NoJob = NoJob
    NoClaim = NoClaim
    ClaimTTL = 1
    MaxTime = 2
SPECIFICATION Spec
INVARIANTS TypeOK OneDrainerPerMR RunningIsDrained PendingHasDrainer NewestIsKept OncePerTTL
PROPERTIES PendingIsServed
