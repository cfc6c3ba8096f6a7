SPECIFICATION Spec
CONSTANTS
    a = a  b = b  c = c  w1 = w1  w2 = w2  t = t  NoJob = NoJob
    Instances = {w1}
    Jobs = {a, b, c}
    Targets = {t}
    CharJobs = {c}
    Inst <- InstOne
    Asset <- AssetOf
    Target <- TargetOne
    HangWarn = 1
    HangKill = 1
    MaxLines = 0
    LockMayFail = TRUE
    LongExports = TRUE
CHECK_DEADLOCK FALSE
INVARIANTS NoDuplicateActive PollerRuns
