SPECIFICATION Spec
CONSTANTS
    a = a  b = b  c = c  w1 = w1  w2 = w2  t = t  NoJob = NoJob
    Instances = {w1, w2}
    Jobs = {a, b}
    Targets = {t}
    CharJobs = {}
    Inst <- InstTwo
    Asset <- AssetOf
    Target <- TargetOne
    HangWarn = 1
    HangKill = 1
    MaxLines = 0
    LockMayFail = FALSE
    LongExports = FALSE
CHECK_DEADLOCK FALSE
INVARIANT OneWriter
