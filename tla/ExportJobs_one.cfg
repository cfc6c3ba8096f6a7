SPECIFICATION FairSpec
CONSTANTS
    a = a  b = b  c = c  w1 = w1  w2 = w2  t = t  NoJob = NoJob
    Instances = {w1}
    Jobs = {a, c}
    Targets = {t}
    CharJobs = {c}
    Inst <- InstOne
    Asset <- AssetOf
    Target <- TargetOne
    HangWarn = 1
    HangKill = 2
    MaxLines = 2
    LockMayFail = FALSE
    LongExports = FALSE
CHECK_DEADLOCK FALSE
INVARIANTS TypeOK OneWriter
PROPERTIES OnlySilentKilled ServiceImplemented LaunchedEnds
