SPECIFICATION Spec
CONSTANTS
    Entries <- Said
    Languages = {"", "en_gb.UTF-8"}
    MaxEntries = 1
    Limits = {99, 151, 4000}
    Homes = {4096}
    Versions = {228, 246}
    Callers = {c1, c2}
    Requests = {r1, r2}
    MaxSends = 4
    MaxConnects = 2
    Elements = {"e1", "e2"}
    MaxPattern = 2
    MaxBlinks = 1
    MaxPanelCalls = 3
INVARIANT
    QuotaIsEstimated
CHECK_DEADLOCK FALSE
