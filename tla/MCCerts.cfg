CONSTANTS
    Procs = {p1, p2}
    Tables = {t1, t2, t3}
    Ctxs = {c1, c2, c3}
    Default = default
    other = other
    unknown = unknown
    Hosts <- MCHosts
    Names <- MCNames
    Wild <- MCWild
    NoTable = NoTable
    NoCtx = NoCtx
    NoProc = NoProc
    NoHost = NoHost
SPECIFICATION FairSpec
INVARIANTS RefsCountOwners TableLifetime ContextsCounted
PROPERTIES ReloadKeepsHosts ReloadReturns
