\* The sweep and an administrator each resolve one of the last two jobs.
SPECIFICATION Spec
CONSTANTS
    Txns = {t1}
    Targets = {sap, dms}
    Configured = {sap}
    MayDefer = {}
    Sweepers = {w1}
    Approvers = {a1}
    Admins = {d1}
    MaxAttempts = 2
    BatchSize = 2
    MaxRollbacks = 0
    MaxReopens = 0
INVARIANTS
    AllResolvedIsCommitted
CHECK_DEADLOCK FALSE
