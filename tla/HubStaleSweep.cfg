\* Two replicas sweep the same queue.
SPECIFICATION Spec
CONSTANTS
    Txns = {t1}
    Targets = {sap}
    Configured = {sap}
    MayDefer = {}
    Sweepers = {w1, w2}
    Approvers = {a1}
    Admins = {}
    MaxAttempts = 2
    BatchSize = 2
    MaxRollbacks = 0
    MaxReopens = 0
INVARIANTS
    CommittedMeansResolved
CHECK_DEADLOCK FALSE
