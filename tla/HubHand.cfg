\* Two replicas and an administrator on one job that may be handed to a person, with a crash and a reopened trade.
SPECIFICATION Spec
CONSTANTS
    Txns = {t1}
    Targets = {dms}
    Configured = {dms}
    MayDefer = {dms}
    Sweepers = {w1, w2}
    Approvers = {a1}
    Admins = {d1}
    MaxAttempts = 2
    BatchSize = 2
    MaxRollbacks = 1
    MaxReopens = 1
SYMMETRY Symmetry
INVARIANTS
    TypeOK
    SucceededIsEvidenced
    CommittedIsEvidenced
    AttemptCeiling
PROPERTIES
    KeepsPromise
    HandMarkIsPermanent
CHECK_DEADLOCK FALSE
