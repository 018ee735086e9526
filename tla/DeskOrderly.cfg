\* One preparer and no late documents, two approvers deciding alone or in bulk.
SPECIFICATION Spec
CONSTANTS
    Trades = {t1}
    Tasks = {k1, k2}
    Figures = {good, near, off}
    Passing = {good}
    Tolerable = {near, off}
    Preparers = {p1}
    Approvers = {a1, a2}
    Matchers = {}
    MaxBatch = 2
SYMMETRY Symmetry
INVARIANTS
    TypeOK
    SubmissionIsClean
    SignedAsValidated
PROPERTIES
    DecisionIsFinal
