\* A document is matched to a trade that waits for approval.
SPECIFICATION Spec
CONSTANTS
    Trades = {t1}
    Tasks = {k1, k2}
    Figures = {good, bad}
    Passing = {good}
    Tolerable = {}
    Preparers = {p1}
    Approvers = {a1}
    Matchers = {m1}
    MaxBatch = 1
INVARIANTS
    SignedAsValidated
