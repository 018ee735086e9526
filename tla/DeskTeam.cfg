\* Two preparers, one of whom may approve, another approver, and documents that are matched to their one trade.
SPECIFICATION Spec
CONSTANTS
    Trades = {t1}
    Tasks = {k1, k2}
    Figures = {good}
    Passing = {good}
    Tolerable = {}
    Preparers = {p1, p2}
    Approvers = {p2, a1}
    Matchers = {m1}
    MaxBatch = 1
SYMMETRY Symmetry
INVARIANTS
    OneOpenTask
    AwaitingHasTask

    
