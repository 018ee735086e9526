\* Two sessions on one trade whose checks fail alone, together, or under no category.
SPECIFICATION Spec
CONSTANTS
    t1 = t1
    i1 = i1
    i2 = i2
    s1 = s1
    s2 = s2
    Amount = "invoice_amount"
    Pack = "missing_document"
    Trades = {t1}
    Rules = {1, 2, 3}
    CategoryOf <- OwnCategory
    Coverage = 2
    Runs <- SomeRuns
    Reports = {"integration_failure"}
    Cases = {i1, i2}
    Sessions = {s1, s2}
    MaxRounds = 2
SYMMETRY Symmetry
INVARIANTS TypeOK OneCasePerCategory NoteAloneClosesNothing NoAgeingCaseClosedEarly
