\* One session on one trade whose amount and rate fail under one category.
SPECIFICATION Spec
CONSTANTS
    t1 = t1
    i1 = i1
    s1 = s1
    Amount = "invoice_amount"
    Pack = "missing_document"
    Trades = {t1}
    Rules = {1, 2, 3}
    CategoryOf <- SharedCategory
    Coverage = 3
    Runs <- AmountRuns
    Reports = {}
    Cases = {i1}
    Sessions = {s1}
    MaxRounds = 0
INVARIANT FailureHasCase
