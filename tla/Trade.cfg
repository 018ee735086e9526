\* From a message to a trade with its legs, and what is asked of the mailbox and
\* of the identity provider.
SPECIFICATION Spec
CONSTANTS
    MaxTrades = 2
    MaxFaults = 1
    MaxVisits = 3
    LastMessage = 2
    MaxChanges = 2
    MaxSlips = 1
INVARIANTS
    TypeOK
    RepliesAreHonest
    AccessIsTheProviders
    NumberedOnce
    NothingIsLeftBehind
    
    CoverageIsShown
PROPERTIES
    ReadingIsFaithful
    FirstStatementStands
    PurchaseWritesOnce
CHECK_DEADLOCK FALSE
