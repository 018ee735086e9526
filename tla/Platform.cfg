\* Shipments and rules, and what the office keeps beside the trades.
SPECIFICATION Spec
CONSTANTS
    MaxFaults = 1
    PageLimit = 2
    MonthlyDay = 1
    Absent = Absent
INVARIANTS
    TypeOK
    ChecksAgree
    ProjectionIsComplete
    
    ReportsAgree
    FiguresAddUp
PROPERTIES
    HubRulesHold
    CargoIsFollowed
    ChecksDecide
CHECK_DEADLOCK FALSE
