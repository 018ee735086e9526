\* Small instances of every module with a liveness property.
SPECIFICATION Spec
CONSTANTS
    MaxFaults = 1
    SweepLimit = 2
    MaxVisits = 1
    LastMessage = 1
    MaxSlips = 1
PROPERTIES
    PostingsSettle
    IntakeSettles
    DeliverySettles
    OutsideCatchesUp
CHECK_DEADLOCK FALSE
