\* The shipped day of the monthly report: the first of the month.
SPECIFICATION OfficeSpec
CONSTANTS
    MaxFaults = 0
    PageLimit = 2
    MonthlyDay = 0
    Absent = Absent
INVARIANTS
    MonthlyCoversTheMonthThatEnded
CHECK_DEADLOCK FALSE
