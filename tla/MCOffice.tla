------------------------------- MODULE MCOffice -------------------------------
(***************************************************************************)
(* Small instances of what the office keeps beside the trades: the graph,  *)
(* the notices and the reports.  A behaviour runs the part chosen at the   *)
(* start, so that the state spaces add up instead of multiplying.          *)
(***************************************************************************)
EXTENDS Integers, FiniteSets, TLC

CONSTANTS
    MaxFaults,
    PageLimit,      \* GRAPH_SYNC_BATCH_SIZE of the part with a rebuild
    MonthlyDay,     \* REPORT_MONTHLY_DAY, counted from 0
    Absent          \* no value

VARIABLES
    part,
    stored, open, graphClock, node, edge, pass, mishaps,
    clock, report, file, rule, run, job, flagged,
    account, browser, notice, audit, sent, tx, postFaults, postChanges,
    moment, book, cache, asking, shown, screenChanges

graphVars == <<stored, open, graphClock, node, edge, pass, mishaps>>
reportVars == <<clock, report, file, rule, run, job, flagged>>
noticeVars == <<account, browser, notice, audit, sent, tx, postFaults, postChanges>>
screenVars == <<moment, book, cache, asking, shown, screenChanges>>
officeVars == <<graphVars, reportVars, noticeVars, screenVars>>

-----------------------------------------------------------------------------
GraphRow(table, id) == [table |-> table, id |-> id]
Version(row, says, leg, on) == [row |-> row, says |-> says, leg |-> leg, on |-> on]
Stamped(v, stamp) == [row |-> v.row, says |-> v.says, leg |-> v.leg, on |-> v.on, stamp |-> stamp]
T1 == GraphRow("trade", "t1")
D1 == GraphRow("document", "d1")
C1 == GraphRow("case", "c1")

\* Two replicas, and a session that changes a trade, its document and a case.
Graph == INSTANCE GraphProjection
    WITH Tables <- <<"trade", "document", "case">>, StampedOnce <- {"document"},
         Rows <- {T1, D1, C1}, Names <- {"n1", "n2"},
         Versions <- {Version(T1, "n2", "none", "none"), Version(T1, "n1", "n1", "none"),
                      Version(D1, "n1", "none", "t1"), Version(C1, "n1", "none", "t1")},
         First <- {Stamped(Version(T1, "n1", "none", "none"), 1), Stamped(Version(D1, "n1", "none", "none"), 2)},
         Sessions <- {"p1"}, Replicas <- {"r1", "r2"}, Scripts <- {},
         Limit <- 2, MaxWrites <- 4, clock <- graphClock

\* A rebuild over a graph that a worker has filled, of two trades and a case.
Rebuild == INSTANCE GraphProjection
    WITH Tables <- <<"trade", "case">>, StampedOnce <- {},
         Rows <- {T1, GraphRow("trade", "t2"), C1}, Names <- {"n1", "n2"},
         Versions <- {Version(T1, "n1", "n2", "none"), Version(C1, "n1", "none", "t1")},
         First <- {Stamped(Version(T1, "n1", "n1", "none"), 1),
                   Stamped(Version(GraphRow("trade", "t2"), "n1", "n1", "none"), 2)},
         Sessions <- {"p1"}, Replicas <- {"r1"}, Scripts <- {"x1"},
         Limit <- PageLimit, MaxWrites <- 4, clock <- graphClock

-----------------------------------------------------------------------------
Account(roles, mail) == [roles |-> roles, active |-> TRUE, mail |-> mail]
TwoAccounts == ("u1" :> Account({"desk"}, TRUE)) @@ ("u2" :> Account({"desk", "admin"}, FALSE))

\* Two sessions tell two people, one of whom has a browser: of a decision that
\* leaves a posting to a person, and of an escalation.
Event(kinds, role, by, submitter) ==
    [kinds |-> kinds, role |-> role, by |-> by, assignee |-> "none", submitter |-> submitter]
Decision == Event({"approval.decided", "integration.attention"}, "admin", "u2", "u1")
Escalation == Event({"exception.escalated"}, "desk", "none", "none")

Telling == INSTANCE Notices
    WITH Users <- {"u1", "u2"}, Roles <- {"desk", "admin"}, FirstAccounts <- TwoAccounts,
         Browsers <- {"b1"}, Sessions <- {"s1", "s2"}, Events <- {Decision, Escalation},
         Admin <- "admin", Hod <- "hod", MaxChanges <- 2,
         faults <- postFaults, changes <- postChanges

\* One replica over the end of a month of two days, each of two ticks, a clerk
\* who asks for reports, and a rule that can be switched off.
Reports == INSTANCE Reporting
    WITH Replicas <- {"r1"}, People <- {"clerk"},
         Wishes <- {[type |-> "daily", period |-> <<6, 8>>]},
         DayLength <- 2, MonthLength <- 2, DailyAt <- 1, MonthlyAt <- 0,
         LastTick <- 10, MaxReports <- 3,
         FirstRules <- {[name |-> "desk", type |-> "daily", roles |-> {"desk"}, users |-> {"u2"},
                         mail |-> FALSE, active |-> TRUE]},
         Documents <- {}, RetentionDays <- 9, SweepLimit <- 1,
         Users <- {"u1", "u2"}, Roles <- {"desk", "admin"}, FirstAccounts <- TwoAccounts,
         Admin <- "admin", Hod <- "hod", faults <- postFaults, changes <- postChanges

-----------------------------------------------------------------------------
Asked(screen, stream, from, to) == [screen |-> screen, stream |-> stream, from |-> from, to |-> to]

\* A deal of each stream, their approvals, and three cases, one of no trade.
DealBook(decision) ==
    [status   |-> ("t1" :> "approval_pending") @@ ("t2" :> "approved"),
     opened   |-> <<Absent, -3, -1>>, resolved |-> {}, overridden |-> {},
     decided  |-> ("k1" :> [decision |-> decision, at |-> -1])
                  @@ ("k2" :> [decision |-> "approved", at |-> -1]),
     posting  |-> ("t1" :> "absent") @@ ("t2" :> "failed"),
     checked  |-> ("t1" :> Absent) @@ ("t2" :> -2)]

Alike == [a \in {"desk", "logistics", "admin"} |-> {a}]
EveryStream == [r \in {"desk", "logistics", "admin"} |-> {"scrap", "fa"}]
Desks == [c \in {"amount", "cargo"} |-> IF c = "amount" THEN {"desk"} ELSE {"logistics"}]
CasesOfDeals == <<[on |-> "t1", category |-> "amount"], [on |-> "t2", category |-> "cargo"],
                  [on |-> Absent, category |-> "amount"]>>
\* Two desks before the dashboard.
Screens == INSTANCE KpiFigures
    WITH Accounts <- {"desk", "logistics"}, RolesOf <- Alike, Asks <- {Asked("summary", "both", Absent, Absent)},
         Schedule <- "schedule", Streams <- {"scrap", "fa"}, StreamsOfRole <- EveryStream,
         Categories <- {"amount", "cargo"}, Oversight <- {"admin"}, DesksOf <- Desks,
         Trades <- {"t1", "t2"}, StreamOf <- ("t1" :> "scrap") @@ ("t2" :> "fa"),
         RequestedAt <- ("t1" :> -3) @@ ("t2" :> -1), Cases <- 1..3, CaseOf <- CasesOfDeals,
         Tasks <- {"k1", "k2"}, TaskOf <- ("k1" :> "t1") @@ ("k2" :> "t2"),
         Fields <- {}, FieldOf <- ("f1" :> [stream |-> Absent, at |-> -1]),
         Bucket <- 2, DefaultDays <- 3, MaxRange <- 4, StaleAfter <- 2, DetailLimit <- 1,
         Young <- 1, Old <- 3, Ttl <- 2, MaxEntries <- 2,
         FirstBook <- DealBook("rejected"), LastMoment <- 1, MaxChanges <- 1,
         now <- moment, changes <- screenChanges

\* An administrator with the trends and a report.
Trends == INSTANCE KpiFigures
    WITH Accounts <- {"admin"}, RolesOf <- Alike, Asks <- {Asked("trends", "both", -3, 2),
                  Asked("report", "both", -2, 1)},
         Schedule <- "schedule", Streams <- {"scrap", "fa"}, StreamsOfRole <- EveryStream,
         Categories <- {"amount", "cargo"}, Oversight <- {"admin"}, DesksOf <- Desks,
         Trades <- {"t1", "t2"}, StreamOf <- ("t1" :> "scrap") @@ ("t2" :> "fa"),
         RequestedAt <- ("t1" :> -3) @@ ("t2" :> -1), Cases <- 1..3, CaseOf <- CasesOfDeals,
         Tasks <- {"k1", "k2"}, TaskOf <- ("k1" :> "t1") @@ ("k2" :> "t2"),
         Fields <- {"f1"}, FieldOf <- ("f1" :> [stream |-> Absent, at |-> -1]),
         Bucket <- 2, DefaultDays <- 3, MaxRange <- 4, StaleAfter <- 2, DetailLimit <- 1,
         Young <- 1, Old <- 3, Ttl <- 2, MaxEntries <- 2,
         FirstBook <- DealBook("pending"), LastMoment <- 2, MaxChanges <- 1,
         now <- moment, changes <- screenChanges

ASSUME OfficeConstants ==
    /\ Graph!GraphAssumption /\ Rebuild!GraphAssumption
    /\ Graph!PagesHold /\ Rebuild!PagesHold
    /\ Telling!NoticeAssumption /\ Telling!EventAssumption
    /\ Reports!ReportAssumption /\ Reports!OneReplica
    /\ Screens!KpiConstants /\ Trends!KpiConstants

-----------------------------------------------------------------------------
NoScreens == moment = 0 /\ book = 0 /\ cache = 0 /\ asking = 0 /\ shown = 0 /\ screenChanges = 0
NoGraph == /\ stored = 0 /\ open = 0 /\ graphClock = 0 /\ node = 0 /\ edge = 0 /\ pass = 0
           /\ mishaps = 0
NoReports == clock = 0 /\ report = 0 /\ file = 0 /\ rule = 0 /\ run = 0 /\ job = 0 /\ flagged = 0
NoNotices == /\ account = 0 /\ browser = 0 /\ notice = 0 /\ audit = 0 /\ sent = 0 /\ tx = 0
             /\ postFaults = 0 /\ postChanges = 0

NoOffice == NoGraph /\ NoReports /\ NoNotices /\ NoScreens

OfficeInit ==
    \/ part = "graph" /\ Graph!Init /\ NoReports /\ NoNotices /\ NoScreens
    \/ part = "rebuild" /\ Rebuild!Init /\ NoReports /\ NoNotices /\ NoScreens
    \/ part = "notices" /\ Telling!Init /\ NoGraph /\ NoReports /\ NoScreens
    \/ part = "reports" /\ Reports!Init /\ NoGraph /\ NoScreens
    \/ /\ \/ part = "screens" /\ Screens!Init
          \/ part = "trends" /\ Trends!Init
       /\ NoGraph /\ NoReports /\ NoNotices

OfficeNext ==
    \/ part = "graph" /\ Graph!Next /\ UNCHANGED <<reportVars, noticeVars, screenVars>>
    \/ part = "rebuild" /\ Rebuild!Next /\ UNCHANGED <<reportVars, noticeVars, screenVars>>
    \/ part = "notices" /\ Telling!Next /\ UNCHANGED <<graphVars, reportVars, screenVars>>
    \/ part = "reports" /\ Reports!Next /\ UNCHANGED <<graphVars, screenVars>>
    \/ /\ \/ part = "screens" /\ Screens!Next
          \/ part = "trends" /\ Trends!Next
       /\ UNCHANGED <<graphVars, reportVars, noticeVars>>

OfficeSpec == OfficeInit /\ [][OfficeNext /\ UNCHANGED part]_<<part, officeVars>>

-----------------------------------------------------------------------------
\* Rows, graph, notices and reports have their types.
OfficeTypeOK ==
    CASE part = "graph" -> Graph!TypeOK
      [] part = "rebuild" -> Rebuild!TypeOK
      [] part = "notices" -> Telling!TypeOK
      [] part = "reports" -> Reports!TypeOK
      [] part = "screens" -> Screens!TypeOK
      [] part = "trends" -> Trends!TypeOK
      [] OTHER -> TRUE

\* A worker that has just started catches up with a store that stands still.
FirstPassIsComplete ==
    /\ part = "graph" => Graph!FirstPassIsComplete
    /\ part = "rebuild" => Rebuild!FirstPassIsComplete

\* A rebuild of a store that stands still is that store's projection.
RebuildIsExact == part = "rebuild" => Rebuild!RebuildIsExact

\* notification_service.py: delivery cannot harm the event it describes.  Not so
\* when a browser unsubscribes meanwhile.
DeliveryHarmsNothing == part = "notices" => Telling!DeliveryHarmsNothing

\* A scheduled report and its notice are there together or not at all.
ReportAndNoticeAgree == part = "reports" => Reports!ReportAndNoticeAgree

\* A job that is done has its report, one that failed has none.
JobSaysWhatHappened == part = "reports" => Reports!JobSaysWhatHappened

\* One replica makes one scheduled report of a period.
OneReportPerPeriod == part = "reports" => Reports!OneReportPerPeriod

\* A scheduled report covers a period that is over.
PeriodIsOver == part = "reports" => Reports!PeriodIsOver

\* config.py: the monthly report covers the month that has just ended.
MonthlyCoversTheMonthThatEnded == part = "reports" => Reports!MonthlyCoversTheMonthThatEnded

\* What an account is shown was counted under its own roles.
ShownIsOnesOwn ==
    /\ part = "screens" => Screens!ShownIsOnesOwn
    /\ part = "trends" => Trends!ShownIsOnesOwn

\* An approval is in one bucket of the series it is counted in.
EveryApprovalIsCounted ==
    /\ part = "screens" => Screens!EveryApprovalIsCounted
    /\ part = "trends" => Trends!EveryApprovalIsCounted

\* Nothing is served from the cache once its time is up.
NotPastItsTime ==
    /\ part = "screens" => Screens!NotPastItsTime
    /\ part = "trends" => Trends!NotPastItsTime

\* Streams and ages add up to what an account may see.
PartsMakeTheWhole == part = "trends" => Trends!PartsMakeTheWhole

-----------------------------------------------------------------------------
\* A store that stands still is projected whole, by the first pass of a worker
\* and by a rebuild.
ProjectionIsComplete == FirstPassIsComplete /\ RebuildIsExact

\* What a notice says was sent was sent, and what was not is on the audit trail.
DeliveryIsOnRecord == part \in {"notices", "reports"} => Telling!DeliveryIsOnRecord

\* Report, notice and job are there together, once for each period that is over.
ReportsAgree ==
    /\ ReportAndNoticeAgree /\ JobSaysWhatHappened
    /\ OneReportPerPeriod /\ PeriodIsOver /\ MonthlyCoversTheMonthThatEnded

\* What a person is shown was counted for that person, in time, and adds up.
FiguresAddUp == ShownIsOnesOwn /\ EveryApprovalIsCounted /\ NotPastItsTime /\ PartsMakeTheWhole
=============================================================================
