------------------------------- MODULE MCDelivery -------------------------------
(***************************************************************************)
(* What must happen in the end around the trades, on instances small       *)
(* enough for a temporal check.  A behaviour runs the part chosen at the   *)
(* start, under the fairness of that part.                                 *)
(***************************************************************************)
EXTENDS MCOutward

CONSTANTS MaxFaults, SweepLimit

VARIABLES
    docs, figures, batch, frozen, packet, drafts, jobs, confirming, rows, book,
    drain, byHand, edits, buyFaults,
    ship, bill, verdict, cases, sweep, desk, day, shipChanges, shipFaults,
    clock, report, file, rule, run, reportJob, flagged,
    account, browser, notice, audit, sent, tx, postFaults, postChanges

purchaseVars == <<docs, figures, batch, frozen, packet, drafts, jobs, confirming,
                  rows, book, drain, byHand, edits, buyFaults>>
shipVars == <<ship, bill, verdict, cases, sweep, desk, day, shipChanges, shipFaults>>
reportVars == <<clock, report, file, rule, run, reportJob, flagged,
                account, browser, notice, audit, sent, tx, postFaults, postChanges>>
deliveryVars == <<purchaseVars, shipVars, reportVars>>
dvars == <<part, deliveryVars, outwardVars>>

\* One person and one replica, a trade whose figures change, and somebody who
\* deletes a line of the workbook.
Purchase == INSTANCE PurchaseBundle
    WITH Items <- {"invoice"}, Strays <- {}, DraftKinds <- 1, Numbers <- 1,
         People <- {"p1"}, Drains <- {"w1"},
         MaxFigures <- 1, MaxJobs <- 2, MaxManual <- 0, Edits <- 1,
         work <- confirming, asked <- byHand, faults <- buyFaults

\* A sweep and a person on two shipments; a carrier answers for the first.
Board == INSTANCE Shipments
    WITH Ships <- {"s1", "s2"}, Trades <- {"t1", "t2"},
         TradeOf <- [s \in {"s1", "s2"} |-> IF s = "s1" THEN "t1" ELSE "t2"],
         Tracked <- {"s1"}, Replicas <- {"r1"}, People <- {"p1"},
         Readings <- {[status |-> "unsaid", milestone |-> m, eta |-> 0] :
                          m \in {"delivered"}},
         Limit <- SweepLimit, Kinds <- {}, StaleDays <- 2, FailureLimit <- 2, Regression <- 1,
         MaxDay <- 3, MaxChanges <- 2,
         changes <- shipChanges, faults <- shipFaults

\* One replica, a daily report, and two documents that grow old.
Reports == INSTANCE Reporting
    WITH Replicas <- {"r1"}, People <- {}, Wishes <- {},
         DayLength <- 2, MonthLength <- 9, DailyAt <- 1, MonthlyAt <- 0, MonthlyDay <- 1,
         LastTick <- 37, MaxReports <- 4, FirstRules <- {},
         Documents <- {<<"document", 1, 31>>, <<"document", 2, 33>>}, RetentionDays <- 1,
         Users <- {"u1"}, Roles <- {"admin"}, Admin <- "admin", Hod <- "hod",
         FirstAccounts <- [u \in {"u1"} |-> [roles |-> {"admin"}, active |-> TRUE, mail |-> FALSE]],
         job <- reportJob, faults <- postFaults, changes <- postChanges

ASSUME DeliveryConstants == Reports!ReportAssumption

PurchaseStep(A) == part = "purchase" /\ A /\ UNCHANGED <<part, shipVars, reportVars, outwardVars>>
ShipStep(A) == part = "shipments" /\ A /\ UNCHANGED <<part, purchaseVars, reportVars, outwardVars>>

ReportStep(A) == part = "reports" /\ A /\ UNCHANGED <<part, purchaseVars, shipVars, outwardVars>>

DeliveryInit == Purchase!Init /\ Board!Init /\ Reports!Init /\ OutwardInit

DeliveryNext ==
    \/ PurchaseStep(Purchase!Next)
    \/ ShipStep(Board!Next)
    \/ ReportStep(Reports!Next)
    \/ OutwardNext /\ UNCHANGED deliveryVars

\* Workers, sweeps and jobs go on when they can; the Loading Sheet gets its
\* lock in the end.
DeliveryFairness ==
    /\ WF_dvars(PurchaseStep(Purchase!Handle("p1")))
    /\ \A i \in 1..2 : WF_dvars(PurchaseStep(i \in DOMAIN jobs /\ Purchase!Generate(i)))
    /\ SF_dvars(PurchaseStep(Purchase!Drain("w1")))
    /\ WF_dvars(ShipStep(Board!Sweep("r1"))) /\ WF_dvars(ShipStep(Board!Serve("p1")))
    /\ OutwardFairness
    /\ WF_dvars(ReportStep(Reports!Work("r1"))) /\ WF_dvars(ReportStep(Reports!Retain("r1")))

-----------------------------------------------------------------------------
\* The generation of a draft ends with its job settled, unless a restart
\* stops it.
GenerationSettles == part = "purchase" => Purchase!GenerationSettles

\* A row of the Loading Sheet reaches the workbook in the end.
RowIsWritten == part = "purchase" => Purchase!RowIsWritten

\* A silent shipment comes to the desk, or is found, or finished.
SilenceIsReported == part = "shipments" => Board!SilenceIsReported

\* The report of the last day that has come due is made.
LastReportIsMade == part = "reports" => Reports!LastReportIsMade

\* What is older than the retention period is put on the audit trail.
AgedIsFlagged == part = "reports" => Reports!AgedIsFlagged

-----------------------------------------------------------------------------
\* What is owed around a trade is done: drafts, rows, reminders, reports, flags.
DeliverySettles ==
    /\ GenerationSettles /\ RowIsWritten
    /\ SilenceIsReported
    /\ LastReportIsMade /\ AgedIsFlagged
=============================================================================
