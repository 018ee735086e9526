------------------------------- MODULE MCPlatform -------------------------------
(***************************************************************************)
(* Small instances of what runs around the trades, side by side: a         *)
(* behaviour runs the part chosen at the start.                            *)
(***************************************************************************)
EXTENDS MCOffice

VARIABLES
    ship, bill, verdict, cases, sweep, desk, day, shipChanges, shipFaults,
    trade, paper, row, result, accepted, today, ruleEdits,
    txn, hubJob, due, posts, hubPc, todo, cur, view, wrote, txWrite, seen,
    outcome, rollbacks, reopens

shipVars == <<ship, bill, verdict, cases, sweep, desk, day, shipChanges, shipFaults>>
ruleVars == <<trade, paper, row, result, accepted, today, ruleEdits>>
hubVars == <<txn, hubJob, due, posts, hubPc, todo, cur, view, wrote, txWrite,
             seen, outcome, rollbacks, reopens>>
vars == <<part, shipVars, ruleVars, hubVars, officeVars>>

Saying(status, milestone, eta) == [status |-> status, milestone |-> milestone, eta |-> eta]

\* A sweep and a person on two shipments of one trade; a carrier answers for
\* the first of them.
Board == INSTANCE Shipments
    WITH Ships <- {"s1", "s2"}, Trades <- {"t1"}, TradeOf <- [s \in {"s1", "s2"} |-> "t1"],
         Tracked <- {"s1"}, Replicas <- {"r1"}, People <- {"p1"},
         Readings <- {Saying("unsaid", "in_transit", 0), Saying("arrived", "unsaid", 0)},
         Limit <- 2, Kinds <- {}, StaleDays <- 2, FailureLimit <- 2, Regression <- 1,
         MaxDay <- 3, MaxChanges <- 3,
         changes <- shipChanges, faults <- shipFaults

\* A carrier and nobody at the desk.
Carrier == INSTANCE Shipments
    WITH Ships <- {"s1", "s2"}, Trades <- {"t1"}, TradeOf <- [s \in {"s1", "s2"} |-> "t1"],
         Tracked <- {"s1", "s2"}, Replicas <- {"r1"}, People <- {},
         Readings <- {Saying("unsaid", "in_transit", 3), Saying("delayed", "discharged", 1),
                      Saying("unsaid", "delivered", 0)},
         Limit <- 1, Kinds <- {}, StaleDays <- 2, FailureLimit <- 2, Regression <- 1,
         MaxDay <- 2, MaxChanges <- 2,
         changes <- shipChanges, faults <- shipFaults

\* One person, two shipments of a trade and their bills of lading.
Counter == INSTANCE Shipments
    WITH Ships <- {"s1", "s2"}, Trades <- {"t1"}, TradeOf <- [s \in {"s1", "s2"} |-> "t1"],
         Tracked <- {"s1"}, Replicas <- {}, People <- {"p1"},
         Readings <- {Saying("unsaid", "in_transit", 3), Saying("unsaid", "discharged", 1)},
         Limit <- 2, Kinds <- {"draft", "expected", "received"},
         StaleDays <- 2, FailureLimit <- 1, Regression <- 1,
         MaxDay <- 2, MaxChanges <- 4,
         changes <- shipChanges, faults <- shipFaults

ASSUME ShipAssumption == Board!ShipConstants /\ Carrier!ShipConstants /\ Counter!ShipConstants

-----------------------------------------------------------------------------
\* A trade with nothing but a purchase leg, and a document with nothing to say.
BareTrade ==
    [stream |-> "scrap", commodity |-> "CU", legs |-> {"purchase"}, references |-> {"batch"},
     amount |-> -1, rate |-> -1, quantity |-> 1500, percent |-> -1, linked |-> FALSE,
     india |-> FALSE, boxes |-> {}]
BarePaper ==
    [on |-> "t1", type |-> "unknown", kinds |-> {}, named |-> {}, content |-> "a",
     generated |-> FALSE, sales |-> FALSE, quantity |-> -1, rate |-> -1, amount |-> -1,
     percent |-> -1, dated |-> -1, boxes |-> {}]
Row(check, value) ==
    [check |-> check, value |-> value, commodity |-> "any", type |-> "any", stream |-> "any",
     active |-> TRUE]
Edit(of, field, values) == [of : of, field : {field}, value : values]

\* An invoice against a contract, and the thresholds of its stream beside the
\* platform's own.
FigureRows ==
    <<Row("amount", 1), Row("ceiling", 4), Row("variation", 142857), Row("quantity", 50000),
      Row("rate", 0), [Row("amount", 2) EXCEPT !.stream = "fa"],
      [Row("ceiling", 2) EXCEPT !.type = "purchase"], Row("references", 1)>>
Figures == INSTANCE RuleChecks
    WITH Trades <- {"t1"}, Papers <- 1..2, Rows <- 1..8,
         FirstTrade <- [t \in {"t1"} |-> [BareTrade EXCEPT !.rate = 3]],
         FirstPaper <- <<[BarePaper EXCEPT !.type = "contract", !.quantity = 1400, !.rate = 3],
                         [BarePaper EXCEPT !.type = "invoice", !.quantity = 1200, !.rate = 3,
                                           !.amount = 7]>>,
         FirstRow <- FigureRows,
         TradeEdits <- Edit({"t1"}, "legs", {{"purchase"}, {"purchase", "sales"}})
                        \cup Edit({"t1"}, "stream", {"scrap", "fa"}),
         PaperEdits <- Edit({2}, "amount", {-1, 2, 7, 10}) \cup Edit({2}, "quantity", {0, 1230}),
         RowEdits <- Edit({1, 6}, "value", {0, 3}) \cup Edit({7}, "active", BOOLEAN),
         Checklist <- {}, FirstDay <- 1, LastDay <- 1, MaxEdits <- 3,
         day <- today, edits <- ruleEdits

\* An invoice that ages from the end of March into April.
Window == INSTANCE RuleChecks
    WITH Trades <- {"t1"}, Papers <- 1..1, Rows <- 1..2,
         FirstTrade <- [t \in {"t1"} |-> BareTrade],
         FirstPaper <- <<[BarePaper EXCEPT !.type = "invoice", !.dated = 61]>>,
         FirstRow <- <<Row("dating", 1), [Row("dating", 2) EXCEPT !.commodity = "CU", !.active = FALSE]>>,
         TradeEdits <- Edit({"t1"}, "india", BOOLEAN),
         PaperEdits <- Edit({1}, "dated", {-2, -1, 60, 92}),
         RowEdits <- Edit({1, 2}, "active", BOOLEAN),
         Checklist <- {}, FirstDay <- 89, LastDay <- 91, MaxEdits <- 2,
         day <- today, edits <- ruleEdits

\* Two trades and the containers and bills of lading that may belong to either.
Cargo == INSTANCE RuleChecks
    WITH Trades <- {"t1", "t2"}, Papers <- 1..3, Rows <- 1..3,
         FirstTrade <- [t \in {"t1", "t2"} |-> BareTrade],
         FirstPaper <- <<[BarePaper EXCEPT !.type = "invoice", !.quantity = 1000],
                         [BarePaper EXCEPT !.type = "bl", !.quantity = 1000, !.boxes = {"b"}],
                         [BarePaper EXCEPT !.type = "bl_draft", !.quantity = 1010, !.content = "b"]>>,
         FirstRow <- <<Row("boxes", 0), Row("weight", 5000), Row("copies", 1)>>,
         TradeEdits <- Edit({"t1", "t2"}, "boxes", {{}, {"b"}}),
         PaperEdits <- Edit({1, 2, 3}, "on", {"t1", "t2"}) \cup Edit({2, 3}, "quantity", {-1, 1020}),
         RowEdits <- Edit({1}, "active", {FALSE}) \cup Edit({1}, "value", {1}),
         Checklist <- {}, FirstDay <- 1, LastDay <- 1, MaxEdits <- 3,
         day <- today, edits <- ruleEdits

\* A purchase bundle that is assembled, beside a territory's checklist.
Bundling == INSTANCE RuleChecks
    WITH Trades <- {"t1"}, Papers <- 1..4, Rows <- 1..1,
         FirstTrade <- [t \in {"t1"} |-> BareTrade],
         FirstPaper <- <<[BarePaper EXCEPT !.type = "invoice", !.on = "none"],
                         [BarePaper EXCEPT !.type = "shipping_document", !.named = {"packing_list"}],
                         [BarePaper EXCEPT !.type = "shipping_document", !.kinds = {"weight_slip"}, !.on = "none"],
                         [BarePaper EXCEPT !.type = "contract", !.on = "none"]>>,
         FirstRow <- <<Row("pack", 10000)>>,
         TradeEdits <- Edit({"t1"}, "legs", {{"purchase", "sales"}}),
         PaperEdits <- Edit(1..4, "on", {"t1"}) \cup Edit({4}, "type", {"bl", "unknown"})
                        \cup Edit({1, 4}, "generated", {TRUE}) \cup Edit({3}, "sales", {TRUE}),
         RowEdits <- Edit({1}, "value", {5000}),
         Checklist <- {"invoice", "bl"}, FirstDay <- 1, LastDay <- 1, MaxEdits <- 5,
         day <- today, edits <- ruleEdits

-----------------------------------------------------------------------------
\* One replica and one administrator; one target is not configured.
Alone == INSTANCE IntegrationHub
    WITH Txns <- {"t1"}, Targets <- {"sap", "dms"}, Configured <- {"sap"},
         MayDefer <- {}, Sweepers <- {"w1"}, Approvers <- {"a1"}, Admins <- {"d1"},
         MaxAttempts <- 3, BatchSize <- 2, MaxRollbacks <- 2 * MaxFaults, MaxReopens <- 0,
         job <- hubJob, pc <- hubPc

-----------------------------------------------------------------------------
ShipStep(p, A) == part = p /\ A /\ UNCHANGED <<part, ruleVars, hubVars, officeVars>>
RuleStep(p, A) == part = p /\ A /\ UNCHANGED <<part, shipVars, hubVars, officeVars>>
HubStep(A) == part = "alone" /\ A /\ UNCHANGED <<part, shipVars, ruleVars, officeVars>>
NoShips == /\ ship = [s \in {} |-> 0] /\ bill = 0 /\ verdict = 0 /\ cases = 0 /\ sweep = 0
           /\ desk = 0 /\ day = 0 /\ shipChanges = 0 /\ shipFaults = 0
NoRules == /\ trade = 0 /\ paper = 0 /\ row = 0 /\ result = 0 /\ accepted = 0 /\ today = 0
           /\ ruleEdits = 0

RuleInit ==
    \/ part = "figures" /\ Figures!Init
    \/ part = "window" /\ Window!Init
    \/ part = "cargo" /\ Cargo!Init
    \/ part = "bundling" /\ Bundling!Init

ShipInit ==
    \/ part = "board" /\ Board!Init
    \/ part = "carrier" /\ Carrier!Init
    \/ part = "counter" /\ Counter!Init

Init ==
    /\ Alone!Init
    /\ \/ OfficeInit /\ NoShips /\ NoRules
       \/ part = "alone" /\ NoShips /\ NoRules /\ NoOffice
       \/ ShipInit /\ NoRules /\ NoOffice
       \/ NoShips /\ NoOffice /\ RuleInit

Next ==
    \/ OfficeNext /\ UNCHANGED <<part, shipVars, ruleVars, hubVars>>
    \/ HubStep(Alone!Next)
    \/ ShipStep("board", Board!Next) \/ ShipStep("carrier", Carrier!Next)
    \/ ShipStep("counter", Counter!Next)
    \/ RuleStep("figures", Figures!Next) \/ RuleStep("window", Window!Next)
    \/ RuleStep("cargo", Cargo!Next) \/ RuleStep("bundling", Bundling!Next)

Spec == Init /\ [][Next]_vars

-----------------------------------------------------------------------------
\* Every shipment, bill, sweep and request has its type.
ShipTypeOK ==
    CASE part = "board" -> Board!TypeOK
      [] part = "carrier" -> Carrier!TypeOK
      [] part = "counter" -> Counter!TypeOK
      [] OTHER -> TRUE

\* The desk has one reminder of a trade, however many of its shipments are silent.
OneReminder == part = "board" => Board!OneReminder

\* Finished cargo is not under way again without the flag.
RegressionIsFlagged ==
    [][(part = "carrier" => Carrier!RegressionIsFlagged)
       /\ (part = "counter" => Counter!RegressionIsFlagged)]_vars

\* Establishing where the cargo is begins the count of failures anew.
CheckEndsTheCount ==
    [][(part = "carrier" => Carrier!CheckEndsTheCount)
       /\ (part = "counter" => Counter!CheckEndsTheCount)]_vars

\* BR-07's newest answer is that of the bills in hand.
VerdictKnowsTheBill == part = "counter" => Counter!VerdictKnowsTheBill

\* Every trade, document, configured row and outcome has its type.
RuleTypeOK ==
    CASE part = "figures" -> Figures!TypeOK
      [] part = "window" -> Window!TypeOK
      [] part = "cargo" -> Cargo!TypeOK
      [] part = "bundling" -> Bundling!TypeOK
      [] OTHER -> TRUE

\* A figure somebody accepted passes only while it is the figure that was accepted.
AcceptedFiguresStand ==
    /\ part = "figures" => Figures!AcceptedFiguresStand
    /\ part = "window" => Window!AcceptedFiguresStand

\* An amount the tolerance lets through is within it whichever way it is rounded.
AmountTiersAgree == part = "figures" => Figures!AmountTiersAgree

\* One container is not the cargo of two trades that both pass.
OneBoxOneCargo == part = "cargo" => Cargo!OneBoxOneCargo

\* A complete purchase bundle is a complete pack of documents.
BundleImpliesPack == part = "bundling" => Bundling!BundleImpliesPack

\* A threshold of one stream says nothing of a trade of another.
StreamsAreApart == [][part = "figures" => Figures!StreamsAreApart]_vars

\* A date that has left its window does not come back into it by waiting.
WindowNeverReopens == [][part = "window" => Window!WindowNeverReopens]_vars

\* The final bill of lading decides the weight as soon as there is one.
FinalWeightDecides == [][part = "cargo" => Cargo!FinalWeightDecides]_vars

\* integration_service.py: a committed trade has no job that is not resolved.
CommittedMeansResolved == part = "alone" => Alone!CommittedMeansResolved

\* Only a person takes a job out of awaiting_manual_action.
WaitingLeavesOnlyByHand == Alone!WaitingLeavesOnlyByHand

\* A resolved job is never attempted again.
SucceededIsFinal == Alone!SucceededIsFinal

-----------------------------------------------------------------------------
\* Every variable of every part has its type.
TypeOK == ShipTypeOK /\ RuleTypeOK /\ OfficeTypeOK

\* With one sweep and one administrator the rules of integration_service.py hold
\* as its header states them: committed means resolved, only a person takes a
\* job out of awaiting_manual_action, a resolved job is not attempted again.
HubRulesHold == []CommittedMeansResolved /\ WaitingLeavesOnlyByHand /\ SucceededIsFinal

\* What the desk is told of its cargo is so: one reminder of a silent shipment,
\* the flag of a milestone that went back, a count of failures that ends with
\* an answer, a verdict that knows the bills in hand.
CargoIsFollowed ==
    []OneReminder /\ []VerdictKnowsTheBill /\ RegressionIsFlagged /\ CheckEndsTheCount

\* The checks agree with one another: an accepted figure passes only while it is
\* that figure, tiers of one amount, packs and boxes do not contradict.
ChecksAgree == AcceptedFiguresStand /\ AmountTiersAgree /\ OneBoxOneCargo /\ BundleImpliesPack

\* A threshold, a date and a weight decide what they are about: of one stream,
\* once past, and as soon as the bill is final.
ChecksDecide == StreamsAreApart /\ WindowNeverReopens /\ FinalWeightDecides
=============================================================================
