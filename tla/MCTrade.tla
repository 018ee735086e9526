-------------------------------- MODULE MCTrade --------------------------------
(***************************************************************************)
(* Small instances of what happens between a message and the approval of   *)
(* its trade: a behaviour runs the part chosen at the start.  What one     *)
(* person at a time is promised and several are not has a part of its own. *)
(***************************************************************************)
EXTENDS MCIntake

CONSTANTS MaxTrades, MaxChanges

ASSUME TradeBounds == {MaxTrades, MaxChanges} \subseteq Nat

VARIABLES
    trades, counter, matchLink, confirmed, offered, failed, matching, matchFaults,
    exists, leg, seller, quantity, shown, asked, locked, selling, changes,
    docs, figures, batch, frozen, packet, drafts, jobs, confirming, rows, book,
    drain, byHand, edits, buyFaults

matchVars == <<trades, counter, matchLink, confirmed, offered, failed, matching, matchFaults>>
salesVars == <<exists, leg, seller, quantity, shown, asked, locked, selling, changes>>
purchaseVars == <<docs, figures, batch, frozen, packet, drafts, jobs, confirming,
                  rows, book, drain, byHand, edits, buyFaults>>
tradeVars == <<matchVars, salesVars, purchaseVars>>
vars == <<part, intakeVars, tradeVars>>

-----------------------------------------------------------------------------
\* A contract with no number of its own, a final invoice that states number 1,
\* and a provisional one with the contract's content that states number 7.
Says ==
    ("contract" :> [batch |-> 0, contract |-> TRUE, invoice |-> "none",
                    amount |-> FALSE, content |-> "a", boxes |-> {}])
    @@ ("final" :> [batch |-> 1, contract |-> TRUE, invoice |-> "final",
                    amount |-> TRUE, content |-> "b", boxes |-> {"box"}])
    @@ ("provisional" :> [batch |-> 7, contract |-> TRUE, invoice |-> "provisional",
                    amount |-> TRUE, content |-> "a", boxes |-> {"box"}])

\* The contract number of the provisional invoice is read badly.
Likeness ==
    [d \in DOMAIN Says |-> [o \in DOMAIN Says |->
        [contract |-> IF d = "provisional" THEN 90 ELSE 100, supplier |-> 95,
         commodity |-> "same", apart |-> IF d = "provisional" THEN 4 ELSE 2]]]

Thresholds == [contract |-> 92, supplier |-> 90, floor |-> 80]

\* One person, three documents, a database that may fail.
Matching == INSTANCE DocumentMatching
    WITH Docs <- DOMAIN Says, People <- {"p1"}, HandNumbers <- {},
         MaxAttempts <- 2,
         link <- matchLink, work <- matching, faults <- matchFaults

\* Two people, two documents, and trades registered by hand.
Crowd == INSTANCE DocumentMatching
    WITH Docs <- {"contract", "final"}, People <- {"p1", "p2"}, HandNumbers <- {1},
         MaxAttempts <- 1, MaxFaults <- 0,
         link <- matchLink, work <- matching, faults <- matchFaults

ASSUME MatchAssumption == Matching!MatchConstants /\ Crowd!MatchConstants

\* One person who changes figures in the workspace only.
Desk == INSTANCE SalesContract
    WITH Trades <- {"t1", "t2"}, Bought <- {"t1"}, People <- {"p1"}, Contracts <- {"K"},
         Quantities <- {4, 6}, Tolerance <- 10, Fields <- {"quantity", "contracted"},
         Channels <- {"workspace"}, work <- selling

\* One person, every way figures change.
Anywhere == INSTANCE SalesContract
    WITH Trades <- {"t1", "t2"}, Bought <- {"t1"}, People <- {"p1"}, Contracts <- {"K"},
         Quantities <- {4, 6}, Tolerance <- 10, Fields <- {"quantity", "contracted"},
         Channels <- {"workspace", "queue", "document"}, work <- selling

\* Two people.
Sellers == INSTANCE SalesContract
    WITH Trades <- {"t1"}, Bought <- {"t1"}, People <- {"p1", "p2"}, Contracts <- {"K"},
         Quantities <- {4, 6}, Tolerance <- 10, Fields <- {"quantity", "contracted"},
         Channels <- {"workspace"}, MaxChanges <- 1, work <- selling

\* Two people confirm the documents of one purchase.
Bundle == INSTANCE PurchaseBundle
    WITH Items <- {"invoice"}, Strays <- {"stray"}, DraftKinds <- 2, Numbers <- 1,
         People <- {"p1", "p2"}, Drains <- {},
         MaxFigures <- 1, MaxJobs <- 4, MaxManual <- 1, MaxFaults <- 0, Edits <- 0,
         work <- confirming, asked <- byHand, faults <- buyFaults

\* One replica writes the sheet of a trade that adopts a number.
Sheet == INSTANCE PurchaseBundle
    WITH Items <- {"invoice"}, Strays <- {}, DraftKinds <- 1, Numbers <- 2,
         People <- {"p1"}, Drains <- {"w1"},
         MaxFigures <- 2, MaxJobs <- 2, MaxManual <- 0, Edits <- 0,
         work <- confirming, asked <- byHand, faults <- buyFaults

\* Two replicas do.
Sheets == INSTANCE PurchaseBundle
    WITH Items <- {"invoice"}, Strays <- {}, DraftKinds <- 0, Numbers <- 2,
         People <- {"p1"}, Drains <- {"w1", "w2"},
         MaxFigures <- 2, MaxJobs <- 0, MaxManual <- 0, MaxFaults <- 0, Edits <- 0,
         work <- confirming, asked <- byHand, faults <- buyFaults

ASSUME LegsAssumption ==
    /\ Desk!SalesConstants /\ Anywhere!SalesConstants /\ Sellers!SalesConstants
    /\ Bundle!PurchaseBounds /\ Sheet!PurchaseBounds /\ Sheets!PurchaseBounds

Init ==
    /\ part \in {"reading", "matching", "crowd", "desk", "anywhere", "sellers", "bundle", "sheet", "sheets"}
                \cup MailParts \cup AccessParts
    /\ IntakeInit
    /\ IF part = "crowd" THEN Crowd!Init ELSE Matching!Init
    /\ IF part = "sellers" THEN Sellers!Init ELSE Desk!Init
    /\ CASE part = "bundle" -> Bundle!Init
         [] part = "sheets" -> Sheets!Init
         [] OTHER -> Sheet!Init

TradeNext ==
    \/ part = "matching" /\ Matching!Next /\ UNCHANGED <<salesVars, purchaseVars>>
    \/ part = "crowd" /\ Crowd!Next /\ UNCHANGED <<salesVars, purchaseVars>>
    \/ part = "desk" /\ Desk!Next /\ UNCHANGED <<matchVars, purchaseVars>>
    \/ part = "anywhere" /\ Anywhere!Next /\ UNCHANGED <<matchVars, purchaseVars>>
    \/ part = "sellers" /\ Sellers!Next /\ UNCHANGED <<matchVars, purchaseVars>>
    \/ part = "bundle" /\ Bundle!Next /\ UNCHANGED <<matchVars, salesVars>>
    \/ part = "sheet" /\ Sheet!Next /\ UNCHANGED <<matchVars, salesVars>>
    \/ part = "sheets" /\ Sheets!Next /\ UNCHANGED <<matchVars, salesVars>>

Next ==
    /\ UNCHANGED part
    /\ \/ IntakeNext /\ UNCHANGED tradeVars
       \/ TradeNext /\ UNCHANGED intakeVars

Spec == Init /\ [][Next]_vars

-----------------------------------------------------------------------------
\* The types of the matching (DocumentMatching.TypeOK).
MatchTypeOK == part = "matching" => Matching!TypeOK

\* No two trades share a batch number or a code, whoever races.
NumbersAreUnique == Matching!NumbersAreUnique

\* One person at a time: a stated number never moves.
StatedNumberStands == [][part = "matching" => Matching!StatedStands]_vars

\* One person at a time: only a final invoice replaces a figure, and once.
FiguresStand == [][part = "matching" => Matching!FiguresStay]_vars

\* One person at a time: a copy of a linked document opens no trade.
CopyOpensNothing == [][part = "matching" => Matching!CopyIsRecognised]_vars

\* The types of the sell side (SalesContract.TypeOK).
SalesTypeOK == part \in {"desk", "anywhere"} => Desk!TypeOK

\* Two sessions that sell one batch: the first leg stands.
FirstSaleStands == Sellers!FirstSaleStands

\* The types of the purchase side (PurchaseBundle.TypeOK).
PurchaseTypeOK ==
    /\ part = "bundle" => Bundle!TypeOK
    /\ part = "sheet" => Sheet!TypeOK

\* Two confirmations never stack a second purchase contract on the trade.
ContractIsNotStacked == part = "bundle" => Bundle!ContractIsNotStacked

\* A generated document and its completed job come together.
DraftsHaveTheirJobs ==
    /\ part = "bundle" => Bundle!DraftsHaveTheirJobs
    /\ part = "sheet" => Sheet!DraftsHaveTheirJobs

\* A row that counts as written has its line in the workbook, also with two
\* replicas draining.
SyncedIsInTheBook == part \in {"sheet", "sheets"} => Sheet!SyncedIsInTheBook

\* One replica writes one line for a batch.
OneLinePerBatch == part = "sheet" => Sheet!OneLinePerBatch

\* A write never lands on the line of another batch, as long as nobody moves
\* the lines of the workbook.
LinesKeepTheirKey == [][(part \in {"sheet", "sheets"}) => Sheet!KeysStay]_vars

\* loading_sheet.py: the table and the workbook never carry different numbers
\* for one batch.  Not so: the figures may change while the line is written.
SyncedDescribesBatch == part = "sheet" => Sheet!SyncedDescribesBatch

\* transactions.py: no draft appears that the approver was not shown.  Not so: a
\* generation that was queued before runs on.
PacketIsFrozen == part = "sheet" => Sheet!PacketIsFrozen

-----------------------------------------------------------------------------
\* Every variable of every part has its type.
TypeOK == AccessTypeOK /\ MailTypeOK /\ ReadingTypeOK /\ MatchTypeOK /\ SalesTypeOK /\ PurchaseTypeOK

\* However webhooks, polls, uploads and matches race, a message has one request
\* and a number is given once.
NumberedOnce == OneRequestPerMessage /\ CodesAreUnique /\ NumbersAreUnique

\* Nothing that arrived is forgotten: the mailbox stays watched, the delta link
\* passes nothing untried, what is unsettled is in hand, nothing is left as
\* being read.
NothingIsLeftBehind ==
    StaysWatched /\ NothingSkipped /\ UnsettledIsInHand /\ NoReadingLeftBehind

\* The machine's first value and the correction a reader has seen stay, and every
\* doubt reaches the request.
ReadingIsFaithful == OriginalIsKept /\ SeenCorrectionIsKept /\ DoubtsReachTheRequest

\* A confirmed document is linked or on its way, its containers follow it, and,
\* one person at a time, no trade is left without the document that opened it.
DocumentsAreAccountedFor ==
    /\ part = "matching" => Matching!DocumentsAreAccountedFor
    /\ part = "crowd" => Crowd!DocumentsAreAccountedFor

\* What was stated first stands: a number, a figure but for one final invoice,
\* the first sale of a batch; and a copy of a document opens nothing.
FirstStatementStands == StatedNumberStands /\ FiguresStand /\ FirstSaleStands /\ CopyOpensNothing

\* One person at a time: a contract that is invoiced beyond its cover shows so on
\* one of its trades, and on all where only the workspace changes figures.
CoverageIsShown ==
    /\ part = "desk" => Desk!CoverageIsShown
    /\ part = "anywhere" => Anywhere!CoverageIsShown

\* What a purchase writes it writes once and in its place: one contract, no draft
\* without its job, and one line of the workbook for a row that says synced.
PurchaseWritesOnce ==
    /\ [](ContractIsNotStacked /\ DraftsHaveTheirJobs)
    /\ [](SyncedIsInTheBook /\ OneLinePerBatch)
    /\ LinesKeepTheirKey
=============================================================================
