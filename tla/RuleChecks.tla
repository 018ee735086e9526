------------------------------ MODULE RuleChecks ------------------------------
(***************************************************************************)
(* What the checks of a validation say of a trade: the evaluators of       *)
(* backend/app/services/rules, the configured thresholds that they read,   *)
(* and the acknowledgement that the next validation carries over.          *)
(*                                                                         *)
(* Figures are whole numbers: money in cents, weights in thousandths of a  *)
(* tonne, percentages and ratios in ten-thousandths, days counted from 1.  *)
(* BR-07 and SL-01, which judge sales, are in Shipments and SalesContract. *)
(***************************************************************************)
EXTENDS Integers, FiniteSets

CONSTANTS
    Trades, Papers,         \* trades, and documents 1..n in the order they arrived
    Rows,                   \* rows of rule_configurations
    FirstTrade, FirstPaper, FirstRow,    \* what they are at the start
    TradeEdits, PaperEdits, RowEdits,    \* what may change: [of, field, value]
    Checklist,              \* the territory's mandatory documents
    FirstDay, LastDay,
    MaxEdits                \* bound on the changes of a behaviour

VARIABLES
    trade, paper, row,
    result,        \* by trade and check, the newest evaluation
    accepted,      \* the discrepancies that somebody has acknowledged
    day, edits

vars == <<trade, paper, row, result, accepted, day, edits>>

None == -1             \* no figure is stated
Unreadable == -2       \* a date that no format fits
Bundle == {"invoice", "packing_list", "weight_slip"}     \* PURCHASE_BUNDLE_ITEMS
Never == [passed |-> FALSE, severity |-> "never", says |-> <<>>, accepted |-> FALSE]

Checks == {"references", "boxes", "pack", "variation", "amount", "quantity", "rate",
           "copies", "dating", "advisory", "weight", "bundle", "purity"}

TypeOK ==
    /\ DOMAIN trade = Trades /\ DOMAIN paper = Papers /\ DOMAIN row = Rows
    /\ \A r \in Rows : row[r].active \in BOOLEAN /\ row[r].value \in Nat
    /\ \A t \in Trades, c \in Checks :
        /\ result[t][c].severity \in {"never", "hard", "acknowledgeable", "informational"}
        /\ result[t][c].passed \in BOOLEAN
        /\ result[t][c].accepted => result[t][c].passed
    /\ day \in FirstDay..LastDay /\ edits \in 0..MaxEdits

-----------------------------------------------------------------------------
(* The configured thresholds.                                              *)

\* The type of a trade with one leg; none when it has two.
TypeOfTrade(t) ==
    IF Cardinality(trade[t].legs) = 1 THEN CHOOSE leg \in trade[t].legs : TRUE ELSE "none"

Applies(r, t) ==
    /\ row[r].active
    /\ row[r].commodity \in {"any", trade[t].commodity}
    /\ row[r].type \in {"any", TypeOfTrade(t)}
    /\ row[r].stream \in {"any", trade[t].stream}

Specificity(r) ==
    (IF row[r].commodity = "any" THEN 0 ELSE 4) + (IF row[r].type = "any" THEN 0 ELSE 2)
        + (IF row[r].stream = "any" THEN 0 ELSE 1)

\* The narrowest row decides; with none the check is unconfigured.
Threshold(check, t) ==
    LET found == {r \in Rows : row[r].check = check /\ Applies(r, t)} IN
    IF found = {} THEN None
    ELSE row[CHOOSE r \in found : \A o \in found : Specificity(o) <= Specificity(r)].value

-----------------------------------------------------------------------------
(* What a trade and its documents state.                                   *)

Attached(t) == {d \in Papers : paper[d].on = t}
Newest(t, types) ==
    LET found == {d \in Attached(t) : paper[d].type \in types} IN
    IF found = {} THEN None ELSE CHOOSE d \in found : \A o \in found : o <= d
Stated(d, field) == IF d = None THEN None ELSE paper[d][field]

ValueDocument(t) == Newest(t, IF trade[t].stream = "fa" THEN {"fa_document"} ELSE {"invoice"})
Invoiced(t, field) == Stated(ValueDocument(t), field)
Agreed(t, field) == Stated(Newest(t, {"contract"}), field)

\* Python's `or`: a figure of zero is no figure.
Or(a, b) == IF a \in {None, 0} THEN b ELSE a

Abs(n) == IF n < 0 THEN -n ELSE n

HalfUp(n, d) == n \div d + (IF 2 * (n % d) >= d THEN 1 ELSE 0)

\* percentage_difference, to the fourth decimal; nothing is a percentage of zero.
Difference(expected, actual) ==
    IF expected = 0 THEN None ELSE HalfUp(Abs(actual - expected) * 1000000, expected)

Commercial(t) == trade[t].legs \cap {"purchase", "fa"} # {}

\* An entry of a checklist is evidenced by the kind, the type or the name of
\* a document.
Evident(entry, papers) ==
    \E d \in papers : entry \in paper[d].kinds \cup {paper[d].type} \cup paper[d].named

ShippingEvidence(d) ==
    \/ paper[d].type \in {"bl", "bl_draft"} \/ "bill_of_lading" \in paper[d].kinds
    \/ /\ paper[d].type = "shipping_document"
       /\ ~(paper[d].kinds # {} /\ paper[d].kinds \subseteq Bundle \ {"invoice"})
       /\ ~(paper[d].kinds = {} /\ paper[d].named \cap {"packing_list", "weight_slip"} # {})

PurchaseStage(t) ==
    /\ trade[t].stream # "fa" /\ trade[t].legs \cap {"fa", "sales"} = {}
    /\ \A d \in Attached(t) : ~ShippingEvidence(d)

Inbound(t) == {d \in Attached(t) : ~paper[d].generated}
Unexpected(t) ==
    {d \in Inbound(t) : paper[d].type \in {"contract", "generated"} \/ paper[d].sales}

Quoted(t) == trade[t].boxes \cup UNION {paper[d].boxes : d \in Attached(t)}

-----------------------------------------------------------------------------
(* The calendar, of years without a leap day.                              *)

Length(m) == <<31, 28, 31, 30, 31, 30, 31, 31, 30, 31, 30, 31>>[(m % 12) + 1]
Start[m \in 0..24] == IF m = 0 THEN 1 ELSE Start[m - 1] + Length(m - 1)
MonthOf(n) == CHOOSE m \in 0..23 : Start[m] <= n /\ n < Start[m + 1]

\* Slip: the days that the month is short of run into the next one.
MonthsBeforeRolling(today, months) ==
    Start[MonthOf(today) - months] + today - Start[MonthOf(today)]

MonthsBefore(today, months) ==
    LET back == MonthOf(today) - months
        inMonth == today - Start[MonthOf(today)] + 1
    IN Start[back] + (IF inMonth <= Length(back) THEN inMonth ELSE Length(back)) - 1

-----------------------------------------------------------------------------
(* The outcome of each check.                                              *)

Outcome(passed, severity, says) ==
    [passed |-> passed, severity |-> severity, says |-> says, accepted |-> FALSE]
Unconfigured == Outcome(FALSE, "hard", <<"unconfigured">>)
Flag(passed, says) == Outcome(passed, "acknowledgeable", says)
Hard(passed, says) == Outcome(passed, "hard", says)

\* BR-02
References(t) ==
    LET needed == Threshold("references", t) IN
    IF needed = None THEN Unconfigured
    ELSE Hard(Cardinality(trade[t].references) >= needed, <<needed, trade[t].references>>)

\* BR-03
Boxes(t) ==
    LET allowance == Threshold("boxes", t)
        elsewhere == {b \in Quoted(t) : \E o \in Trades \ {t} : b \in trade[o].boxes}
    IN IF allowance = None THEN Unconfigured
       ELSE Hard(Cardinality(elsewhere) <= allowance, <<allowance, elsewhere>>)

\* BR-04: a purchase answers for its own bundle, when anything is configured.
Pack(t) ==
    LET ratio == Threshold("pack", t)
        asked == IF Checklist = {} THEN {} ELSE IF PurchaseStage(t) THEN Bundle ELSE Checklist
        present == {e \in asked : Evident(e, Attached(t))}
    IN IF ratio = None THEN Unconfigured
       ELSE Hard(Cardinality(present) * 10000 >= ratio * Cardinality(asked), <<present>>)

\* BR-05, and BR-06's second check.
Quantity(t, check) ==
    LET tolerance == Threshold(check, t)
        contracted == IF Agreed(t, "quantity") # None THEN Agreed(t, "quantity")
                                                      ELSE trade[t].quantity
        invoiced == Invoiced(t, "quantity")
        variation == Difference(contracted, invoiced)
    IN IF tolerance = None THEN Unconfigured
       ELSE IF None \in {contracted, invoiced} THEN Hard(FALSE, <<contracted, invoiced>>)
       ELSE Hard(variation # None /\ variation <= tolerance, <<contracted, tolerance, invoiced>>)

JudgedAmount(t) == Or(Invoiced(t, "amount"), trade[t].amount)
JudgedRate(t) == Or(Invoiced(t, "rate"), trade[t].rate)
JudgedQuantity(t) == Or(Invoiced(t, "quantity"), trade[t].quantity)

\* BR-06: within the rounding it passes, up to the ceiling a person may accept
\* it, above the ceiling it has to be corrected.
Amount(t) ==
    LET rounding == Threshold("amount", t)
        ceiling == Threshold("ceiling", t)
        calculated == HalfUp(JudgedRate(t) * JudgedQuantity(t), 1000)
        difference == Abs(JudgedAmount(t) - calculated)
    IN IF None \in {rounding, ceiling} THEN Unconfigured
       ELSE IF None \in {JudgedAmount(t), JudgedRate(t), JudgedQuantity(t)}
       THEN Hard(FALSE, <<None, JudgedAmount(t)>>)
       ELSE Outcome(difference <= rounding,
                    IF difference <= rounding \/ difference <= ceiling
                    THEN "acknowledgeable" ELSE "hard",
                    <<calculated, JudgedAmount(t)>>)

\* BR-06: the price, exactly, as a rate or as a percentage of the exchange's.
Rate(t) ==
    LET tolerance == Threshold("rate", t)
        byExchange == trade[t].linked /\ Agreed(t, "percent") # None
        expected == IF byExchange THEN Agreed(t, "percent")
                    ELSE IF Agreed(t, "rate") # None THEN Agreed(t, "rate") ELSE trade[t].rate
        actual == IF byExchange THEN trade[t].percent
                  ELSE IF Invoiced(t, "rate") # None THEN Invoiced(t, "rate") ELSE trade[t].rate
    IN IF tolerance = None THEN Unconfigured
       ELSE Hard(/\ None \notin {expected, actual}
                 /\ Abs(actual - expected) <= tolerance, <<byExchange, expected, actual>>)

\* BR-13: the number that is configured is asked for and not looked at.
Copies(t) ==
    LET elsewhere == {d \in Papers : /\ paper[d].on \in Trades \ {t}
                                     /\ \E o \in Attached(t) : paper[o].content = paper[d].content}
    IN IF Threshold("copies", t) = None THEN Unconfigured
       ELSE Hard(elsewhere = {}, <<elsewhere>>)

\* IV-01: an unconfigured window, a date that cannot be read and a date outside
\* of the window are flags.
Dating(t) ==
    LET months == Threshold("dating", t)
        dated == Invoiced(t, "dated")
        earliest == MonthsBefore(day, months)
    IN IF months = None THEN Flag(FALSE, <<"unconfigured">>)
       ELSE IF dated = Unreadable THEN Flag(FALSE, <<"unreadable">>)
       ELSE Flag(earliest <= dated /\ dated <= day, <<earliest, day, dated>>)

\* LG-01: a final bill of lading is preferred to a draft.
Shipped(t) ==
    LET final == Stated(Newest(t, {"bl"}), "quantity") IN
    IF final # None THEN final ELSE Stated(Newest(t, {"bl_draft"}), "quantity")

Weight(t) ==
    LET tolerance == Threshold("weight", t)
        invoiced == Invoiced(t, "quantity")
        variation == Difference(Shipped(t), invoiced)
    IN IF tolerance = None THEN Flag(FALSE, <<"unconfigured">>)
       ELSE IF None \in {Shipped(t), invoiced} THEN Outcome(TRUE, "informational", <<>>)
       ELSE Flag(variation # None /\ variation <= tolerance, <<Shipped(t), tolerance, invoiced>>)

\* PR-01: only a trade that arrives as a bundle is judged as one.
AsBundle(t) ==
    "purchase" \in trade[t].legs /\ \E e \in Bundle \ {"invoice"} : Evident(e, Inbound(t))
Complete(t) ==
    LET received == {e \in Bundle : Evident(e, Inbound(t))} IN Hard(received = Bundle, <<received>>)

\* The checks that a validation writes a row for.
Speaks(t, c) ==
    CASE c \in {"variation", "amount", "quantity", "rate", "references"} -> Commercial(t)
      [] c = "dating" -> Threshold("dating", t) = None \/ Invoiced(t, "dated") # None
      [] c = "advisory" -> /\ Threshold("dating", t) # None /\ trade[t].india
                           /\ Invoiced(t, "dated") \notin {None, Unreadable}
      [] c = "bundle" -> AsBundle(t)
      [] c = "purity" -> AsBundle(t) /\ Unexpected(t) # {}
      [] OTHER -> TRUE

Judged(t, c) ==
    CASE c = "references" -> References(t)
      [] c = "boxes" -> Boxes(t)
      [] c = "pack" -> Pack(t)
      [] c \in {"variation", "quantity"} -> Quantity(t, c)
      [] c = "amount" -> Amount(t)
      [] c = "rate" -> Rate(t)
      [] c = "copies" -> Copies(t)
      [] c = "dating" -> Dating(t)
      [] c = "advisory" -> Outcome(TRUE, "informational", <<Invoiced(t, "dated")>>)
      [] c = "weight" -> Weight(t)
      [] c = "bundle" -> Complete(t)
      [] OTHER -> Hard(FALSE, <<Unexpected(t)>>)

-----------------------------------------------------------------------------
(* The steps.                                                              *)

\* Slip: whatever was accepted once stays so.
CarriedAlways(before, outcome) == before.accepted

\* An acknowledgement holds while what it accepted has not moved.
Carried(before, outcome) == before.accepted /\ before.says = outcome.says

Persisted(before, outcome) ==
    [outcome EXCEPT !.passed = @ \/ Carried(before, outcome),
                    !.accepted = Carried(before, outcome)]

\* run_validation, of the trade as it is by then: a row for each check that has
\* something to say; the newest row of the others stays what it was.
Validated(t) ==
    result' = [result EXCEPT ![t] = [c \in Checks |->
        IF Speaks(t, c)' THEN Persisted(@[c], Judged(t, c)') ELSE @[c]]]

Edited == edits < MaxEdits /\ edits' = edits + 1

\* A correction of the trade is validated with it, in its own transaction.
CorrectTrade(e) ==
    /\ Edited /\ trade[e.of][e.field] # e.value
    /\ trade' = [trade EXCEPT ![e.of][e.field] = e.value]
    /\ UNCHANGED <<paper, row, accepted, day>>
    /\ Validated(e.of)

\* A document that is linked, read or classified anew is not.
CorrectPaper(e) ==
    /\ Edited /\ paper[e.of][e.field] # e.value
    /\ paper' = [paper EXCEPT ![e.of][e.field] = e.value]
    /\ UNCHANGED <<trade, row, result, accepted, day>>

\* update_rule validates nothing.
UpdateRule(e) ==
    /\ Edited /\ row[e.of][e.field] # e.value
    /\ row' = [row EXCEPT ![e.of][e.field] = e.value]
    /\ UNCHANGED <<trade, paper, result, accepted, day>>

Validate(t) ==
    UNCHANGED <<trade, paper, row, accepted, day, edits>> /\ Validated(t)

\* acknowledge_tolerance: a new row beside the failing one.
Acknowledge(t, c) ==
    /\ ~result[t][c].passed /\ result[t][c].severity = "acknowledgeable"
    /\ result' = [result EXCEPT ![t][c].passed = TRUE, ![t][c].accepted = TRUE]
    /\ accepted' = accepted \cup {<<t, c, result[t][c].says>>}
    /\ UNCHANGED <<trade, paper, row, day, edits>>

DayPasses ==
    /\ day < LastDay /\ day' = day + 1
    /\ UNCHANGED <<trade, paper, row, result, accepted, edits>>

Init ==
    /\ trade = FirstTrade /\ paper = FirstPaper /\ row = FirstRow
    /\ result = [t \in Trades |-> [c \in Checks |-> Never]]
    /\ accepted = {} /\ day = FirstDay /\ edits = 0

Next ==
    \/ \E e \in TradeEdits : CorrectTrade(e)
    \/ \E e \in PaperEdits : CorrectPaper(e)
    \/ \E e \in RowEdits : UpdateRule(e)
    \/ \E t \in Trades : Validate(t) \/ \E c \in Checks : Acknowledge(t, c)
    \/ DayPasses

-----------------------------------------------------------------------------
\* What passes because somebody accepted it shows the figures that were
\* accepted, however often the trade is validated and corrected since.
AcceptedFiguresStand ==
    \A t \in Trades, c \in Checks :
        result[t][c].accepted => <<t, c, result[t][c].says>> \in accepted

\* Rounding to the cent moves the verdict on an amount by half a cent at most:
\* against rate times quantity itself, nothing beyond the tolerance passes and
\* nothing beyond the ceiling is open to acceptance.
AmountTiersAgree ==
    \A t \in Trades :
        LET gap == Abs(1000 * JudgedAmount(t) - JudgedRate(t) * JudgedQuantity(t))
            verdict == Amount(t)
        IN  (/\ None \notin {Threshold("amount", t), Threshold("ceiling", t)}
             /\ None \notin {JudgedAmount(t), JudgedRate(t), JudgedQuantity(t)}) =>
            /\ verdict.passed => gap <= 1000 * Threshold("amount", t) + 500
            /\ ~verdict.passed => gap > 1000 * Threshold("amount", t) - 500
            /\ verdict.severity = "hard" => gap > 1000 * Threshold("ceiling", t) - 500
            /\ ~verdict.passed /\ verdict.severity = "acknowledgeable" =>
                   gap <= 1000 * Threshold("ceiling", t) + 500

\* A box that two trades have on record passes at neither of them, while no
\* exception is allowed.
OneBoxOneCargo ==
    \A t, o \in Trades :
        t # o /\ trade[t].boxes \cap trade[o].boxes # {} /\ Threshold("boxes", t) = 0 =>
            ~Boxes(t).passed

\* What the buying desk's bundle calls complete, the document pack does not
\* call short while the trade is still a purchase.
BundleImpliesPack ==
    \A t \in Trades :
        PurchaseStage(t) /\ AsBundle(t) /\ Complete(t).passed
            /\ Threshold("pack", t) \in 0..10000 => Pack(t).passed

\* What an administrator changes for one stream says nothing new of a trade
\* of another.
StreamsAreApart ==
    \A r \in Rows, t \in Trades :
        row'[r] # row[r] /\ row[r].stream \notin {"any", trade[t].stream} =>
            \A c \in Checks : Judged(t, c)' = Judged(t, c)

\* Waiting never readmits an invoice that is dated too far back.
WindowNeverReopens ==
    \A t \in Trades :
        day' # day /\ Threshold("dating", t) # None /\ Invoiced(t, "dated") # None
            /\ ~Dating(t).passed /\ Invoiced(t, "dated") < day => ~Dating(t)'.passed

\* With the weight of the final bill of lading in hand, a draft of it has no
\* more say.
FinalWeightDecides ==
    \A t \in Trades :
        (/\ Stated(Newest(t, {"bl"}), "quantity") # None
         /\ \A d \in Papers : paper'[d] # paper[d] =>
               {paper[d].type, paper'[d].type} = {"bl_draft"}
         /\ row' = row /\ trade' = trade) => Weight(t)' = Weight(t)
=============================================================================
