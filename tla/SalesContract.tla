---------------------------- MODULE SalesContract ----------------------------
(***************************************************************************)
(* The sell side of the trades: a sales leg attached to a batch, a sale    *)
(* with no purchase, the figures corrected later, and what rule SL-01      *)
(* shows on every trade of one sales contract                              *)
(* (backend/app/services/sales_service.py, services/rules/                 *)
(* sales_evaluators.py, api/v1/transactions.py, transaction_fields.py).    *)
(*                                                                         *)
(* SL-01 is a fact about the contract, recorded trade by trade: a session  *)
(* evaluates it over what is committed and its own flushed changes, and    *)
(* commits the rows it found out of date with them.                        *)
(***************************************************************************)
EXTENDS Integers, FiniteSetsExt, Functions

CONSTANTS
    Trades,        \* batches, and those a sale of its own would open
    Bought,        \* the ones opened by a purchase
    People,
    Contracts,     \* sales contract numbers
    Quantities,    \* tonnages stated, all positive
    Tolerance,     \* SL-01's allowance, in percent
    Fields,        \* what corrections change: quantity, contracted, contract
    Channels,      \* where from: the workspace, the exception queue, a document
    MaxChanges     \* bound on corrections

SalesConstants ==
    /\ Bought \subseteq Trades /\ "none" \notin Trades
    /\ "none" \notin People /\ "none" \notin Contracts
    /\ Fields \subseteq {"quantity", "contracted", "contract"}

Unset == 0
NoLeg == [contract |-> "none", contracted |-> Unset]
Legs == [contract : Contracts, contracted : Quantities \cup {Unset}]

\* A row of rule_evaluations for SL-01: the three states, and no contracted
\* quantity to compare with.
Results == [state : {"part", "full", "over", "unknown"}, invoiced : Nat,
            contracted : Nat, shipments : Nat]
NoResult == [state |-> "none", invoiced |-> 0, contracted |-> 0, shipments |-> 0]

VARIABLES
    exists,     \* committed trades
    leg,        \* each trade's sales leg
    seller,     \* the session that attached it
    quantity,   \* quantity_mt
    shown,      \* the latest SL-01 row of each trade
    asked,      \* trades whose missing purchase somebody has acknowledged
    locked,     \* trades awaiting approval or approved
    work,       \* each person's request
    changes

vars == <<exists, leg, seller, quantity, shown, asked, locked, work, changes>>

Idle == [pc |-> "idle", kind |-> "none", trade |-> "none", leg |-> NoLeg,
         quantity |-> Unset, spread |-> FALSE, found |-> <<>>]

TypeOK ==
    /\ Bought \subseteq exists /\ exists \subseteq Trades
    /\ leg \in [Trades -> Legs \cup {NoLeg}]
    /\ seller \in [Trades -> People \cup {"none"}]
    /\ quantity \in [Trades -> Quantities \cup {Unset}]
    /\ shown \in [Trades -> Results \cup {NoResult}]
    /\ asked \subseteq Trades /\ locked \subseteq Trades
    /\ \A p \in People :
        /\ work[p].pc \in {"idle", "flush", "evaluate", "commit"}
        /\ work[p].kind \in {"none", "attach", "sale", "quantity", "contracted", "contract", "validate"}
        /\ DOMAIN work[p].found \subseteq Trades
    /\ changes \in 0..MaxChanges

Init ==
    /\ exists = Bought
    /\ leg = [t \in Trades |-> NoLeg]
    /\ seller = [t \in Trades |-> "none"]
    /\ quantity = [t \in Trades |-> Unset]
    /\ shown = [t \in Trades |-> NoResult]
    /\ asked = {} /\ locked = {}
    /\ work = [p \in People |-> Idle]
    /\ changes = 0

-----------------------------------------------------------------------------
(* The rule.                                                               *)

\* sibling_transactions.
OnContract(legs, c) == {t \in Trades : legs[t].contract = c}

Total(figures) == FoldFunction(LAMBDA a, b : a + b, 0, figures)

\* coverage_outcome.
CoverageState(invoiced, contracted) ==
    IF contracted = Unset THEN "unknown"
    ELSE CASE 100 * invoiced > (100 + Tolerance) * contracted -> "over"
           [] invoiced = contracted -> "full"
           [] OTHER -> "part"

\* contract_coverage: the largest contracted figure counts.
Coverage(legs, tonnes, c) ==
    LET siblings == OnContract(legs, c)
        invoiced == Total([t \in siblings |-> tonnes[t]])
        contracted == Max({legs[t].contracted : t \in siblings} \cup {Unset})
    IN [state |-> CoverageState(invoiced, contracted), invoiced |-> invoiced,
        contracted |-> contracted, shipments |-> Cardinality(siblings)]

-----------------------------------------------------------------------------
(* What a session sees of the trade it changes: its own flush over the rest. *)

NewLeg(p) ==
    LET w == work[p]
        t == w.trade
    IN CASE w.kind \in {"attach", "sale"} -> w.leg
         [] w.kind = "contracted" -> [leg[t] EXCEPT !.contracted = w.leg.contracted]
         [] w.kind = "contract" -> [leg[t] EXCEPT !.contract = w.leg.contract]
         [] OTHER -> leg[t]

LegsOf(p) == [leg EXCEPT ![work[p].trade] = NewLeg(p)]

TonnesOf(p) ==
    [quantity EXCEPT ![work[p].trade] = IF work[p].quantity = Unset THEN @ ELSE work[p].quantity]

Become(p, request) == work' = [work EXCEPT ![p] = request]

\* A flush holds the trade's row, and the key of its leg, until the commit.
Holds(p, t) == work[p].pc \in {"evaluate", "commit"} /\ work[p].trade = t

-----------------------------------------------------------------------------
(* Requests.                                                               *)

Request(p, kind, t, newLeg, tonnes, spread) ==
    Become(p, [Idle EXCEPT !.pc = "flush", !.kind = kind, !.trade = t, !.leg = newLeg,
                           !.quantity = tonnes, !.spread = spread])

\* attach_sales_leg, by a person who has found the trade or by a confident
\* match: the copy it has read shows no leg and no lock, and that nothing was
\* bought has to be acknowledged.  A quantity already known stays.
Attach(p, t, newLeg, tonnes) ==
    /\ work[p] = Idle /\ t \in exists
    /\ leg[t] = NoLeg /\ t \notin locked
    /\ Request(p, "attach", t, newLeg, IF quantity[t] = Unset THEN tonnes ELSE Unset, TRUE)
    /\ asked' = IF t \in Bought THEN asked ELSE asked \cup {t}
    /\ UNCHANGED <<exists, leg, seller, quantity, shown, locked, changes>>

\* create_sales_transaction, when a confirmed sales document matches nothing.
Sale(p, t, newLeg, tonnes) ==
    /\ work[p] = Idle /\ t \notin exists /\ \A o \in People : work[o].trade # t
    /\ Request(p, "sale", t, newLeg, tonnes, TRUE)
    /\ UNCHANGED <<exists, leg, seller, quantity, shown, asked, locked, changes>>

\* correct_fields of the workspace, or of the exception queue, which leaves
\* the other trades of the contract to themselves.
Correct(p, t, field, newLeg, tonnes, channel) ==
    /\ work[p] = Idle /\ leg[t] # NoLeg /\ t \notin locked
    /\ changes < MaxChanges /\ changes' = changes + 1
    /\ Request(p, field, t, newLeg, IF field = "quantity" THEN tonnes ELSE Unset,
               channel = "workspace")
    /\ UNCHANGED <<exists, leg, seller, quantity, shown, asked, locked>>

\* A document linked to the trade: it is validated again, and a quantity nobody
\* knew before is filled in.
Validate(p, t, tonnes) ==
    /\ work[p] = Idle /\ leg[t] # NoLeg /\ "document" \in Channels
    /\ changes < MaxChanges /\ changes' = changes + 1
    /\ Request(p, "validate", t, NoLeg, IF quantity[t] = Unset THEN tonnes ELSE Unset, FALSE)
    /\ UNCHANGED <<exists, leg, seller, quantity, shown, asked, locked>>

\* The first flush waits for whoever holds the trade; a second leg is refused.
Flush(p) ==
    /\ work[p].pc = "flush"
    /\ \A o \in People \ {p} : ~Holds(o, work[p].trade)
    /\ IF work[p].kind = "attach" /\ leg[work[p].trade] # NoLeg
       THEN Become(p, Idle)
       ELSE Become(p, [work[p] EXCEPT !.pc = "evaluate"])
    /\ UNCHANGED <<exists, leg, seller, quantity, shown, asked, locked, changes>>

\* Slip: only the trade itself is evaluated.
EvaluateOwn(p) ==
    LET t == work[p].trade
    IN /\ work[p].pc = "evaluate"
       /\ Become(p, [work[p] EXCEPT !.pc = "commit",
                        !.found = [s \in {t} |-> Coverage(LegsOf(p), TonnesOf(p), NewLeg(p).contract)]])
       /\ UNCHANGED <<exists, leg, seller, quantity, shown, asked, locked, changes>>

\* run_validation on the trade, then propagate_coverage to its siblings.
Evaluate(p) ==
    LET t == work[p].trade
        c == NewLeg(p).contract
        told == IF work[p].spread THEN OnContract(LegsOf(p), c) ELSE {t}
    IN /\ work[p].pc = "evaluate"
       /\ Become(p, [work[p] EXCEPT !.pc = "commit",
                        !.found = [s \in told |-> Coverage(LegsOf(p), TonnesOf(p), c)]])
       /\ UNCHANGED <<exists, leg, seller, quantity, shown, asked, locked, changes>>

Commit(p) ==
    LET t == work[p].trade
        found == work[p].found
    IN /\ work[p].pc = "commit" /\ Become(p, Idle)
       /\ exists' = exists \cup {t}
       /\ leg' = LegsOf(p) /\ quantity' = TonnesOf(p)
       /\ seller' = [seller EXCEPT ![t] = IF work[p].kind \in {"attach", "sale"} THEN p ELSE @]
       /\ shown' = [s \in Trades |-> IF s \in DOMAIN found THEN found[s] ELSE shown[s]]
       /\ UNCHANGED <<asked, locked, changes>>

\* The trade goes for approval, or comes back from it.
Lock(t) ==
    /\ t \in exists
    /\ locked' = IF t \in locked THEN locked \ {t} ELSE locked \cup {t}
    /\ UNCHANGED <<exists, leg, seller, quantity, shown, asked, work, changes>>

Next ==
    \/ \E t \in Trades : Lock(t)
    \/ \E p \in People, t \in Trades, newLeg \in Legs, tonnes \in Quantities :
        \/ Attach(p, t, newLeg, tonnes) \/ Sale(p, t, newLeg, tonnes)
        \/ \E field \in Fields, channel \in Channels \ {"document"} :
              Correct(p, t, field, newLeg, tonnes, channel)
    \/ \E p \in People, t \in Trades, tonnes \in Quantities \cup {Unset} : Validate(p, t, tonnes)
    \/ \E p \in People : Flush(p) \/ Evaluate(p) \/ Commit(p)

Spec == Init /\ [][Next]_vars

-----------------------------------------------------------------------------
Sold == {t \in Trades : leg[t] # NoLeg}

\* What SL-01 shows on a trade is what its contract now stands at: no trade
\* shows yesterday's result after a sibling's figures have moved.
CoverageAgrees ==
    \A t \in Sold : shown[t] = Coverage(leg, quantity, leg[t].contract)

\* A contract that is invoiced beyond what it covers shows so on one of its
\* trades at least, whichever way the figures came to be what they are.
OverIsNoticed ==
    \A c \in Contracts :
        Coverage(leg, quantity, c).state = "over" =>
            \E t \in OnContract(leg, c) : shown[t].state = "over"

\* Two sessions that sell one batch: the first leg stands.
FirstSaleStands ==
    [][\A t \in Trades : seller[t] # "none" => seller'[t] = seller[t]]_vars

LoneSales == (\A p, q \in People : p = q) /\ "contract" \notin Fields

\* One person at a time, and no trade moved to another contract: a contract
\* invoiced beyond its cover shows so on a trade of it, and where nothing but
\* the workspace changes figures every trade shows what its contract stands at.
CoverageIsShown ==
    LoneSales => OverIsNoticed /\ (Channels = {"workspace"} => CoverageAgrees)

\* sales_service.py: a trade with nothing bought is sold only when somebody has
\* said that there is no purchase.  Not so for a sale that opens its trade.
SaleIsAcknowledged == \A t \in Sold \ Bought : t \in asked

-----------------------------------------------------------------------------
(* The inductive invariants behind FirstSaleStands and CoverageIsShown      *)
(* (proved in TradeProofs).                                                *)

Working(p) == work[p].pc # "idle"
Selling(p) == Working(p) /\ work[p].kind \in {"attach", "sale"}

\* What a request has come to while no other session holds its trade.
Shape(p) ==
    /\ DOMAIN work = People /\ "found" \in DOMAIN work[p]
    /\ work[p].pc \in {"idle", "flush", "evaluate", "commit"}
    /\ Working(p) => work[p].trade \in Trades
    /\ Selling(p) => work[p].leg \in Legs
    /\ Working(p) /\ ~Selling(p) =>
          /\ work[p].kind \in {"quantity", "contracted", "contract", "validate"}
          /\ work[p].kind \in {"contracted", "contract"} => work[p].leg \in Legs
          /\ leg[work[p].trade] # NoLeg
    /\ Selling(p) /\ work[p].pc \in {"evaluate", "commit"} => leg[work[p].trade] = NoLeg
    /\ Working(p) /\ work[p].kind = "sale" =>
          /\ work[p].trade \notin exists
          /\ \A o \in People \ {p} : ~(Working(o) /\ work[o].trade = work[p].trade)

SalesInv ==
    /\ leg \in [Trades -> Legs \cup {NoLeg}]
    /\ seller \in [Trades -> People \cup {"none"}]
    /\ exists \subseteq Trades /\ DOMAIN quantity = Trades /\ DOMAIN shown = Trades
    /\ \A t \in Trades : leg[t] # NoLeg => t \in exists
    /\ \A t \in Trades : seller[t] # "none" => leg[t] # NoLeg
    /\ \A p \in People : Shape(p)
    /\ \A p, q \in People, t \in Trades : Holds(p, t) /\ Holds(q, t) => p = q

\* What a lone session is about to record of its contract is so.
Current(p) ==
    LET c == NewLeg(p).contract
        found == work[p].found
    IN /\ work[p].trade \in DOMAIN found
       /\ work[p].spread => DOMAIN found = OnContract(LegsOf(p), c)
       /\ DOMAIN found \subseteq OnContract(LegsOf(p), c)
       /\ \A t \in DOMAIN found : found[t] = Coverage(LegsOf(p), TonnesOf(p), c)

FoundIsCurrent == \A p \in People : work[p].pc = "commit" => Current(p)

ShownInv ==
    /\ \A p \in People : work[p].kind # "contract"
    /\ FoundIsCurrent
    /\ OverIsNoticed
    /\ Channels = {"workspace"} =>
          CoverageAgrees /\ \A p \in People : Working(p) => work[p].spread
=============================================================================
