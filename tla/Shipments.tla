------------------------------- MODULE Shipments -------------------------------
(***************************************************************************)
(* Where the cargo of the trades is (backend/app/services/logistics, the   *)
(* shipment worker and api/v1/shipments.py).                               *)
(*                                                                         *)
(* A sweep loads its shipments once and works on those copies in a single  *)
(* transaction, with a carrier's answer awaited for each; a person's       *)
(* request does the same with one shipment.  What differs from the copy is *)
(* written: the row is locked from that write to the commit, and a column  *)
(* that another session has changed since the copy is written over.        *)
(***************************************************************************)
EXTENDS Integers, FiniteSets

CONSTANTS
    Ships, Trades, TradeOf,   \* shipments and the trade of each
    Tracked,                  \* those a registered adapter handles
    Replicas, People,
    Readings,                 \* what a carrier or a person may say
    Kinds,                    \* what a person may say of the bill of lading
    Limit,                    \* SHIPMENT_TRACKING_BATCH_SIZE
    StaleDays, FailureLimit, Regression,    \* the configured thresholds
    MaxDay, MaxChanges, MaxFaults           \* bounds

VARIABLES
    ship,      \* shipments
    bill,      \* the bill of lading on record for each
    verdict,   \* by trade, BR-07's answer in the newest validation
    cases,     \* by trade, its open cases of a silent shipment
    sweep,     \* each replica's sweep
    desk,      \* each person's request
    day, changes, faults

vars == <<ship, bill, verdict, cases, sweep, desk, day, changes, faults>>

Unsaid == "unsaid"
Finished == {"discharged", "gate_out", "delivered"}   \* TERMINAL_MILESTONES

NoShip == [open |-> FALSE, status |-> "on_schedule", milestone |-> "booked", eta |-> 0,
           since |-> 0, checked |-> 0, failures |-> 0, flagged |-> FALSE]
Asleep == [pc |-> "asleep", left |-> {}, copy |-> <<>>, new |-> <<>>, opened |-> {}]
Idle == [pc |-> "idle", ship |-> "none", copy |-> NoShip, new |-> NoShip,
         bill |-> "unsaid", verdict |-> FALSE]

Statuses == {"on_schedule", "delayed", "arrived", "exception"}
Milestones ==
    {"booked", "gate_in", "loaded", "departed", "in_transit", "transhipped", "arrived", "unknown"}
        \cup Finished

ShipConstants ==
    /\ TradeOf \in [Ships -> Trades]
    /\ Readings \subseteq [status : Statuses \cup {Unsaid}, milestone : Milestones \cup {Unsaid}, eta : Nat]
    /\ Unsaid \notin Kinds
    /\ StaleDays \in Nat /\ FailureLimit \in Nat /\ Regression \in Nat
    /\ MaxDay \in Nat \ {0} /\ MaxChanges \in Nat /\ MaxFaults \in Nat

TypeOK ==
    /\ DOMAIN ship = Ships /\ DOMAIN bill = Ships
    /\ \A s \in Ships :
        /\ ship[s].open \in BOOLEAN /\ ship[s].flagged \in BOOLEAN
        /\ ship[s].status \in Statuses /\ ship[s].milestone \in Milestones
        /\ ship[s].since \in 0..MaxDay /\ ship[s].checked \in 0..MaxDay
        /\ ship[s].failures \in 0..FailureLimit + 1
        /\ bill[s] \in {"none"} \cup Kinds
    /\ verdict \in [Trades -> BOOLEAN] /\ cases \in [Trades -> Nat]
    /\ \A r \in Replicas : sweep[r].pc \in {"asleep", "awake"} /\ sweep[r].left \subseteq Ships
    /\ \A p \in People : desk[p].pc \in {"idle", "loaded", "written"}
    /\ day \in 1..MaxDay /\ changes \in 0..MaxChanges /\ faults \in 0..MaxFaults

Init ==
    /\ ship = [s \in Ships |-> NoShip] /\ bill = [s \in Ships |-> "none"]
    /\ verdict = [t \in Trades |-> FALSE] /\ cases = [t \in Trades |-> 0]
    /\ sweep = [r \in Replicas |-> Asleep] /\ desk = [p \in People |-> Idle]
    /\ day = 1 /\ changes = 0 /\ faults = 0

-----------------------------------------------------------------------------
(* What a reading makes of a shipment.                                     *)

IsActive(row) == row.open /\ row.status # "arrived" /\ row.milestone # "delivered"

DaysSilent(row) == day - (IF row.checked = 0 THEN row.since ELSE row.checked)
Overdue(row) == DaysSilent(row) >= StaleDays \/ row.failures >= FailureLimit

\* Slip: only the date is judged.
PlausibleForward(row, said) == ~(said.eta # 0 /\ row.eta # 0 /\ row.eta - said.eta > Regression)

Plausible(row, said) ==
    /\ ~(said.eta # 0 /\ row.eta # 0 /\ row.eta - said.eta > Regression)
    /\ ~(said.milestone # Unsaid /\ row.milestone \in Finished /\ said.milestone \notin Finished)

\* Slip: what is not said is written as well.
SaidEntirely(row, said) ==
    [row EXCEPT !.status = said.status, !.milestone = said.milestone, !.eta = said.eta]

Said(row, said) ==
    [row EXCEPT !.status = IF said.status = Unsaid THEN @ ELSE said.status,
                !.milestone = IF said.milestone = Unsaid THEN @ ELSE said.milestone,
                !.eta = IF said.eta = 0 THEN @ ELSE said.eta]

\* A believable update that changes something and names a milestone takes the
\* flag away; whatever is said counts as a check.
Updated(row, said) ==
    LET changed == Said(row, said) # row IN
    [Said(row, said) EXCEPT
        !.flagged = ~Plausible(row, said) \/ (@ /\ ~(changed /\ said.milestone # Unsaid)),
        !.checked = day, !.failures = 0]

\* A refusal is no check.
Refused(row) == [row EXCEPT !.failures = IF @ > FailureLimit THEN @ ELSE @ + 1]

\* The columns in which the session's row differs from its copy.
Written(now, copy, new) ==
    [c \in DOMAIN now |-> IF new[c] # copy[c] THEN new[c] ELSE now[c]]

-----------------------------------------------------------------------------
(* The sweep of a replica.                                                 *)

LockedBySweep(s) == \E r \in Replicas : s \in DOMAIN sweep[r].new
LockedAtDesk(s) == \E p \in People : desk[p].pc = "written" /\ desk[p].ship = s
Free(s) == ~LockedBySweep(s) /\ ~LockedAtDesk(s)

\* Those never checked first, then the longest unchecked.
Listed == {s \in Ships : ship[s].open /\ ship[s].status # "arrived"}
First(chosen) ==
    /\ chosen \subseteq Listed
    /\ Cardinality(chosen) = IF Cardinality(Listed) < Limit THEN Cardinality(Listed) ELSE Limit
    /\ \A s \in chosen, o \in Listed \ chosen : ship[s].checked <= ship[o].checked

\* active_shipments: the limit first, the finished ones are dropped after it.
BeginSweep(r) ==
    /\ sweep[r] = Asleep
    /\ \E chosen \in SUBSET Ships :
        /\ First(chosen)
        /\ sweep' = [sweep EXCEPT ![r] =
            [Asleep EXCEPT !.pc = "awake", !.left = {s \in chosen : IsActive(ship[s])},
                           !.copy = [s \in chosen |-> ship[s]]]]
    /\ UNCHANGED <<ship, bill, verdict, cases, desk, day, changes, faults>>

\* open_stale_case, unless the session sees an open case of the trade.
Reported(r, s, row) ==
    IF Overdue(row) /\ cases[TradeOf[s]] = 0
    THEN sweep[r].opened \cup {TradeOf[s]} ELSE sweep[r].opened

\* With no adapter there is nothing to ask and nothing of the row is written.
Pass(r, s) ==
    /\ s \in sweep[r].left /\ s \notin Tracked
    /\ \A o \in sweep[r].left : sweep[r].copy[s].checked <= sweep[r].copy[o].checked
    /\ sweep' = [sweep EXCEPT ![r].left = @ \ {s},
                              ![r].opened = Reported(r, s, sweep[r].copy[s])]
    /\ UNCHANGED <<ship, bill, verdict, cases, desk, day, changes, faults>>

Ask(r, s) ==
    /\ s \in sweep[r].left \cap Tracked /\ Free(s)
    /\ \A o \in sweep[r].left : sweep[r].copy[s].checked <= sweep[r].copy[o].checked
    /\ \E row \in {Updated(sweep[r].copy[s], said) : said \in Readings}
                    \cup {Refused(sweep[r].copy[s])} :
        sweep' = [sweep EXCEPT
            ![r].left = @ \ {s}, ![r].opened = Reported(r, s, row),
            ![r].new = [o \in DOMAIN @ \cup {s} |-> IF o = s THEN row ELSE @[o]]]
    /\ UNCHANGED <<ship, bill, verdict, cases, desk, day, changes, faults>>

CommitSweep(r) ==
    /\ sweep[r].pc = "awake" /\ sweep[r].left = {}
    /\ ship' = [s \in Ships |-> IF s \in DOMAIN sweep[r].new
                                THEN Written(ship[s], sweep[r].copy[s], sweep[r].new[s])
                                ELSE ship[s]]
    /\ cases' = [t \in Trades |-> IF t \in sweep[r].opened THEN cases[t] + 1 ELSE cases[t]]
    /\ sweep' = [sweep EXCEPT ![r] = Asleep]
    /\ UNCHANGED <<bill, verdict, desk, day, changes, faults>>

\* The database or a deadlock ends the sweep; the worker tries again later.
AbandonSweep(r) ==
    /\ sweep[r].pc = "awake" /\ faults < MaxFaults /\ faults' = faults + 1
    /\ sweep' = [sweep EXCEPT ![r] = Asleep]
    /\ UNCHANGED <<ship, bill, verdict, cases, desk, day, changes>>

Sweep(r) == BeginSweep(r) \/ CommitSweep(r) \/ \E s \in Ships : Pass(r, s) \/ Ask(r, s)

-----------------------------------------------------------------------------
(* The logistics desk.                                                     *)

Become(p, request) == desk' = [desk EXCEPT ![p] = request]
Worked == changes < MaxChanges /\ changes' = changes + 1

\* create_shipment, with or without an arrival date.
Create(s) ==
    /\ ~ship[s].open /\ Worked
    /\ \E eta \in {0} \cup {said.eta : said \in Readings} :
        LET new == [NoShip EXCEPT !.open = TRUE, !.since = day] IN
        ship' = [ship EXCEPT ![s] =
            IF eta = 0 THEN new
            ELSE Updated(new, [status |-> Unsaid, milestone |-> Unsaid, eta |-> eta])]
    /\ UNCHANGED <<bill, verdict, cases, sweep, desk, day, faults>>

Load(p, s) ==
    /\ desk[p] = Idle /\ ship[s].open /\ Worked
    /\ Become(p, [Idle EXCEPT !.pc = "loaded", !.ship = s, !.copy = ship[s]])
    /\ UNCHANGED <<ship, bill, verdict, cases, sweep, day, faults>>

\* refresh_shipment with an answer or a refusal, and a hand-typed update.
Write(p) ==
    /\ desk[p].pc = "loaded" /\ Free(desk[p].ship)
    /\ \E row \in {Updated(desk[p].copy, said) : said \in Readings}
            \cup (IF desk[p].ship \in Tracked THEN {Refused(desk[p].copy)} ELSE {}) :
        Become(p, [desk[p] EXCEPT !.pc = "written", !.new = row])
    /\ UNCHANGED <<ship, bill, verdict, cases, sweep, day, changes, faults>>

\* BR-07 asks the bills that the session sees.
FinalBillHeld(t, known) == \E s \in Ships : TradeOf[s] = t /\ known[s] = "received"

\* update_shipment with a bill: its type, and whether the original is in hand.
WriteBill(p, kind) ==
    /\ desk[p].pc = "loaded" /\ Free(desk[p].ship) /\ kind \in Kinds
    /\ \E row \in {Updated(desk[p].copy, said) : said \in Readings} :
        Become(p, [desk[p] EXCEPT !.pc = "written", !.new = row, !.bill = kind,
                       !.verdict = FinalBillHeld(TradeOf[desk[p].ship],
                                                 [bill EXCEPT ![desk[p].ship] = kind])])
    /\ UNCHANGED <<ship, bill, verdict, cases, sweep, day, changes, faults>>

CommitDesk(p) ==
    /\ desk[p].pc = "written"
    /\ ship' = [ship EXCEPT ![desk[p].ship] = Written(@, desk[p].copy, desk[p].new)]
    /\ bill' = IF desk[p].bill = "unsaid" THEN bill
               ELSE [bill EXCEPT ![desk[p].ship] = desk[p].bill]
    /\ verdict' = IF desk[p].bill = "unsaid" THEN verdict
                  ELSE [verdict EXCEPT ![TradeOf[desk[p].ship]] = desk[p].verdict]
    /\ Become(p, Idle)
    /\ UNCHANGED <<cases, sweep, day, changes, faults>>

Serve(p) ==
    Write(p) \/ CommitDesk(p) \/ \E kind \in Kinds : WriteBill(p, kind)

\* The owner of the case closes it.
CloseCase(t) ==
    /\ cases[t] > 0 /\ Worked /\ cases' = [cases EXCEPT ![t] = 0]
    /\ UNCHANGED <<ship, bill, verdict, sweep, desk, day, faults>>

DayPasses ==
    /\ day < MaxDay /\ day' = day + 1
    /\ UNCHANGED <<ship, bill, verdict, cases, sweep, desk, changes, faults>>

Next ==
    \/ \E r \in Replicas : Sweep(r) \/ AbandonSweep(r)
    \/ \E p \in People : Serve(p) \/ \E s \in Ships : Load(p, s)
    \/ \E s \in Ships : Create(s)
    \/ \E t \in Trades : CloseCase(t)
    \/ DayPasses

Spec == Init /\ [][Next]_vars

-----------------------------------------------------------------------------
\* However many shipments of a trade fall silent, its desk has one reminder.
\* Of one replica: each replica looks only at the cases it can see.
OneReminder == \A t \in Trades : cases[t] <= 1

\* Cargo that had finished a stage is not reported as under way again without
\* the flag that asks somebody to look.  Of one writer at a time: the check
\* is made against the writer's copy.
RegressionIsFlagged ==
    \A s \in Ships :
        ship[s].milestone \in Finished /\ ship'[s].milestone \notin Finished => ship'[s].flagged

\* The newest validation of a trade agrees with the bills that are in hand.
\* Of one person at a time.
VerdictKnowsTheBill == \A t \in Trades : verdict[t] = FinalBillHeld(t, bill)

\* A count of failed attempts that has reached its limit belongs to a shipment
\* nobody has established anything about since: a check begins the count anew.
CheckEndsTheCount ==
    \A s \in Ships : ship'[s].checked # ship[s].checked => ship'[s].failures <= 1

\* A shipment that nobody has established anything about for too long comes
\* to the desk as a case, or is found, or finished.
SilenceIsReported ==
    \A s \in Ships :
        (IsActive(ship[s]) /\ Overdue(ship[s]) /\ cases[TradeOf[s]] = 0)
            ~> (cases[TradeOf[s]] > 0 \/ ~Overdue(ship[s]) \/ ~IsActive(ship[s]))

-----------------------------------------------------------------------------
(* Why: what sweeps and requests carry.                                    *)

ShipRow ==
    [open : BOOLEAN, status : Statuses, milestone : Milestones, eta : Nat, since : 0..MaxDay,
     checked : 0..MaxDay, failures : 0..FailureLimit + 1, flagged : BOOLEAN]

\* A sweep that has loaded some shipments and has written some.
SweepOf(loaded, touched) ==
    [pc : {"asleep", "awake"}, left : SUBSET loaded, copy : [loaded -> ShipRow],
     new : [touched -> ShipRow], opened : SUBSET Trades]
DeskRow ==
    [pc : {"idle", "loaded", "written"}, ship : Ships \cup {"none"}, copy : ShipRow, new : ShipRow,
     bill : Kinds \cup {Unsaid}, verdict : BOOLEAN]

\* What a session makes of its copy.
Noted(copy, new) ==
    /\ new.open = copy.open
    /\ new.checked # copy.checked => new.failures = 0
    /\ copy.milestone \in Finished /\ new.milestone \notin Finished => new.flagged

SoundShip(row) == row \in ShipRow /\ (row.open \/ row = NoShip)

SoundSweep(w) ==
    \E loaded \in SUBSET Ships : \E touched \in SUBSET loaded :
        /\ w \in SweepOf(loaded, touched)
        /\ \A s \in touched : Noted(w.copy[s], w.new[s])

SoundRequest(d) ==
    /\ d \in DeskRow
    /\ d.pc # "idle" => d.ship \in Ships
    /\ IF d.pc = "written" THEN Noted(d.copy, d.new) ELSE d.bill = Unsaid

\* Nobody closes a shipment.
LoadedIsOpen ==
    /\ \A r \in Replicas : \A s \in DOMAIN sweep[r].copy : ship[s].open
    /\ \A p \in People : desk[p].pc # "idle" => ship[desk[p].ship].open

ShipInv ==
    /\ DOMAIN ship = Ships /\ \A s \in Ships : SoundShip(ship[s])
    /\ bill \in [Ships -> {"none"} \cup Kinds]
    /\ verdict \in [Trades -> BOOLEAN] /\ cases \in [Trades -> Nat]
    /\ DOMAIN sweep = Replicas /\ \A r \in Replicas : SoundSweep(sweep[r])
    /\ DOMAIN desk = People /\ \A p \in People : SoundRequest(desk[p])
    /\ LoadedIsOpen
    /\ day \in 1..MaxDay /\ changes \in 0..MaxChanges /\ faults \in 0..MaxFaults

OneSweep == \A q, r \in Replicas : q = r
OneDesk == \A p, q \in People : p = q
OneWriter == OneSweep /\ OneDesk /\ (Replicas = {} \/ People = {})

\* With one sweep, whatever it opens a case for has none.
OpensWhatIsMissing == \A r \in Replicas : \A t \in sweep[r].opened : cases[t] = 0

\* With one person, what the request found of the bills is so once it commits.
VerdictInHand ==
    \A p \in People :
        desk[p].pc = "written" /\ desk[p].bill # Unsaid =>
            desk[p].verdict = FinalBillHeld(TradeOf[desk[p].ship],
                                            [bill EXCEPT ![desk[p].ship] = desk[p].bill])

\* With one writer, a copy is the row.
CopiesAreCurrent ==
    /\ \A r \in Replicas : \A s \in DOMAIN sweep[r].copy : sweep[r].copy[s] = ship[s]
    /\ \A p \in People : desk[p].pc # "idle" => desk[p].copy = ship[desk[p].ship]
=============================================================================
