---------------------------- MODULE ApprovalDesk ----------------------------
(***************************************************************************)
(* From the preparing desk to the approver's signature: correcting the     *)
(* figures of a trade, acknowledging a tolerance breach, submitting it,    *)
(* matching a late document to it, and deciding it alone or in a bulk      *)
(* (backend/app/api/v1/transactions.py, approvals.py,                      *)
(* services/governance/approval_service.py, services/rules/engine.py).     *)
(*                                                                         *)
(* Every request is one database session under READ COMMITTED.  It loads   *)
(* the trade without a lock, works on that copy, and locks the trade's row *)
(* with its first flush; what it then writes are the columns that differ   *)
(* from its copy.  A decision locks the approval task first.               *)
(*                                                                         *)
(* The figures are abstracted to a value per combination the checks tell   *)
(* apart, and the checks to a single one that passes them, flags them as   *)
(* a tolerance a person may acknowledge, or fails them.                    *)
(***************************************************************************)
EXTENDS Integers, FiniteSets

CONSTANTS
    Trades,      \* trade transactions
    Tasks,       \* approval tasks that can be raised: bounds the submissions
    Figures,     \* what the checks tell apart
    Passing,     \* figures every check passes
    Tolerable,   \* figures a person may acknowledge
    Preparers,   \* accounts of the preparing desks
    Approvers,   \* accounts that may decide; one may also prepare
    Matchers,    \* workers that match incoming documents to trades
    MaxBatch     \* approvals asked for in one bulk request

ASSUME DeskConstants ==
    /\ Passing \subseteq Figures
    /\ Tolerable \subseteq Figures \ Passing
    /\ Figures # {} /\ Trades # {} /\ Tasks # {}
    /\ MaxBatch \in Nat \ {0}
    /\ Matchers \cap (Preparers \cup Approvers) = {}
    /\ "none" \notin Preparers \cup Approvers

Sessions == Preparers \cup Approvers \cup Matchers
Users == Preparers \cup Approvers
Nobody == "none"

\* TransactionStatus as far as the desk tells it apart: integration_pending
\* stands for committed too, which no guard here distinguishes from it, and
\* `approved` never outlives the session that writes it.
DeskStatus == {"validation_pending", "approval_pending", "integration_pending"}
LockedStatuses == {"approval_pending"}      \* LOCKED_STATUSES
TerminalStatuses == {"approval_pending"}    \* TERMINAL_STATUSES

Decisions == {"unraised", "pending", "approved", "rejected"}
TaskRow == [trade : Trades, decision : Decisions, by : Users \cup {Nobody}]

\* The newest row of rule_evaluations.
Evaluation == [of : Figures, passed : BOOLEAN, acknowledged : BOOLEAN]

Work == {"none", "correct", "match", "acknowledge", "submit", "decide"}

\* What a session keeps in hand between its statements.
Note == [work   : Work,
         trade  : Trades,
         figs   : Figures,        \* the figures it evaluates
         status : DeskStatus,     \* its copy of the status,
         by     : Users \cup {Nobody},   \* and of the submitter
         base   : Evaluation,     \* the newest evaluation it read
         row    : Evaluation,     \* the one it will add
         task   : Tasks,          \* the approval task it decides
         found  : Decisions]      \* and the decision it found on it

VARIABLES
    \* committed rows
    status, figures, submitter, latest, task,
    accepted,    \* figures whose breach the trail says a person acknowledged
    validated,   \* figures the last successful submission evaluated
    \* each session
    pc, note,
    todo,        \* tasks a bulk request has still to look at
    held,        \* tasks it has locked
    picks,       \* tasks it has decided and not committed
    verdict      \* what it decides on them

trade == <<status, figures, submitter, latest, accepted, validated>>
session == <<pc, note, todo, held, picks, verdict>>
vars == <<trade, task, session>>

-----------------------------------------------------------------------------
\* Slip: an acknowledgement carried whatever the figures have become.
CarriesAnyAcknowledgement(previous, f) == previous.acknowledged /\ f \in Tolerable

\* _carries_acknowledgement: only while the numbers behind it have not moved.
CarriesAcknowledgement(previous, f) ==
    previous.acknowledged /\ previous.of = f

\* run_validation's row for figures f after the row `previous`.
Evaluate(f, previous) ==
    [of           |-> f,
     passed       |-> f \in Passing \/ CarriesAcknowledgement(previous, f),
     acknowledged |-> CarriesAcknowledgement(previous, f)]

\* The status column after run_validation: written only where it differs from
\* the session's own copy.
Validated(s) ==
    IF note[s].status \in TerminalStatuses \cup {"validation_pending"}
    THEN status[note[s].trade] ELSE "validation_pending"

\* Rows are ordered by evaluated_at, which is taken before the trade's row is
\* locked: a row committed since this session read the newest may be newer.
Newest(s) ==
    LET stored == latest[note[s].trade]
    IN {note[s].row} \cup (IF stored # note[s].base THEN {stored} ELSE {})

TaskLockedByOther(s, i) == \E r \in Sessions \ {s} : i \in held[r]
TradeLockedByOther(s, t) ==
    \E r \in Sessions \ {s} : \E i \in picks[r] : task[i].trade = t

PendingTasks(t) == {i \in Tasks : task[i].trade = t /\ task[i].decision = "pending"}
Unraised == {i \in Tasks : task[i].decision = "unraised"}

SomeTrade == CHOOSE t \in Trades : TRUE
SomeTask == CHOOSE i \in Tasks : TRUE
NotEvaluated == [of |-> CHOOSE f \in Figures : TRUE, passed |-> FALSE,
                 acknowledged |-> FALSE]
Blank == [work |-> "none", trade |-> SomeTrade, figs |-> NotEvaluated.of,
          status |-> "validation_pending", by |-> Nobody, base |-> NotEvaluated,
          row |-> NotEvaluated, task |-> SomeTask, found |-> "unraised"]

\* Trades that were created and validated, with no approval asked for yet.
Init ==
    /\ status = [t \in Trades |-> "validation_pending"]
    /\ figures \in [Trades -> Figures]
    /\ submitter = [t \in Trades |-> Nobody]
    /\ latest = [t \in Trades |-> Evaluate(figures[t], NotEvaluated)]
    /\ accepted = [t \in Trades |-> {}]
    /\ validated = figures
    /\ task = [i \in Tasks |-> [trade |-> SomeTrade, decision |-> "unraised",
                                by |-> Nobody]]
    /\ pc = [s \in Sessions |-> "idle"]
    /\ note = [s \in Sessions |-> Blank]
    /\ todo = [s \in Sessions |-> {}]
    /\ held = [s \in Sessions |-> {}]
    /\ picks = [s \in Sessions |-> {}]
    /\ verdict = [s \in Sessions |-> "rejected"]

\* The session ends and its locks go.
CloseSession(s) ==
    /\ pc' = [pc EXCEPT ![s] = "idle"]
    /\ note' = [note EXCEPT ![s] = Blank]
    /\ todo' = [todo EXCEPT ![s] = {}]
    /\ held' = [held EXCEPT ![s] = {}]
    /\ picks' = [picks EXCEPT ![s] = {}]
    /\ verdict' = [verdict EXCEPT ![s] = "rejected"]

-----------------------------------------------------------------------------
(* The preparing desk.                                                     *)

\* _load: the trade with its legs, read once and without a lock.
Load(s, t, work, figs) ==
    /\ pc[s] = "idle"
    /\ pc' = [pc EXCEPT ![s] = "loaded"]
    /\ note' = [note EXCEPT ![s] = [Blank EXCEPT !.work = work, !.trade = t,
                                    !.figs = figs, !.status = status[t]]]
    /\ UNCHANGED <<trade, task, todo, held, picks, verdict>>

\* Slip: the correction path without its check of LOCKED_STATUSES.
BeginCorrectionUnlocked(p, t, f) == Load(p, t, "correct", f)

\* correct_fields, or the exception queue's inline correction.
BeginCorrection(p, t, f) ==
    status[t] \notin LockedStatuses /\ Load(p, t, "correct", f)

\* apply_match: no status is looked at on the paths that already know the trade.
BeginMatch(m, t, f) == Load(m, t, "match", f)

BeginAcknowledgement(p, t) ==
    status[t] \notin LockedStatuses /\ Load(p, t, "acknowledge", figures[t])

BeginSubmission(p, t) ==
    /\ status[t] \notin LockedStatuses
    /\ Load(p, t, "submit", figures[t])

\* run_validation's evaluation of a submission or of a match, inserted before
\* the trade's row is locked.
Judge(s) ==
    /\ pc[s] = "loaded" /\ note[s].work \in {"match", "submit"}
    /\ LET previous == latest[note[s].trade]
       IN note' = [note EXCEPT ![s] = [@ EXCEPT !.base = previous,
                        !.row = Evaluate(note[s].figs, previous)]]
    /\ pc' = [pc EXCEPT ![s] = "judged"]
    /\ UNCHANGED <<trade, task, todo, held, picks, verdict>>

\* The failing, acknowledgeable row an acknowledgement answers.
Answer(p) ==
    /\ pc[p] = "loaded" /\ note[p].work = "acknowledge"
    /\ LET previous == latest[note[p].trade]
       IN /\ ~previous.passed /\ previous.of \in Tolerable
          /\ note' = [note EXCEPT ![p] = [@ EXCEPT !.base = previous,
                        !.row = [previous EXCEPT !.passed = TRUE,
                                                 !.acknowledged = TRUE]]]
    /\ pc' = [pc EXCEPT ![p] = "judged"]
    /\ UNCHANGED <<trade, task, todo, held, picks, verdict>>

\* apply_corrections to its commit: the audit entry flushes the new figures and
\* locks the trade before anything is evaluated.
SaveCorrection(p) ==
    /\ pc[p] = "loaded" /\ note[p].work = "correct"
    /\ ~TradeLockedByOther(p, note[p].trade)
    /\ LET t == note[p].trade
       IN /\ figures' = [figures EXCEPT ![t] = note[p].figs]
          /\ latest' = [latest EXCEPT ![t] = Evaluate(note[p].figs, latest[t])]
          /\ status' = [status EXCEPT ![t] = Validated(p)]
    /\ CloseSession(p)
    /\ UNCHANGED <<submitter, accepted, validated, task>>

SaveMatch(m) ==
    /\ pc[m] = "judged" /\ note[m].work = "match"
    /\ ~TradeLockedByOther(m, note[m].trade)
    /\ LET t == note[m].trade
       IN /\ figures' = [figures EXCEPT ![t] = note[m].figs]
          /\ \E newest \in Newest(m) : latest' = [latest EXCEPT ![t] = newest]
          /\ status' = [status EXCEPT ![t] = Validated(m)]
    /\ CloseSession(m)
    /\ UNCHANGED <<submitter, accepted, validated, task>>

SaveAcknowledgement(p) ==
    /\ pc[p] = "judged" /\ note[p].work = "acknowledge"
    /\ ~TradeLockedByOther(p, note[p].trade)
    /\ LET t == note[p].trade
       IN /\ accepted' = [accepted EXCEPT ![t] = @ \cup {note[p].row.of}]
          /\ \E newest \in Newest(p) : latest' = [latest EXCEPT ![t] = newest]
    /\ CloseSession(p)
    /\ UNCHANGED <<status, figures, submitter, validated, task>>

\* A submission that fails its own validation leaves its evaluation behind.
RefuseSubmission(p) ==
    /\ pc[p] = "judged" /\ note[p].work = "submit" /\ ~note[p].row.passed
    /\ ~TradeLockedByOther(p, note[p].trade)
    /\ LET t == note[p].trade
       IN /\ \E newest \in Newest(p) : latest' = [latest EXCEPT ![t] = newest]
          /\ status' = [status EXCEPT ![t] = Validated(p)]
    /\ CloseSession(p)
    /\ UNCHANGED <<figures, submitter, accepted, validated, task>>

\* Slip: a fresh task for every submission.
RaiseAnotherTask(p, t) ==
    \E i \in Unraised :
        task' = [task EXCEPT ![i] = [trade |-> t, decision |-> "pending", by |-> Nobody]]

\* Slip: any earlier task, decided or not, taken for the one that is waiting.
RaiseFirstTask(p, t) ==
    IF \E i \in Tasks \ Unraised : task[i].trade = t THEN UNCHANGED task
    ELSE \E i \in Unraised :
            task' = [task EXCEPT ![i] = [trade |-> t, decision |-> "pending",
                                         by |-> Nobody]]

\* create_task: idempotent on the pending task, looked for after the trade's
\* row was locked.
RaiseTask(p, t) ==
    IF PendingTasks(t) # {} THEN UNCHANGED task
    ELSE \E i \in Unraised :
            task' = [task EXCEPT ![i] = [trade |-> t, decision |-> "pending",
                                         by |-> Nobody]]

SaveSubmission(p) ==
    /\ pc[p] = "judged" /\ note[p].work = "submit" /\ note[p].row.passed
    /\ ~TradeLockedByOther(p, note[p].trade)
    /\ LET t == note[p].trade
       IN /\ \E newest \in Newest(p) : latest' = [latest EXCEPT ![t] = newest]
          /\ status' = [status EXCEPT ![t] = "approval_pending"]
          /\ submitter' = [submitter EXCEPT ![t] = p]
          /\ validated' = [validated EXCEPT ![t] = note[p].figs]
          /\ RaiseTask(p, t)
    /\ CloseSession(p)
    /\ UNCHANGED <<figures, accepted>>

-----------------------------------------------------------------------------
(* The approver.                                                           *)

\* A single decision, or a bulk approval of several.
BeginDecisions(a, batch, decision) ==
    /\ pc[a] = "idle"
    /\ batch # {} /\ Cardinality(batch) <= MaxBatch
    /\ decision = "rejected" => Cardinality(batch) = 1
    /\ todo' = [todo EXCEPT ![a] = batch]
    /\ verdict' = [verdict EXCEPT ![a] = decision]
    /\ note' = [note EXCEPT ![a] = [Blank EXCEPT !.work = "decide"]]
    /\ pc' = [pc EXCEPT ![a] = "deciding"]
    /\ UNCHANGED <<trade, task, held, picks>>

\* Slip: the task read without FOR UPDATE.
TakeTaskUnlocked(a) ==
    /\ pc[a] = "deciding"
    /\ \E i \in todo[a] :
        /\ todo' = [todo EXCEPT ![a] = @ \ {i}]
        /\ note' = [note EXCEPT ![a] = [@ EXCEPT !.task = i, !.trade = task[i].trade,
                                        !.found = task[i].decision]]
    /\ pc' = [pc EXCEPT ![a] = "taken"]
    /\ UNCHANGED <<trade, task, held, picks, verdict>>

\* get_task_for_decision: the row is locked and read as of then.
TakeTask(a) ==
    /\ pc[a] = "deciding"
    /\ \E i \in todo[a] :
        /\ ~TaskLockedByOther(a, i)
        /\ todo' = [todo EXCEPT ![a] = @ \ {i}]
        /\ held' = [held EXCEPT ![a] = @ \cup {i}]
        /\ note' = [note EXCEPT ![a] = [@ EXCEPT !.task = i, !.trade = task[i].trade,
                                        !.found = task[i].decision]]
    /\ pc' = [pc EXCEPT ![a] = "taken"]
    /\ UNCHANGED <<trade, task, picks, verdict>>

\* _load_transaction: the trade behind the task, without a lock.
LoadTrade(a) ==
    /\ pc[a] = "taken"
    /\ note' = [note EXCEPT ![a] = [@ EXCEPT !.status = status[note[a].trade],
                                    !.by = submitter[note[a].trade]]]
    /\ pc' = [pc EXCEPT ![a] = "weighing"]
    /\ UNCHANGED <<trade, task, todo, held, picks, verdict>>

\* Slip: the decision without the maker-checker rule.
MayDecideOwn(a) ==
    note[a].found = "pending" /\ note[a].status = "approval_pending"

\* decide's guards: maker-checker, one decision per task, a trade that waits.
MayDecide(a) ==
    /\ verdict[a] = "approved" => note[a].by # a
    /\ note[a].found = "pending"
    /\ note[a].status = "approval_pending"

\* The flush of a decision, which needs the trade's row lock.
Decide(a) ==
    /\ pc[a] = "weighing" /\ MayDecide(a)
    /\ ~TradeLockedByOther(a, note[a].trade)
    /\ picks' = [picks EXCEPT ![a] = @ \cup {note[a].task}]
    /\ pc' = [pc EXCEPT ![a] = "deciding"]
    /\ UNCHANGED <<trade, task, note, todo, held, verdict>>

\* A guard, a missing reason or confirmation, or a trade outside the lowest
\* risk tier refuses this one; a bulk goes on with the rest.
Refuse(a) ==
    /\ pc[a] = "weighing"
    /\ pc' = [pc EXCEPT ![a] = "deciding"]
    /\ UNCHANGED <<trade, task, note, todo, held, picks, verdict>>

\* Slip: the decision committed without the jobs it should raise.
SaveDecisionsAlone(a) ==
    /\ pc[a] = "deciding" /\ todo[a] = {}
    /\ task' = [i \in Tasks |->
                  IF i \in picks[a]
                  THEN [task[i] EXCEPT !.decision = verdict[a], !.by = a]
                  ELSE task[i]]
    /\ status' = [t \in Trades |->
                    IF \E i \in picks[a] : task[i].trade = t
                    THEN IF verdict[a] = "approved" THEN "approved"
                         ELSE "validation_pending"
                    ELSE status[t]]
    /\ CloseSession(a)
    /\ UNCHANGED <<figures, submitter, latest, accepted, validated>>

\* The one commit of the request, with the jobs the approvals raised.
SaveDecisions(a) ==
    /\ pc[a] = "deciding" /\ todo[a] = {}
    /\ task' = [i \in Tasks |->
                  IF i \in picks[a]
                  THEN [task[i] EXCEPT !.decision = verdict[a], !.by = a]
                  ELSE task[i]]
    /\ status' = [t \in Trades |->
                    IF \E i \in picks[a] : task[i].trade = t
                    THEN IF verdict[a] = "approved" THEN "integration_pending"
                         ELSE "validation_pending"
                    ELSE status[t]]
    /\ CloseSession(a)
    /\ UNCHANGED <<figures, submitter, latest, accepted, validated>>

\* The request fails, is cancelled, or is the victim of a lock cycle.
Abandon(s) ==
    /\ pc[s] # "idle"
    /\ CloseSession(s)
    /\ UNCHANGED <<trade, task>>

-----------------------------------------------------------------------------
AtTheDesk(p) ==
    \/ \E t \in Trades, f \in Figures : BeginCorrection(p, t, f)
    \/ \E t \in Trades : BeginAcknowledgement(p, t) \/ BeginSubmission(p, t)
    \/ Answer(p) \/ SaveCorrection(p) \/ SaveAcknowledgement(p)
    \/ RefuseSubmission(p) \/ SaveSubmission(p)

AtTheApproval(a) ==
    \/ \E batch \in SUBSET (Tasks \ Unraised), decision \in {"approved", "rejected"} :
          BeginDecisions(a, batch, decision)
    \/ TakeTask(a) \/ LoadTrade(a) \/ Decide(a) \/ Refuse(a) \/ SaveDecisions(a)

Matching(m) ==
    \/ \E t \in Trades, f \in Figures : BeginMatch(m, t, f)
    \/ SaveMatch(m)

Next ==
    \/ \E p \in Preparers : AtTheDesk(p)
    \/ \E a \in Approvers : AtTheApproval(a)
    \/ \E m \in Matchers : Matching(m)
    \/ \E s \in Sessions : Judge(s) \/ Abandon(s)

Spec == Init /\ [][Next]_vars

-----------------------------------------------------------------------------
TypeOK ==
    /\ status \in [Trades -> DeskStatus]
    /\ figures \in [Trades -> Figures]
    /\ submitter \in [Trades -> Users \cup {Nobody}]
    /\ latest \in [Trades -> Evaluation]
    /\ task \in [Tasks -> TaskRow]
    /\ accepted \in [Trades -> SUBSET Figures]
    /\ validated \in [Trades -> Figures]
    /\ pc \in [Sessions -> {"idle", "loaded", "judged", "deciding", "taken", "weighing"}]
    /\ note \in [Sessions -> Note]
    /\ todo \in [Sessions -> SUBSET Tasks]
    /\ held \in [Sessions -> SUBSET Tasks]
    /\ picks \in [Sessions -> SUBSET Tasks]
    /\ verdict \in [Sessions -> {"approved", "rejected"}]

\* A trade waits on at most one open approval task, though create_task looks
\* before it inserts and no index forbids a second: the trade's row lock, taken
\* by run_validation's flush, is what serialises two submissions.
OneOpenTask ==
    \A i, k \in Tasks :
        /\ task[i].decision = "pending" /\ task[k].decision = "pending"
        /\ task[i].trade = task[k].trade
        => i = k

\* A trade that waits for approval has an open task for somebody to decide, in
\* every order of a stale submission and a decision.
AwaitingHasTask ==
    \A t \in Trades : status[t] = "approval_pending" => PendingTasks(t) # {}

\* What a submission passed on is figures that every check passes or a breach
\* that a person acknowledged for exactly those figures.
SubmissionIsClean ==
    \A t \in Trades : status[t] = "approval_pending" =>
        validated[t] \in Passing \/ validated[t] \in accepted[t]

\* While it waits, a trade keeps the figures its submission validated.
SignedAsValidated ==
    \A t \in Trades : status[t] = "approval_pending" => figures[t] = validated[t]

-----------------------------------------------------------------------------
\* A task is decided once: two approvers never both write it.
DecisionIsFinal ==
    [][\A i \in Tasks : task[i].decision \in {"approved", "rejected"}
                            => task'[i] = task[i]]_vars

\* Whoever approves a trade is not who last submitted it.
NeverOwnSubmission ==
    [][\A i \in Tasks :
          task[i].decision = "pending" /\ task'[i].decision = "approved"
            => task'[i].by # submitter[task[i].trade]]_vars

\* A trade that was approved does not return to the preparing desk.  Not so: a
\* validation run moves it back.
DecidedIsNotDraggedBack ==
    [][\A t \in Trades : status[t] = "integration_pending"
                            => status'[t] = "integration_pending"]_vars

-----------------------------------------------------------------------------
(* The inductive invariant behind the safety properties (proved in         *)
(* ApprovalDeskProofs).                                                    *)

\* A task is locked by one session, which alone decides it; what a session has
\* in hand while it weighs a task is still what the row says.
Holds(a) ==
    /\ picks[a] \subseteq held[a]
    /\ held[a] \cap Unraised = {}
    /\ todo[a] \cap Unraised = {}
    /\ pc[a] \notin {"deciding", "taken", "weighing"} => held[a] = {}
    /\ pc[a] \in {"taken", "weighing"} =>
          /\ note[a].task \in held[a]
          /\ note[a].trade = task[note[a].task].trade
          /\ note[a].found = task[note[a].task].decision
    /\ \A i \in picks[a] : task[i].decision = "pending"

TaskLocks ==
    /\ \A a \in Sessions : Holds(a)
    /\ \A a, b \in Sessions : a # b => held[a] \cap held[b] = {}

\* An acknowledged row is about figures somebody acknowledged.
Grounded(r, t) ==
    /\ r.passed => r.of \in Passing \/ r.acknowledged
    /\ r.acknowledged => r.of \in accepted[t]

Evaluations ==
    /\ \A t \in Trades : Grounded(latest[t], t)
    /\ \A s \in Sessions : pc[s] = "judged" =>
          /\ note[s].work = "submit" => note[s].row.of = note[s].figs
          /\ note[s].work = "acknowledge" => note[s].row.acknowledged
          /\ note[s].work # "acknowledge" => Grounded(note[s].row, note[s].trade)

\* Nobody holds an approval of a trade they have submitted themselves.
Maker(a) ==
    verdict[a] = "approved" =>
        /\ \A i \in picks[a] : submitter[task[i].trade] # a
        /\ pc[a] = "weighing" /\ note[a].by # a => submitter[note[a].trade] # a

MakerChecker == \A a \in Sessions : Maker(a)

\* The corrections and submissions under way are a preparer's, and what they
\* rest on has not moved since they were loaded.  It holds where one preparer
\* works and no late document arrives: DeskLateDocument shows it does not
\* otherwise.
LoneDesk ==
    \A s \in Sessions : pc[s] \in {"loaded", "judged"} =>
        /\ s \in Preparers
        /\ note[s].work = "correct" => status[note[s].trade] # "approval_pending"
        /\ note[s].work = "submit" => note[s].figs = figures[note[s].trade]

DeskInv ==
    /\ TypeOK
    /\ TaskLocks
    /\ OneOpenTask
    /\ AwaitingHasTask
    /\ Evaluations
    /\ SubmissionIsClean
    /\ MakerChecker
=============================================================================
