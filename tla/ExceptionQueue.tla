---------------------------- MODULE ExceptionQueue ----------------------------
(***************************************************************************)
(* The queue of exception cases: how validation runs, coverage updates,    *)
(* failures reported by other parts and unanswered approvals open a case,  *)
(* and how a correction, a note or the decision itself closes it           *)
(* (backend/app/services/governance/hooks.py, exception_service.py,        *)
(* api/v1/exceptions.py, services/rules/engine.py).                        *)
(*                                                                         *)
(* A case is opened by looking for an open one of the same category on the *)
(* same trade and inserting one if there is none.  No index forbids a      *)
(* second; a validation run holds the trade's row lock while it looks and  *)
(* inserts, the other openers do not.                                      *)
(*                                                                         *)
(* Figures are abstracted to the result of each check: a run may find any. *)
(* Escalation raises who looks at a case and no guard reads it: left out.  *)
(* A session is one request or worker pass; any session may do any of it.  *)
(***************************************************************************)
EXTENDS Integers, FiniteSets

CONSTANTS
    Trades,       \* trade transactions
    Rules,        \* checks, numbered in the order the registry runs them
    CategoryOf,   \* rule_exception_mappings: the category a failure opens
    Coverage,     \* SL-01, which a trade on the same contract re-evaluates
    Runs,         \* what a validation run may find, a result per check
    Reports,      \* categories opened by other parts of the platform
    Cases,        \* rows of exception_cases that can be opened: a bound
    Sessions,     \* database sessions at work
    MaxRounds     \* bound on the approvals asked for per trade

NoRule == 0
Unmapped == "unmapped"
Ageing == "approval_not_received"
Free == "free"

ASSUME QueueConstants ==
    /\ Rules \subseteq Nat \ {NoRule}
    /\ Coverage \in Rules
    /\ Trades # {}
    /\ MaxRounds \in Nat
    /\ \A r \in Rules : CategoryOf[r] # Ageing /\ CategoryOf[r] \notin Reports
    /\ Ageing # Unmapped /\ Ageing \notin Reports /\ Unmapped \notin Reports
    /\ Free \notin Sessions

\* What one run writes: a check that does not apply gets no row.
Outcomes == [Rules -> {"passes", "fails", "silent"}]

ASSUME QueueRuns == Runs \subseteq Outcomes

RuleCategories == {CategoryOf[r] : r \in Rules} \ {Unmapped}
Categories == RuleCategories \cup Reports \cup {Ageing}

\* The newest row of rule_evaluations for each check of a trade.
Results == [Rules -> {"none", "passes", "fails"}]

\* The newest approval of a trade; overdue is past approval_overdue_hours.
Waits == {"none", "fresh", "overdue", "decided"}
Pending == {"fresh", "overdue"}

CaseRow == [state : {"unopened", "open", "resolved"}, trade : Trades,
            category : Categories, rule : Rules \cup {NoRule},
            round : 0..MaxRounds]

\* What a session keeps in hand.
Note == [trade   : Trades,
         outcome : Outcomes,            \* rows it adds to rule_evaluations
         base    : Results,             \* the results when it evaluated
         missing : SUBSET Categories,   \* it found no open case of these
         items   : SUBSET Cases,        \* open cases it means to close
         round   : 0..MaxRounds]        \* the approval it found waiting

VARIABLES
    result, wait, round, case,   \* committed rows
    passed,     \* cases whose check has passed since they were opened
    owner,      \* who holds the row lock of a trade
    pc, note    \* each session

approval == <<wait, round>>
vars == <<result, wait, round, case, passed, owner, pc, note>>

-----------------------------------------------------------------------------
Unopened == {i \in Cases : case[i].state = "unopened"}

\* existing_open_case, for a trade.
OpenCases(t, c) ==
    {i \in Cases : case[i].state = "open" /\ case[i].trade = t /\ case[i].category = c}

Failing(outcome) == {r \in Rules : outcome[r] = "fails"}

\* Slip: a failure nobody has mapped opens a case all the same.
AnyFailedCategories(outcome) == {CategoryOf[r] : r \in Failing(outcome)}

\* record_hard_failures: a failing check no mapping names opens nothing.
FailedCategories(outcome) == {CategoryOf[r] : r \in Failing(outcome)} \ {Unmapped}

Missing(t, outcome) == {c \in FailedCategories(outcome) : OpenCases(t, c) = {}}

\* The first failing check of a category opens its case, and so hides the next.
OpenedBy(outcome, c, r) ==
    IF \E q \in Failing(outcome) : CategoryOf[q] = c
    THEN /\ r \in Failing(outcome) /\ CategoryOf[r] = c
         /\ \A q \in Failing(outcome) : CategoryOf[q] = c => r <= q
    ELSE r = NoRule

Silent == [r \in Rules |-> "silent"]
Recorded(t, outcome) ==
    [r \in Rules |-> IF outcome[r] = "silent" THEN result[t][r] ELSE outcome[r]]

SomeTrade == CHOOSE t \in Trades : TRUE
Unknown == [r \in Rules |-> "none"]
Blank == [trade |-> SomeTrade, outcome |-> Silent, base |-> Unknown,
          missing |-> {}, items |-> {}, round |-> 0]

Init ==
    /\ result = [t \in Trades |-> Unknown]
    /\ wait = [t \in Trades |-> "none"]
    /\ round = [t \in Trades |-> 0]
    /\ case = [i \in Cases |-> [state |-> "unopened", trade |-> SomeTrade,
                                category |-> Ageing, rule |-> NoRule, round |-> 0]]
    /\ passed = {}
    /\ owner = [t \in Trades |-> Free]
    /\ pc = [s \in Sessions |-> "idle"]
    /\ note = [s \in Sessions |-> Blank]

Enter(s, place, record) ==
    /\ pc' = [pc EXCEPT ![s] = place]
    /\ note' = [note EXCEPT ![s] = record]

Begin(s, place, record) ==
    /\ pc[s] = "idle" /\ Enter(s, place, record)
    /\ UNCHANGED <<result, approval, case, passed, owner>>

\* The session ends and its locks go.
CloseSession(s) ==
    /\ Enter(s, "idle", Blank)
    /\ owner' = [t \in Trades |-> IF owner[t] = s THEN Free ELSE owner[t]]

-----------------------------------------------------------------------------
(* What a commit leaves behind.                                            *)

\* Rows are ordered by evaluated_at, which is taken before the trade is locked:
\* results committed since this session evaluated may be newer than its own.
CommitResults(s) ==
    LET t == note[s].trade
    IN \/ result' = [result EXCEPT ![t] = Recorded(t, note[s].outcome)]
       \/ result[t] # note[s].base /\ UNCHANGED result

\* The cases it opens and the cases it closes.
CommitCases(s) ==
    \E slot \in [note[s].missing -> Unopened],
       cause \in [note[s].missing -> Rules \cup {NoRule}] :
        /\ \A c, d \in note[s].missing : c # d => slot[c] # slot[d]
        /\ \A c \in note[s].missing : OpenedBy(note[s].outcome, c, cause[c])
        /\ case' = [i \in Cases |->
              IF i \in note[s].items THEN [case[i] EXCEPT !.state = "resolved"]
              ELSE IF \E c \in note[s].missing : slot[c] = i
              THEN LET c == CHOOSE c \in note[s].missing : slot[c] = i
                   IN [state |-> "open", trade |-> note[s].trade, category |-> c,
                       rule |-> cause[c], round |-> note[s].round]
              ELSE case[i]]

\* The history: a row that passes the check of an open case, written by this
\* session or, for a case it opens, newer than the failure that opens it.
CommitPassed(s) ==
    passed' = passed
        \cup {i \in Cases : /\ case[i].state = "open"
                            /\ case[i].trade = note[s].trade
                            /\ case[i].rule # NoRule
                            /\ note[s].outcome[case[i].rule] = "passes"}
        \cup {i \in Unopened : /\ case'[i].state = "open"
                               /\ case'[i].rule # NoRule
                               /\ result'[note[s].trade][case'[i].rule] = "passes"}

Commit(s) ==
    CommitResults(s) /\ CommitCases(s) /\ CommitPassed(s) /\ CloseSession(s)

-----------------------------------------------------------------------------
(* A validation run, alone or behind a correction made on a case.          *)

\* run_validation evaluates every check before it flushes the trade's row.
BeginValidation(s, t, outcome) ==
    Begin(s, "evaluated", [Blank EXCEPT !.trade = t, !.outcome = outcome,
                                        !.base = result[t]])

\* resolve_exception with a correction: the trade must not wait for approval.
BeginCorrection(s, i, outcome) ==
    /\ case[i].state = "open" /\ wait[case[i].trade] \notin Pending
    /\ Begin(s, "evaluated", [Blank EXCEPT !.trade = case[i].trade, !.items = {i},
                                 !.outcome = outcome, !.base = result[case[i].trade]])

\* Slip: the run looks for open cases without having locked the trade.
RecordFailuresUnlocked(s) ==
    /\ pc[s] = "evaluated"
    /\ Enter(s, IF note[s].items = {} THEN "recorded" ELSE "corrected",
             [note[s] EXCEPT !.missing = Missing(note[s].trade, note[s].outcome)])
    /\ UNCHANGED <<result, approval, case, passed, owner>>

\* The flush that locks the trade, and record_hard_failures behind it.
RecordFailures(s) ==
    /\ pc[s] = "evaluated" /\ owner[note[s].trade] = Free
    /\ owner' = [owner EXCEPT ![note[s].trade] = s]
    /\ Enter(s, IF note[s].items = {} THEN "recorded" ELSE "corrected",
             [note[s] EXCEPT !.missing = Missing(note[s].trade, note[s].outcome)])
    /\ UNCHANGED <<result, approval, case, passed>>

SaveRun(s) == pc[s] = "recorded" /\ Commit(s) /\ UNCHANGED approval

-----------------------------------------------------------------------------
(* The openers that do not lock the trade they open a case on.             *)

\* propagate_coverage: one check of a sibling, written where it has changed.
BeginCoverage(s, t, verdict) ==
    LET outcome == [Silent EXCEPT ![Coverage] = verdict]
    IN /\ result[t][Coverage] # verdict
       /\ Begin(s, "recorded", [Blank EXCEPT !.trade = t, !.outcome = outcome,
                   !.base = result[t], !.missing = Missing(t, outcome)])

\* open_failure_case, open_stale_case.
BeginReport(s, t, category) ==
    /\ OpenCases(t, category) = {}
    /\ Begin(s, "recorded", [Blank EXCEPT !.trade = t, !.missing = {category}])

\* ensure_overdue_approval_cases, for one of the overdue approvals it reads.
ReadQueue(s, t) ==
    /\ wait[t] = "overdue" /\ OpenCases(t, Ageing) = {}
    /\ Begin(s, "recorded", [Blank EXCEPT !.trade = t, !.missing = {Ageing},
                                          !.round = round[t]])

-----------------------------------------------------------------------------
(* Closing a case.                                                         *)

\* resolve_exception: the case as it was when the request loaded it.
OpenForWork(s, i) ==
    /\ case[i].state = "open"
    /\ Begin(s, "working", [Blank EXCEPT !.trade = case[i].trade, !.items = {i}])

\* underlying_rule_passes, on what the session sees: its own rows and the
\* committed ones, of which either may be the newer.
RulePasses(s, i) ==
    case[i].rule # NoRule =>
        \/ Recorded(note[s].trade, note[s].outcome)[case[i].rule] = "passes"
        \/ /\ result[note[s].trade] # note[s].base
           /\ result[note[s].trade][case[i].rule] = "passes"

ApprovalAnswered(i) == case[i].category = Ageing => wait[case[i].trade] \notin Pending

\* Slip: the note closes a case of a check that still fails.
CheckCaseByNote(s) ==
    /\ pc[s] \in {"working", "corrected"}
    /\ \A i \in note[s].items : ApprovalAnswered(i)
    /\ pc' = [pc EXCEPT ![s] = "cleared"]
    /\ UNCHANGED <<result, approval, case, passed, owner, note>>

\* Slip: an ageing case closed on a note while the approval is still open.
CheckCaseOfAnyApproval(s) ==
    /\ pc[s] \in {"working", "corrected"}
    /\ \A i \in note[s].items : RulePasses(s, i)
    /\ pc' = [pc EXCEPT ![s] = "cleared"]
    /\ UNCHANGED <<result, approval, case, passed, owner, note>>

\* resolve_case up to its flush.
CheckCase(s) ==
    /\ pc[s] \in {"working", "corrected"}
    /\ \A i \in note[s].items : RulePasses(s, i) /\ ApprovalAnswered(i)
    /\ pc' = [pc EXCEPT ![s] = "cleared"]
    /\ UNCHANGED <<result, approval, case, passed, owner, note>>

CloseCase(s) == pc[s] = "cleared" /\ Commit(s) /\ UNCHANGED approval

\* decide: the trade is locked, then its open ageing cases are read.
BeginDecision(s, t) ==
    /\ pc[s] = "idle" /\ wait[t] \in Pending /\ owner[t] = Free
    /\ owner' = [owner EXCEPT ![t] = s]
    /\ Enter(s, "deciding", [Blank EXCEPT !.trade = t, !.items = OpenCases(t, Ageing)])
    /\ UNCHANGED <<result, approval, case, passed>>

SaveDecision(s) ==
    /\ pc[s] = "deciding"
    /\ wait' = [wait EXCEPT ![note[s].trade] = "decided"]
    /\ Commit(s)
    /\ UNCHANGED round

\* The request fails, is refused or is cancelled: everything is rolled back.
Abandon(s) ==
    /\ pc[s] # "idle" /\ CloseSession(s)
    /\ UNCHANGED <<result, approval, case, passed>>

-----------------------------------------------------------------------------
\* A submission asks for an approval (see ApprovalDesk).
AskApproval(t) ==
    /\ wait[t] \notin Pending /\ owner[t] = Free /\ round[t] < MaxRounds
    /\ wait' = [wait EXCEPT ![t] = "fresh"]
    /\ round' = [round EXCEPT ![t] = @ + 1]
    /\ UNCHANGED <<result, case, passed, owner, pc, note>>

\* approval_overdue_hours go by.
Ages(t) ==
    /\ wait[t] = "fresh"
    /\ wait' = [wait EXCEPT ![t] = "overdue"]
    /\ UNCHANGED <<result, round, case, passed, owner, pc, note>>

Next ==
    \/ \E s \in Sessions :
          \/ \E t \in Trades :
                \/ \E outcome \in Runs : BeginValidation(s, t, outcome)
                \/ \E verdict \in {"passes", "fails"} : BeginCoverage(s, t, verdict)
                \/ \E category \in Reports : BeginReport(s, t, category)
                \/ ReadQueue(s, t) \/ BeginDecision(s, t)
          \/ \E i \in Cases :
                \/ OpenForWork(s, i)
                \/ \E outcome \in Runs : BeginCorrection(s, i, outcome)
          \/ RecordFailures(s) \/ SaveRun(s) \/ CheckCase(s) \/ CloseCase(s)
          \/ SaveDecision(s) \/ Abandon(s)
    \/ \E t \in Trades : AskApproval(t) \/ Ages(t)

Spec == Init /\ [][Next]_vars

-----------------------------------------------------------------------------
TypeOK ==
    /\ result \in [Trades -> Results]
    /\ wait \in [Trades -> Waits]
    /\ round \in [Trades -> 0..MaxRounds]
    /\ case \in [Cases -> CaseRow]
    /\ passed \subseteq Cases
    /\ owner \in [Trades -> Sessions \cup {Free}]
    /\ pc \in [Sessions -> {"idle", "evaluated", "recorded", "corrected", "working",
                            "cleared", "deciding"}]
    /\ note \in [Sessions -> Note]

\* Categories that only a run holding the trade's lock opens.
Serialised == RuleCategories \ {CategoryOf[Coverage]}

\* The queue shows one problem once: two runs on the same trade never leave two
\* open cases of a category, though each looks before it inserts and no index
\* forbids it.
OneCasePerCategory ==
    \A t \in Trades, c \in Serialised : \A i, k \in OpenCases(t, c) : i = k

\* The note alone closes nothing: a case that names a check is closed only if
\* the check has passed since the case was opened, whoever wrote that row.
NoteAloneClosesNothing ==
    \A i \in Cases :
        case[i].state = "resolved" /\ case[i].rule # NoRule => i \in passed

\* An approval that is still waiting keeps the case that ages it.
NoAgeingCaseClosedEarly ==
    \A i \in Cases :
        /\ case[i].state = "resolved" /\ case[i].category = Ageing
        /\ wait[case[i].trade] \in Pending
        => case[i].round < round[case[i].trade]

\* Every check that fails and is mapped has an owner: an open case of its
\* category on the trade.
FailureHasCase ==
    \A t \in Trades, r \in Rules :
        result[t][r] = "fails" /\ CategoryOf[r] # Unmapped
            => OpenCases(t, CategoryOf[r]) # {}

-----------------------------------------------------------------------------
(* The inductive invariant behind the safety properties (proved in         *)
(* ExceptionQueueProofs).                                                  *)

\* A case that names a check is of the category the check maps to.
Named == \A i \in Cases : case[i].rule # NoRule => CategoryOf[case[i].rule] = case[i].category

\* A passing result is never older than an open case of its check.
Passes ==
    \A i \in Cases :
        /\ case[i].state = "open" /\ case[i].rule # NoRule
        /\ result[case[i].trade][case[i].rule] = "passes"
        => i \in passed

\* No case is about an approval that has not been asked for yet.
Rounds == \A i \in Cases : case[i].round <= round[case[i].trade]

\* A run that is about to open a serialised case holds the trade's lock, and
\* what it did not find is still not there.
StillMissing(s) ==
    \A c \in note[s].missing \cap Serialised :
        owner[note[s].trade] = s /\ OpenCases(note[s].trade, c) = {}

\* The cases a session means to close are cases of its trade, once opened.
InHand(s) ==
    /\ note[s].round <= round[note[s].trade]
    /\ pc[s] = "recorded" => note[s].items = {}
    /\ \A i \in note[s].items :
          /\ case[i].state # "unopened" /\ case[i].trade = note[s].trade
          /\ pc[s] = "deciding" => case[i].category = Ageing

\* What a session has checked about a case stays true until it commits.
StillCleared(s) ==
    pc[s] = "cleared" => \A i \in note[s].items :
        /\ case[i].rule # NoRule =>
              i \in passed \/ note[s].outcome[case[i].rule] = "passes"
        /\ case[i].category = Ageing /\ wait[case[i].trade] \in Pending
              => case[i].round < round[case[i].trade]

QueueRows ==
    /\ Named
    /\ OneCasePerCategory
    /\ Passes
    /\ NoteAloneClosesNothing
    /\ Rounds
    /\ NoAgeingCaseClosedEarly

QueueInv ==
    /\ TypeOK
    /\ QueueRows
    /\ \A s \in Sessions : StillMissing(s) /\ InHand(s) /\ StillCleared(s)
=============================================================================
