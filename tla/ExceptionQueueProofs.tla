------------------------- MODULE ExceptionQueueProofs -------------------------
(* Proofs about ExceptionQueue, for every number of trades, checks, cases    *)
(* and sessions, and whatever the checks are mapped to.                      *)
EXTENDS ExceptionQueue, TLAPS

LEMMA BlankIsNote == Blank \in Note /\ SomeTrade \in Trades
<1>1. SomeTrade \in Trades BY QueueConstants DEF SomeTrade
<1> QED BY <1>1, QueueConstants DEF Blank, Note, Silent, Outcomes, Unknown, Results

LEMMA CategoryFacts ==
  ASSUME TypeOK, NEW t \in Trades, NEW outcome \in Outcomes
  PROVE  /\ Missing(t, outcome) \subseteq RuleCategories
         /\ Missing(t, outcome) \subseteq Categories
         /\ \A c \in Missing(t, outcome) : OpenCases(t, c) = {}
         /\ Ageing \notin RuleCategories
BY QueueConstants
   DEF Missing, FailedCategories, Failing, RuleCategories, Categories, Unmapped

-----------------------------------------------------------------------------
(* What a commit does.                                                     *)

\* A case that s opens with its commit.
Opened(s, i) ==
    /\ case[i].state = "unopened" /\ case'[i].state = "open"
    /\ case'[i].trade = note[s].trade /\ case'[i].category \in note[s].missing
    /\ case'[i].round = note[s].round
    /\ case'[i].rule # NoRule =>
          case'[i].rule \in Rules /\ CategoryOf[case'[i].rule] = case'[i].category

\* A case that s closes.
Closed(s, i) ==
    /\ i \in note[s].items /\ case'[i].state = "resolved"
    /\ case'[i].trade = case[i].trade /\ case'[i].category = case[i].category
    /\ case'[i].rule = case[i].rule /\ case'[i].round = case[i].round

LEMMA CommittedCases ==
  ASSUME TypeOK, NEW s \in Sessions, CommitCases(s)
  PROVE  /\ case' \in [Cases -> CaseRow]
         /\ \A i \in Cases : \/ Closed(s, i)
                             \/ i \notin note[s].items /\ Opened(s, i)
                             \/ i \notin note[s].items /\ case'[i] = case[i]
         /\ \A i, k \in Cases :
               /\ Opened(s, i) /\ i \notin note[s].items
               /\ Opened(s, k) /\ k \notin note[s].items
               /\ case'[i].category = case'[k].category
               => i = k
<1> DEFINE missing == note[s].missing
           items == note[s].items
<1>1. /\ note[s].trade \in Trades /\ note[s].outcome \in Outcomes
      /\ missing \subseteq Categories /\ items \subseteq Cases
      /\ note[s].round \in 0..MaxRounds
  BY DEF TypeOK, Note
<1>2. PICK slot \in [missing -> Unopened], cause \in [missing -> Rules \cup {NoRule}] :
        /\ \A c, d \in missing : c # d => slot[c] # slot[d]
        /\ \A c \in missing : OpenedBy(note[s].outcome, c, cause[c])
        /\ case' = [i \in Cases |->
              IF i \in items THEN [case[i] EXCEPT !.state = "resolved"]
              ELSE IF \E c \in missing : slot[c] = i
              THEN LET c == CHOOSE c \in missing : slot[c] = i
                   IN [state |-> "open", trade |-> note[s].trade, category |-> c,
                       rule |-> cause[c], round |-> note[s].round]
              ELSE case[i]]
  BY DEF CommitCases
<1>3. ASSUME NEW i \in Cases, i \in items
      PROVE  case'[i] \in CaseRow /\ Closed(s, i)
  <2>1. case[i] \in CaseRow BY DEF TypeOK
  <2>2. case'[i] = [case[i] EXCEPT !.state = "resolved"] BY <1>2, <1>3
  <2> QED BY <1>3, <2>1, <2>2 DEF CaseRow, Closed
<1>4. ASSUME NEW i \in Cases, i \notin items, NEW c \in missing, slot[c] = i
      PROVE  case'[i] \in CaseRow /\ Opened(s, i) /\ case'[i].category = c
  <2>1. \A d \in missing : slot[d] = i => d = c BY <1>2, <1>4
  <2>2. (CHOOSE d \in missing : slot[d] = i) = c BY <1>4, <2>1
  <2>3. case'[i] = [state |-> "open", trade |-> note[s].trade, category |-> c,
                    rule |-> cause[c], round |-> note[s].round]
    BY <1>2, <1>4, <2>2
  <2>4. case[i].state = "unopened" BY <1>2, <1>4 DEF Unopened
  <2>5. cause[c] \in Rules \cup {NoRule} BY <1>2
  <2>6. cause[c] # NoRule => cause[c] \in Rules /\ CategoryOf[cause[c]] = c
    BY <1>2, <2>5 DEF OpenedBy, Failing
  <2> QED BY <1>1, <2>3, <2>4, <2>5, <2>6 DEF CaseRow, Opened
<1>5. ASSUME NEW i \in Cases, i \notin items, ~\E c \in missing : slot[c] = i
      PROVE  case'[i] = case[i] /\ case[i] \in CaseRow
  BY <1>2, <1>5 DEF TypeOK
<1>6. case' \in [Cases -> CaseRow] BY <1>2, <1>3, <1>4, <1>5
<1>7. ASSUME NEW i \in Cases, i \notin items, Opened(s, i)
      PROVE  \E c \in missing : slot[c] = i /\ case'[i].category = c
  BY <1>4, <1>5, <1>7 DEF Opened
<1>8. \A i, k \in Cases :
        /\ Opened(s, i) /\ i \notin items
        /\ Opened(s, k) /\ k \notin items
        /\ case'[i].category = case'[k].category
        => i = k
  <2> SUFFICES ASSUME NEW i \in Cases, NEW k \in Cases,
                      Opened(s, i), i \notin items, Opened(s, k), k \notin items,
                      case'[i].category = case'[k].category
               PROVE  i = k
    OBVIOUS
  <2>1. PICK c \in missing : slot[c] = i /\ case'[i].category = c BY <1>7
  <2>2. PICK d \in missing : slot[d] = k /\ case'[k].category = d BY <1>7
  <2> QED BY <2>1, <2>2
<1>9. ASSUME NEW i \in Cases
      PROVE  \/ Closed(s, i)
             \/ i \notin items /\ Opened(s, i)
             \/ i \notin items /\ case'[i] = case[i]
  BY <1>3, <1>4, <1>5, <1>9
<1> QED BY <1>6, <1>8, <1>9

\* The results after a commit: a check keeps its result or takes the run's own.
LEMMA CommittedResults ==
  ASSUME TypeOK, NEW s \in Sessions, CommitResults(s)
  PROVE  /\ result' \in [Trades -> Results]
         /\ \A t \in Trades, r \in Rules :
               \/ result'[t][r] = result[t][r]
               \/ t = note[s].trade /\ result'[t][r] = note[s].outcome[r]
<1>1. note[s].trade \in Trades /\ note[s].outcome \in Outcomes BY DEF TypeOK, Note
<1>2. Recorded(note[s].trade, note[s].outcome) \in Results
  BY <1>1 DEF Recorded, TypeOK, Outcomes, Results
<1>3. CASE result' = [result EXCEPT ![note[s].trade] = Recorded(note[s].trade, note[s].outcome)]
  <2>1. result' \in [Trades -> Results] BY <1>2, <1>3 DEF TypeOK
  <2>2. \A t \in Trades : t # note[s].trade => result'[t] = result[t]
    BY <1>3 DEF TypeOK
  <2>3. result'[note[s].trade] = Recorded(note[s].trade, note[s].outcome)
    BY <1>1, <1>3 DEF TypeOK
  <2> QED BY <2>1, <2>2, <2>3 DEF Recorded
<1>4. CASE UNCHANGED result
  BY <1>4 DEF TypeOK
<1> QED BY <1>3, <1>4 DEF CommitResults

\* What the session leaves: nothing in hand, and the others as they were.
LEMMA Closing ==
  ASSUME TypeOK, NEW s \in Sessions, CloseSession(s)
  PROVE  /\ pc' \in [Sessions -> {"idle", "evaluated", "recorded", "corrected",
                                  "working", "cleared", "deciding"}]
         /\ note' \in [Sessions -> Note] /\ owner' \in [Trades -> Sessions \cup {Free}]
         /\ pc'[s] = "idle" /\ note'[s] = Blank
         /\ \A q \in Sessions \ {s} : pc'[q] = pc[q] /\ note'[q] = note[q]
         /\ \A t \in Trades : owner[t] # s => owner'[t] = owner[t]
BY BlankIsNote DEF TypeOK, CloseSession, Enter

-----------------------------------------------------------------------------
(* Type correctness.                                                       *)

LEMMA InitTypes == Init => TypeOK
<1> SUFFICES ASSUME Init PROVE TypeOK
  OBVIOUS
<1>1. \A i \in Cases : case[i] \in CaseRow
  BY BlankIsNote, QueueConstants DEF Init, CaseRow, Categories
<1>2. Unknown \in Results BY DEF Unknown, Results
<1> QED BY <1>1, <1>2, BlankIsNote, QueueConstants DEF Init, TypeOK, Waits

LEMMA CommitTypes ==
  ASSUME TypeOK, NEW s \in Sessions, Commit(s)
  PROVE  /\ result' \in [Trades -> Results] /\ case' \in [Cases -> CaseRow]
         /\ passed' \subseteq Cases
         /\ pc' \in [Sessions -> {"idle", "evaluated", "recorded", "corrected",
                                  "working", "cleared", "deciding"}]
         /\ note' \in [Sessions -> Note] /\ owner' \in [Trades -> Sessions \cup {Free}]
<1>1. passed' \subseteq Cases BY DEF Commit, CommitPassed, TypeOK, Unopened
<1> QED BY <1>1, CommittedCases, CommittedResults, Closing DEF Commit

\* A session that begins puts a note of the right type in hand.
LEMMA BeginTypes ==
  ASSUME TypeOK, NEW s \in Sessions,
         NEW place \in {"evaluated", "recorded", "corrected", "working", "deciding"},
         NEW record \in Note, Enter(s, place, record),
         UNCHANGED <<result, approval, case, passed>>,
         owner' \in [Trades -> Sessions \cup {Free}]
  PROVE  TypeOK'
BY DEF TypeOK, Enter, approval

\* A step of a session that commits nothing, or of the clock and the desk.
LEMMA OtherStepTypes ==
  ASSUME TypeOK, NEW s \in Sessions
  PROVE  /\ \A t \in Trades : \A outcome \in Runs : BeginValidation(s, t, outcome) => TypeOK'
         /\ \A t \in Trades : \A verdict \in {"passes", "fails"} :
                BeginCoverage(s, t, verdict) => TypeOK'
         /\ \A t \in Trades : \A category \in Reports :
                BeginReport(s, t, category) => TypeOK'
         /\ \A t \in Trades : ReadQueue(s, t) => TypeOK'
         /\ \A t \in Trades : BeginDecision(s, t) => TypeOK'
         /\ \A i \in Cases : OpenForWork(s, i) => TypeOK'
         /\ \A i \in Cases : \A outcome \in Runs : BeginCorrection(s, i, outcome) => TypeOK'
         /\ RecordFailures(s) => TypeOK'
         /\ CheckCase(s) => TypeOK'
         /\ Abandon(s) => TypeOK'
<1> USE BlankIsNote, QueueRuns
<1>0. owner \in [Trades -> Sessions \cup {Free}] BY DEF TypeOK
<1>1. ASSUME NEW t \in Trades, NEW outcome \in Runs, BeginValidation(s, t, outcome)
      PROVE  TypeOK'
  <2>1. [Blank EXCEPT !.trade = t, !.outcome = outcome, !.base = result[t]] \in Note
    BY DEF TypeOK, Note
  <2> QED BY <1>0, <1>1, <2>1, BeginTypes DEF BeginValidation, Begin
<1>2. ASSUME NEW t \in Trades, NEW verdict \in {"passes", "fails"}, BeginCoverage(s, t, verdict)
      PROVE  TypeOK'
  <2> DEFINE outcome == [Silent EXCEPT ![Coverage] = verdict]
  <2>1. outcome \in Outcomes BY QueueConstants DEF Silent, Outcomes
  <2>2. Missing(t, outcome) \subseteq Categories BY <2>1, CategoryFacts
  <2> HIDE DEF outcome
  <2>3. [Blank EXCEPT !.trade = t, !.outcome = outcome, !.base = result[t],
                      !.missing = Missing(t, outcome)] \in Note
    BY <2>1, <2>2 DEF TypeOK, Note
  <2> QED BY <1>0, <1>2, <2>3, BeginTypes DEF BeginCoverage, Begin, outcome
<1>3. ASSUME NEW t \in Trades, NEW category \in Reports, BeginReport(s, t, category)
      PROVE  TypeOK'
  <2>1. [Blank EXCEPT !.trade = t, !.missing = {category}] \in Note
    BY DEF Note, Categories
  <2> QED BY <1>0, <1>3, <2>1, BeginTypes DEF BeginReport, Begin
<1>4. ASSUME NEW t \in Trades, ReadQueue(s, t) PROVE TypeOK'
  <2>1. [Blank EXCEPT !.trade = t, !.missing = {Ageing}, !.round = round[t]] \in Note
    BY DEF TypeOK, Note, Categories
  <2> QED BY <1>0, <1>4, <2>1, BeginTypes DEF ReadQueue, Begin
<1>5. ASSUME NEW t \in Trades, BeginDecision(s, t) PROVE TypeOK'
  <2>1. [Blank EXCEPT !.trade = t, !.items = OpenCases(t, Ageing)] \in Note
    BY DEF Note, OpenCases
  <2>2. owner' \in [Trades -> Sessions \cup {Free}] BY <1>0, <1>5 DEF BeginDecision
  <2> QED BY <1>5, <2>1, <2>2, BeginTypes DEF BeginDecision
<1>6. ASSUME NEW i \in Cases, OpenForWork(s, i) PROVE TypeOK'
  <2>1. [Blank EXCEPT !.trade = case[i].trade, !.items = {i}] \in Note
    BY DEF TypeOK, Note, CaseRow
  <2> QED BY <1>0, <1>6, <2>1, BeginTypes DEF OpenForWork, Begin
<1>7. ASSUME NEW i \in Cases, NEW outcome \in Runs, BeginCorrection(s, i, outcome)
      PROVE  TypeOK'
  <2>1. [Blank EXCEPT !.trade = case[i].trade, !.items = {i}, !.outcome = outcome,
                      !.base = result[case[i].trade]] \in Note
    BY DEF TypeOK, Note, CaseRow
  <2> QED BY <1>0, <1>7, <2>1, BeginTypes DEF BeginCorrection, Begin
<1>8. ASSUME RecordFailures(s) PROVE TypeOK'
  <2>1. note[s] \in Note /\ note[s].trade \in Trades /\ note[s].outcome \in Outcomes
    BY DEF TypeOK, Note
  <2>2. Missing(note[s].trade, note[s].outcome) \subseteq Categories BY <2>1, CategoryFacts
  <2>3. [note[s] EXCEPT !.missing = Missing(note[s].trade, note[s].outcome)] \in Note
    BY <2>1, <2>2 DEF Note
  <2>4. owner' \in [Trades -> Sessions \cup {Free}] BY <1>0, <1>8 DEF RecordFailures
  <2> QED BY <1>8, <2>3, <2>4, BeginTypes DEF RecordFailures
<1>9. ASSUME CheckCase(s) PROVE TypeOK'
  BY <1>9 DEF CheckCase, TypeOK, approval
<1>10. ASSUME Abandon(s) PROVE TypeOK'
  BY <1>10, Closing DEF Abandon, TypeOK, approval
<1> QED BY <1>1, <1>2, <1>3, <1>4, <1>5, <1>6, <1>7, <1>8, <1>9, <1>10

\* A step keeps every variable in its type.
LEMMA StepTypes == TypeOK /\ [Next]_vars => TypeOK'
<1> SUFFICES ASSUME TypeOK, [Next]_vars PROVE TypeOK'
  OBVIOUS
<1>1. CASE UNCHANGED vars
  BY <1>1 DEF TypeOK, vars, approval
<1>2. ASSUME NEW s \in Sessions, SaveRun(s) \/ CloseCase(s) PROVE TypeOK'
  BY <1>2, CommitTypes DEF SaveRun, CloseCase, TypeOK, approval
<1>3. ASSUME NEW s \in Sessions, SaveDecision(s) PROVE TypeOK'
  <2>1. wait' \in [Trades -> Waits] BY <1>3 DEF SaveDecision, TypeOK, Waits
  <2> QED BY <1>3, <2>1, CommitTypes DEF SaveDecision, TypeOK
<1>4. ASSUME NEW t \in Trades, AskApproval(t) PROVE TypeOK'
  <2>1. round[t] + 1 \in 0..MaxRounds BY <1>4, QueueConstants DEF AskApproval, TypeOK
  <2> QED BY <1>4, <2>1 DEF AskApproval, TypeOK, Waits
<1>5. ASSUME NEW t \in Trades, Ages(t) PROVE TypeOK'
  BY <1>5 DEF Ages, TypeOK, Waits
<1> QED BY <1>1, <1>2, <1>3, <1>4, <1>5, OtherStepTypes DEF Next

\* Every variable keeps its type, whatever the checks are mapped to: a failure
\* that no mapping names opens no case.
THEOREM QueueTypeCorrect == Spec => []TypeOK
<1>1. Init => TypeOK BY InitTypes
<1>2. TypeOK /\ [Next]_vars => TypeOK' BY StepTypes
<1> QED BY <1>1, <1>2, PTL DEF Spec

-----------------------------------------------------------------------------
(* The inductive invariant.                                                *)

OfSession(s) == StillMissing(s) /\ InHand(s) /\ StillCleared(s)

LEMMA InitInvariant == Init => QueueInv
<1> SUFFICES ASSUME Init PROVE QueueInv
  OBVIOUS
<1>1. TypeOK BY InitTypes
<1>2. QueueRows
  <2>1. \A i \in Cases : /\ case[i].state = "unopened" /\ case[i].rule = NoRule
                         /\ case[i].round = 0 /\ case[i].trade \in Trades
    BY BlankIsNote DEF Init
  <2>2. Rounds BY <2>1 DEF Init, Rounds
  <2>3. OneCasePerCategory BY <2>1 DEF OneCasePerCategory, OpenCases
  <2> QED BY <2>1, <2>2, <2>3 DEF QueueRows, Named, Passes, NoteAloneClosesNothing,
                                  NoAgeingCaseClosedEarly
<1>3. \A s \in Sessions : StillMissing(s) /\ InHand(s) /\ StillCleared(s)
  <2>1. Blank.missing = {} /\ Blank.items = {} /\ Blank.round = 0 /\ Blank.trade \in Trades
    BY BlankIsNote DEF Blank
  <2> QED BY <2>1 DEF Init, StillMissing, InHand, StillCleared
<1> QED BY <1>1, <1>2, <1>3 DEF QueueInv

\* A session with a blank note has nothing to keep true.
LEMMA BlankHand ==
  ASSUME NEW s \in Sessions, TypeOK', note'[s] = Blank, pc'[s] = "idle"
  PROVE  OfSession(s)'
<1>1. Blank.missing = {} /\ Blank.items = {} /\ Blank.round = 0 /\ Blank.trade \in Trades
  BY BlankIsNote DEF Blank
<1>2. round'[Blank.trade] \in 0..MaxRounds BY <1>1 DEF TypeOK
<1>3. 0 <= round'[Blank.trade] BY <1>2
<1> QED BY <1>1, <1>3 DEF OfSession, StillMissing, InHand, StillCleared

\* A step that only moves one session.
LEMMA MoveKeeps ==
  ASSUME QueueInv, TypeOK', NEW s \in Sessions, OfSession(s)',
         UNCHANGED <<result, approval, case, passed>>,
         \A q \in Sessions \ {s} : pc'[q] = pc[q] /\ note'[q] = note[q],
         \A t \in Trades : owner[t] \in {Free, s} \/ owner'[t] = owner[t]
  PROVE  QueueInv'
<1>1. QueueRows'
  BY DEF QueueInv, QueueRows, Named, OneCasePerCategory, Passes, NoteAloneClosesNothing,
         Rounds, NoAgeingCaseClosedEarly, OpenCases, approval
<1>2. ASSUME NEW q \in Sessions, q # s PROVE OfSession(q)'
  <2>1. StillMissing(q) /\ InHand(q) /\ StillCleared(q) BY DEF QueueInv
  <2>2. note[q].trade \in Trades BY DEF QueueInv, TypeOK, Note
  <2>3. q # Free BY QueueConstants
  <2>4. StillMissing(q)' BY <1>2, <2>1, <2>2, <2>3 DEF StillMissing, OpenCases
  <2>5. InHand(q)' BY <1>2, <2>1 DEF InHand, approval
  <2>6. StillCleared(q)' BY <1>2, <2>1 DEF StillCleared, approval
  <2> QED BY <2>4, <2>5, <2>6 DEF OfSession
<1> QED BY <1>1, <1>2 DEF QueueInv, OfSession

\* Abandoning, or the clock and the desk.
LEMMA AbandonKeeps ==
  ASSUME QueueInv, TypeOK', NEW s \in Sessions, Abandon(s)
  PROVE  QueueInv'
<1>1. TypeOK BY DEF QueueInv
<1>2. OfSession(s)' BY <1>1, Closing, BlankHand DEF Abandon
<1> QED BY <1>1, <1>2, Closing, MoveKeeps DEF Abandon

LEMMA ClockKeeps ==
  ASSUME QueueInv, TypeOK', NEW t \in Trades, AskApproval(t) \/ Ages(t)
  PROVE  QueueInv'
<1>1. /\ TypeOK /\ UNCHANGED <<result, case, passed, owner, pc, note>>
      /\ \A i \in Cases : case[i].trade \in Trades /\ case[i].round \in Int
      /\ \A s \in Sessions : note[s].trade \in Trades /\ note[s].round \in Int
      /\ \A u \in Trades : round[u] \in Int
  BY QueueConstants DEF QueueInv, TypeOK, CaseRow, Note, AskApproval, Ages
<1>2. \A u \in Trades :
        \/ round'[u] = round[u] /\ (wait'[u] \in Pending => wait[u] \in Pending)
        \/ round'[u] = round[u] + 1
  BY <1>1 DEF AskApproval, Ages, TypeOK, Pending
<1>3. \A u \in Trades : round[u] <= round'[u] BY <1>1, <1>2
<1>4. Rounds' /\ NoAgeingCaseClosedEarly'
  <2>1. ASSUME NEW i \in Cases PROVE case'[i].round <= round'[case'[i].trade]
    BY <1>1, <1>2 DEF QueueInv, QueueRows, Rounds
  <2>2. ASSUME NEW i \in Cases, case[i].state = "resolved", case[i].category = Ageing,
               wait'[case[i].trade] \in Pending
        PROVE  case[i].round < round'[case[i].trade]
    BY <1>1, <1>2, <2>2 DEF QueueInv, QueueRows, Rounds, NoAgeingCaseClosedEarly
  <2> QED BY <1>1, <2>1, <2>2 DEF Rounds, NoAgeingCaseClosedEarly
<1>5. QueueRows'
  BY <1>1, <1>4 DEF QueueInv, QueueRows, Named, OneCasePerCategory, Passes,
                    NoteAloneClosesNothing, OpenCases
<1>6. ASSUME NEW s \in Sessions PROVE OfSession(s)'
  <2>1. StillMissing(s) /\ InHand(s) /\ StillCleared(s) BY DEF QueueInv
  <2>2. StillMissing(s)' BY <1>1, <2>1 DEF StillMissing, OpenCases
  <2>3. note[s].round <= round'[note[s].trade] BY <1>1, <1>2, <2>1 DEF InHand
  <2>4. InHand(s)' BY <1>1, <2>1, <2>3 DEF InHand
  <2>5. ASSUME pc[s] = "cleared", NEW i \in note[s].items, case[i].category = Ageing,
               wait'[case[i].trade] \in Pending
        PROVE  case[i].round < round'[case[i].trade]
    <3>1. i \in Cases BY <1>1 DEF TypeOK, Note
    <3> QED BY <1>1, <1>2, <2>1, <2>5, <3>1 DEF StillCleared, QueueInv, QueueRows, Rounds
  <2>6. StillCleared(s)' BY <1>1, <2>1, <2>5 DEF StillCleared
  <2> QED BY <2>2, <2>4, <2>6 DEF OfSession
<1> QED BY <1>5, <1>6 DEF QueueInv, OfSession

-----------------------------------------------------------------------------
(* Steps of a session that commit nothing.                                 *)

LEMMA BeginKeeps ==
  ASSUME QueueInv, TypeOK', NEW s \in Sessions, NEW place, NEW record \in Note,
         Begin(s, place, record),
         place # "cleared", place # "deciding",
         record.missing \cap Serialised = {}, record.round <= round[record.trade],
         place = "recorded" => record.items = {},
         \A i \in record.items : case[i].state # "unopened" /\ case[i].trade = record.trade
  PROVE  QueueInv'
<1>1. /\ TypeOK /\ pc'[s] = place /\ note'[s] = record
      /\ UNCHANGED <<result, approval, case, passed, owner>>
      /\ \A q \in Sessions \ {s} : pc'[q] = pc[q] /\ note'[q] = note[q]
  BY DEF QueueInv, TypeOK, Begin, Enter
<1>2. OfSession(s)'
  BY <1>1 DEF OfSession, StillMissing, InHand, StillCleared, approval, Serialised, RuleCategories
<1> QED BY <1>1, <1>2, MoveKeeps

LEMMA RecordFailuresKeeps ==
  ASSUME QueueInv, TypeOK', NEW s \in Sessions, RecordFailures(s)
  PROVE  QueueInv'
<1>1. /\ TypeOK /\ note[s] \in Note /\ note[s].trade \in Trades
      /\ note[s].outcome \in Outcomes /\ StillMissing(s) /\ InHand(s) /\ pc[s] = "evaluated"
  BY DEF QueueInv, TypeOK, Note, RecordFailures
<1>2. /\ note'[s].trade = note[s].trade /\ note'[s].items = note[s].items
      /\ note'[s].round = note[s].round
      /\ note'[s].missing = Missing(note[s].trade, note[s].outcome)
      /\ pc'[s] = IF note[s].items = {} THEN "recorded" ELSE "corrected"
      /\ owner'[note[s].trade] = s
      /\ UNCHANGED <<result, approval, case, passed>>
      /\ \A q \in Sessions \ {s} : pc'[q] = pc[q] /\ note'[q] = note[q]
      /\ \A t \in Trades : owner[t] \in {Free, s} \/ owner'[t] = owner[t]
  BY <1>1 DEF RecordFailures, Enter, TypeOK, Note
<1>3. StillMissing(s)'
  BY <1>1, <1>2, CategoryFacts DEF StillMissing, OpenCases
<1>4. InHand(s)' /\ StillCleared(s)'
  BY <1>1, <1>2 DEF InHand, StillCleared, approval
<1> QED BY <1>2, <1>3, <1>4, MoveKeeps DEF OfSession

LEMMA CheckCaseKeeps ==
  ASSUME QueueInv, TypeOK', NEW s \in Sessions, CheckCase(s)
  PROVE  QueueInv'
<1>1. /\ TypeOK /\ note[s] \in Note /\ note[s].trade \in Trades /\ note[s].items \subseteq Cases
      /\ StillMissing(s) /\ InHand(s) /\ QueueRows
  BY DEF QueueInv, TypeOK, Note
<1>2. /\ pc'[s] = "cleared" /\ UNCHANGED <<result, approval, case, passed, owner, note>>
      /\ pc[s] # "recorded" /\ pc[s] # "deciding"
      /\ \A q \in Sessions \ {s} : pc'[q] = pc[q] /\ note'[q] = note[q]
  BY <1>1 DEF CheckCase, TypeOK
<1>3. ASSUME NEW i \in note[s].items
      PROVE  /\ case[i].rule # NoRule =>
                    i \in passed \/ note[s].outcome[case[i].rule] = "passes"
             /\ case[i].category = Ageing => wait[case[i].trade] \notin Pending
  <2>1. RulePasses(s, i) /\ ApprovalAnswered(i) BY <1>3 DEF CheckCase
  <2>2. /\ case[i].state \in {"open", "resolved"} /\ case[i].trade = note[s].trade
        /\ case[i].rule \in Rules \cup {NoRule} /\ i \in Cases
    BY <1>1, <1>3 DEF InHand, TypeOK, CaseRow
  <2>3. ASSUME case[i].rule # NoRule, note[s].outcome[case[i].rule] # "passes"
        PROVE  i \in passed
    <3>1. case[i].rule \in Rules BY <2>2, <2>3
    <3>2. result[case[i].trade][case[i].rule] = "passes"
      BY <2>1, <2>2, <2>3, <3>1 DEF RulePasses, Recorded
    <3> QED BY <1>1, <2>2, <2>3, <3>2 DEF QueueRows, Passes, NoteAloneClosesNothing
  <2> QED BY <2>1, <2>3 DEF ApprovalAnswered
<1>4. StillCleared(s)' BY <1>2, <1>3 DEF StillCleared, approval
<1>5. StillMissing(s)' /\ InHand(s)'
  BY <1>1, <1>2 DEF StillMissing, InHand, OpenCases, approval
<1> QED BY <1>2, <1>4, <1>5, MoveKeeps DEF OfSession

LEMMA BeginDecisionKeeps ==
  ASSUME QueueInv, TypeOK', NEW s \in Sessions, NEW t \in Trades, BeginDecision(s, t)
  PROVE  QueueInv'
<1>1. /\ TypeOK /\ round[t] \in 0..MaxRounds /\ t \in Trades BY DEF QueueInv, TypeOK
<1>2. /\ note'[s].trade = t /\ note'[s].items = OpenCases(t, Ageing)
      /\ note'[s].round = 0 /\ note'[s].missing = {} /\ pc'[s] = "deciding"
      /\ UNCHANGED <<result, approval, case, passed>>
      /\ \A q \in Sessions \ {s} : pc'[q] = pc[q] /\ note'[q] = note[q]
      /\ \A u \in Trades : owner[u] \in {Free, s} \/ owner'[u] = owner[u]
  BY <1>1, BlankIsNote DEF BeginDecision, Enter, TypeOK, Blank
<1>3. OfSession(s)'
  BY <1>1, <1>2 DEF OfSession, StillMissing, InHand, StillCleared, OpenCases, approval
<1> QED BY <1>2, <1>3, MoveKeeps

\* The sessions that begin with a note of their own making.
LEMMA BeginningsKeep ==
  ASSUME QueueInv, TypeOK', NEW s \in Sessions
  PROVE  /\ \A t \in Trades : \A outcome \in Runs : BeginValidation(s, t, outcome) => QueueInv'
         /\ \A t \in Trades : \A verdict \in {"passes", "fails"} :
                BeginCoverage(s, t, verdict) => QueueInv'
         /\ \A t \in Trades : \A category \in Reports :
                BeginReport(s, t, category) => QueueInv'
         /\ \A t \in Trades : ReadQueue(s, t) => QueueInv'
         /\ \A i \in Cases : OpenForWork(s, i) => QueueInv'
         /\ \A i \in Cases : \A outcome \in Runs : BeginCorrection(s, i, outcome) => QueueInv'
<1> USE BlankIsNote, QueueRuns, QueueConstants
<1>0. /\ TypeOK /\ Blank.missing = {} /\ Blank.items = {} /\ Blank.round = 0
      /\ \A t \in Trades : round[t] \in 0..MaxRounds /\ 0 <= round[t] /\ result[t] \in Results
      /\ \A i \in Cases : case[i].trade \in Trades
  BY DEF QueueInv, TypeOK, Blank, CaseRow
<1>1. ASSUME NEW t \in Trades, NEW outcome \in Runs, BeginValidation(s, t, outcome)
      PROVE  QueueInv'
  <2> DEFINE record == [Blank EXCEPT !.trade = t, !.outcome = outcome, !.base = result[t]]
  <2>1. record \in Note /\ record.missing = {} /\ record.items = {} /\ record.round = 0
        /\ record.trade = t
    BY <1>0 DEF Note
  <2>2. Begin(s, "evaluated", record) BY <1>1 DEF BeginValidation
  <2> HIDE DEF record
  <2> QED BY <1>0, <2>1, <2>2, BeginKeeps
<1>2. ASSUME NEW t \in Trades, NEW verdict \in {"passes", "fails"}, BeginCoverage(s, t, verdict)
      PROVE  QueueInv'
  <2> DEFINE outcome == [Silent EXCEPT ![Coverage] = verdict]
  <2>1. outcome \in Outcomes /\ Failing(outcome) \subseteq {Coverage}
    BY DEF Silent, Outcomes, Failing
  <2> HIDE DEF outcome
  <2>2. /\ Missing(t, outcome) \subseteq Categories
        /\ Missing(t, outcome) \cap Serialised = {}
    <3>1. Missing(t, outcome) \subseteq {CategoryOf[Coverage]}
      BY <2>1 DEF Missing, FailedCategories
    <3> QED BY <1>0, <2>1, <3>1, CategoryFacts DEF Serialised
  <2> DEFINE record == [Blank EXCEPT !.trade = t, !.outcome = outcome, !.base = result[t],
                                     !.missing = Missing(t, outcome)]
  <2>3. record \in Note /\ record.missing = Missing(t, outcome) /\ record.items = {}
        /\ record.round = 0 /\ record.trade = t
    BY <1>0, <2>1, <2>2 DEF Note
  <2>4. Begin(s, "recorded", record) BY <1>2 DEF BeginCoverage, outcome
  <2> HIDE DEF record
  <2> QED BY <1>0, <2>2, <2>3, <2>4, BeginKeeps
<1>3. ASSUME NEW t \in Trades, NEW category \in Reports, BeginReport(s, t, category)
      PROVE  QueueInv'
  <2> DEFINE record == [Blank EXCEPT !.trade = t, !.missing = {category}]
  <2>1. record \in Note /\ record.missing = {category} /\ record.items = {}
        /\ record.round = 0 /\ record.trade = t
    BY <1>0 DEF Note, Categories
  <2>2. category \notin Serialised BY DEF Serialised, RuleCategories
  <2>3. Begin(s, "recorded", record) BY <1>3 DEF BeginReport
  <2> HIDE DEF record
  <2> QED BY <1>0, <2>1, <2>2, <2>3, BeginKeeps
<1>4. ASSUME NEW t \in Trades, ReadQueue(s, t) PROVE QueueInv'
  <2> DEFINE record == [Blank EXCEPT !.trade = t, !.missing = {Ageing}, !.round = round[t]]
  <2>1. record \in Note /\ record.missing = {Ageing} /\ record.items = {}
        /\ record.round = round[t] /\ record.trade = t
    BY <1>0 DEF Note, Categories
  <2>2. Ageing \notin Serialised BY DEF Serialised, RuleCategories
  <2>3. Begin(s, "recorded", record) BY <1>4 DEF ReadQueue
  <2>4. record.round <= round[record.trade] BY <1>0, <2>1
  <2> HIDE DEF record
  <2> QED BY <1>0, <2>1, <2>2, <2>3, <2>4, BeginKeeps
<1>5. ASSUME NEW i \in Cases, OpenForWork(s, i) PROVE QueueInv'
  <2> DEFINE record == [Blank EXCEPT !.trade = case[i].trade, !.items = {i}]
  <2>1. record \in Note /\ record.missing = {} /\ record.items = {i}
        /\ record.round = 0 /\ record.trade = case[i].trade
    BY <1>0 DEF Note
  <2>2. Begin(s, "working", record) /\ case[i].state = "open" BY <1>5 DEF OpenForWork
  <2> HIDE DEF record
  <2> QED BY <1>0, <2>1, <2>2, BeginKeeps
<1>6. ASSUME NEW i \in Cases, NEW outcome \in Runs, BeginCorrection(s, i, outcome)
      PROVE  QueueInv'
  <2> DEFINE record == [Blank EXCEPT !.trade = case[i].trade, !.items = {i},
                            !.outcome = outcome, !.base = result[case[i].trade]]
  <2>1. record \in Note /\ record.missing = {} /\ record.items = {i}
        /\ record.round = 0 /\ record.trade = case[i].trade
    BY <1>0 DEF Note
  <2>2. Begin(s, "evaluated", record) /\ case[i].state = "open" BY <1>6 DEF BeginCorrection
  <2> HIDE DEF record
  <2> QED BY <1>0, <2>1, <2>2, BeginKeeps
<1> QED BY <1>1, <1>2, <1>3, <1>4, <1>5, <1>6

-----------------------------------------------------------------------------
(* Commits.                                                                *)

\* What the other sessions and the rows rely on, for the three that commit.
Committing(s) ==
    /\ Commit(s) /\ UNCHANGED round
    /\ \/ pc[s] \in {"recorded", "cleared"} /\ UNCHANGED wait
       \/ /\ pc[s] = "deciding" /\ wait'[note[s].trade] = "decided"
          /\ \A t \in Trades : t # note[s].trade => wait'[t] = wait[t]

\* The facts of a commit, in the shape the proofs below use them.
LEMMA CommitFacts ==
  ASSUME QueueInv, NEW s \in Sessions, Committing(s)
  PROVE  /\ \A i \in Cases : \/ Closed(s, i)
                             \/ i \notin note[s].items /\ Opened(s, i)
                             \/ i \notin note[s].items /\ case'[i] = case[i]
         /\ \A t \in Trades, r \in Rules :
               \/ result'[t][r] = result[t][r]
               \/ t = note[s].trade /\ result'[t][r] = note[s].outcome[r]
         /\ passed \subseteq passed'
         /\ \A i \in Cases :
               /\ case[i].state = "open" /\ case[i].trade = note[s].trade
               /\ case[i].rule # NoRule /\ note[s].outcome[case[i].rule] = "passes"
               => i \in passed'
         /\ \A i \in Cases :
               /\ Opened(s, i) /\ case'[i].rule # NoRule
               /\ result'[note[s].trade][case'[i].rule] = "passes"
               => i \in passed'
         /\ \A t \in Trades : wait'[t] \in Pending => wait'[t] = wait[t]
<1>1. TypeOK /\ CommitCases(s) /\ CommitResults(s) /\ CommitPassed(s)
  BY DEF QueueInv, Committing, Commit
<1>2. /\ passed \subseteq passed'
      /\ \A i \in Cases :
            /\ case[i].state = "open" /\ case[i].trade = note[s].trade
            /\ case[i].rule # NoRule /\ note[s].outcome[case[i].rule] = "passes"
            => i \in passed'
      /\ \A i \in Cases :
            /\ Opened(s, i) /\ case'[i].rule # NoRule
            /\ result'[note[s].trade][case'[i].rule] = "passes"
            => i \in passed'
  BY <1>1 DEF CommitPassed, Opened, Unopened
<1>3. \A t \in Trades : wait'[t] \in Pending => wait'[t] = wait[t]
  BY DEF Committing, Pending
<1> QED BY <1>1, <1>2, <1>3, CommittedCases, CommittedResults

\* Two cases of a serialised category: one of them would have been found.
LEMMA CommitKeepsOneCase ==
  ASSUME QueueInv, NEW s \in Sessions, Committing(s)
  PROVE  OneCasePerCategory'
<1>1. TypeOK /\ CommitCases(s) /\ StillMissing(s) /\ OneCasePerCategory
  BY DEF QueueInv, QueueRows, Committing, Commit
<1>2. SUFFICES ASSUME NEW t \in Trades, NEW c \in Serialised, NEW i \in Cases, NEW k \in Cases,
                      case'[i].state = "open", case'[i].trade = t, case'[i].category = c,
                      case'[k].state = "open", case'[k].trade = t, case'[k].category = c
               PROVE  i = k
  BY DEF OneCasePerCategory, OpenCases, Serialised, RuleCategories
<1>3. ASSUME NEW j \in Cases, case'[j].state = "open", case'[j].trade = t, case'[j].category = c
      PROVE  /\ j \notin note[s].items
             /\ \/ Opened(s, j) /\ t = note[s].trade /\ OpenCases(t, c) = {}
                \/ j \in OpenCases(t, c)
  BY <1>1, <1>3, CommitFacts DEF Closed, Opened, OpenCases, StillMissing
<1>4. i \notin note[s].items /\ k \notin note[s].items
  BY <1>2, <1>3
<1>5. CASE i \in OpenCases(t, c) /\ k \in OpenCases(t, c)
  BY <1>1, <1>5 DEF OneCasePerCategory
<1>6. CASE Opened(s, i) /\ Opened(s, k)
  BY <1>1, <1>2, <1>4, <1>6, CommittedCases
<1> QED BY <1>2, <1>3, <1>5, <1>6

LEMMA CommitKeepsRows ==
  ASSUME QueueInv, TypeOK', NEW s \in Sessions, Committing(s)
  PROVE  QueueRows'
<1>1. /\ TypeOK /\ QueueRows /\ InHand(s) /\ StillCleared(s) /\ UNCHANGED round
      /\ note[s].trade \in Trades /\ note[s].items \subseteq Cases
      /\ \A i \in Cases : case[i].trade \in Trades /\ case[i].rule \in Rules \cup {NoRule}
  BY DEF QueueInv, Committing, TypeOK, Note, CaseRow
<1>2. Named'
  BY <1>1, CommitFacts DEF QueueRows, Named, Closed, Opened
<1>3. ASSUME NEW i \in Cases, case'[i].state = "open", case'[i].rule # NoRule,
             result'[case'[i].trade][case'[i].rule] = "passes"
      PROVE  i \in passed'
  <2>1. CASE Opened(s, i)
    BY <1>3, <2>1, CommitFacts DEF Opened
  <2>2. CASE case'[i] = case[i]
    <3>1. CASE result[case[i].trade][case[i].rule] = "passes"
      BY <1>1, <1>3, <2>2, <3>1, CommitFacts DEF QueueRows, Passes
    <3>2. CASE case[i].trade = note[s].trade /\ note[s].outcome[case[i].rule] = "passes"
      BY <1>3, <2>2, <3>2, CommitFacts
    <3> QED BY <1>1, <1>3, <2>2, <3>1, <3>2, CommitFacts
  <2> QED BY <1>3, <2>1, <2>2, CommitFacts DEF Closed
<1>4. Passes' BY <1>3 DEF Passes
<1>5. ASSUME NEW i \in Cases, case'[i].state = "resolved", case'[i].rule # NoRule
      PROVE  i \in passed'
  <2>1. CASE case'[i] = case[i]
    BY <1>1, <1>5, <2>1, CommitFacts DEF QueueRows, NoteAloneClosesNothing
  <2>2. CASE Closed(s, i)
    <3>1. i \in note[s].items /\ case[i].rule # NoRule /\ case'[i].rule = case[i].rule
      BY <1>5, <2>2 DEF Closed
    <3>2. pc[s] = "cleared"
      <4>1. case[i].category # Ageing
        BY <1>1, <3>1, QueueConstants DEF QueueRows, Named
      <4> QED BY <1>1, <3>1, <4>1 DEF InHand, Committing
    <3>3. i \in passed \/ note[s].outcome[case[i].rule] = "passes"
      BY <1>1, <3>1, <3>2 DEF StillCleared
    <3>4. case[i].state \in {"open", "resolved"} /\ case[i].trade = note[s].trade
      BY <1>1, <3>1 DEF InHand, TypeOK, CaseRow
    <3> QED BY <1>1, <3>1, <3>3, <3>4, CommitFacts DEF QueueRows, NoteAloneClosesNothing
  <2> QED BY <1>5, <2>1, <2>2, CommitFacts DEF Opened
<1>6. NoteAloneClosesNothing' BY <1>5 DEF NoteAloneClosesNothing
<1>7. Rounds'
  BY <1>1, CommitFacts DEF QueueRows, Rounds, Closed, Opened, InHand
<1>8. ASSUME NEW i \in Cases, case'[i].state = "resolved", case'[i].category = Ageing,
             wait'[case'[i].trade] \in Pending
      PROVE  case'[i].round < round'[case'[i].trade]
  <2>1. CASE case'[i] = case[i]
    BY <1>1, <1>8, <2>1, CommitFacts DEF QueueRows, NoAgeingCaseClosedEarly
  <2>2. CASE Closed(s, i)
    <3>1. /\ i \in note[s].items /\ case'[i].trade = case[i].trade
          /\ case[i].category = Ageing /\ case'[i].round = case[i].round
          /\ case[i].trade = note[s].trade
      BY <1>1, <1>8, <2>2 DEF Closed, InHand
    <3>2. wait[case[i].trade] \in Pending BY <1>1, <1>8, <3>1, CommitFacts
    <3>3. pc[s] = "cleared"
      BY <1>1, <1>8, <3>1 DEF Committing, InHand, Pending
    <3> QED BY <1>1, <3>1, <3>2, <3>3 DEF StillCleared
  <2> QED BY <1>8, <2>1, <2>2, CommitFacts DEF Opened
<1>9. NoAgeingCaseClosedEarly' BY <1>8 DEF NoAgeingCaseClosedEarly
<1> QED BY <1>2, <1>4, <1>6, <1>7, <1>9, CommitKeepsOneCase DEF QueueRows

\* What another session has in hand survives a commit.
LEMMA CommitKeepsOthers ==
  ASSUME QueueInv, NEW s \in Sessions, Committing(s), NEW q \in Sessions, q # s
  PROVE  OfSession(q)'
<1>1. /\ TypeOK /\ StillMissing(q) /\ InHand(q) /\ StillCleared(q) /\ StillMissing(s)
      /\ UNCHANGED round
      /\ note[q].trade \in Trades /\ note[q].items \subseteq Cases
      /\ \A i \in Cases : case[i].trade \in Trades
  BY DEF QueueInv, Committing, TypeOK, Note, CaseRow
<1>2. /\ pc'[q] = pc[q] /\ note'[q] = note[q]
      /\ \A t \in Trades : owner[t] # s => owner'[t] = owner[t]
  BY <1>1, Closing DEF Committing, Commit
<1>3. ASSUME NEW c \in note[q].missing \cap Serialised
      PROVE  owner'[note[q].trade] = q /\ OpenCases(note[q].trade, c)' = {}
  <2>1. owner[note[q].trade] = q /\ OpenCases(note[q].trade, c) = {}
    BY <1>1, <1>3 DEF StillMissing
  <2>2. owner'[note[q].trade] = q BY <1>1, <1>2, <2>1
  <2>3. ASSUME NEW i \in Cases, case'[i].state = "open", case'[i].trade = note[q].trade,
               case'[i].category = c
        PROVE  FALSE
    <3>1. CASE Opened(s, i)
      BY <1>1, <1>3, <2>1, <2>3, <3>1 DEF Opened, StillMissing
    <3>2. CASE case'[i] = case[i]
      BY <2>1, <2>3, <3>2 DEF OpenCases
    <3> QED BY <2>3, <3>1, <3>2, CommitFacts DEF Closed
  <2> QED BY <1>2, <2>2, <2>3 DEF OpenCases
<1>4. StillMissing(q)' BY <1>2, <1>3 DEF StillMissing, Serialised, RuleCategories
<1>5. \A i \in note[q].items :
        /\ case'[i].state # "unopened" /\ case'[i].trade = case[i].trade
        /\ case'[i].category = case[i].category /\ case'[i].rule = case[i].rule
        /\ case'[i].round = case[i].round
  BY <1>1, CommitFacts DEF InHand, Closed, Opened
<1>6. InHand(q)' BY <1>1, <1>2, <1>5 DEF InHand
<1>7. StillCleared(q)'
  BY <1>1, <1>2, <1>5, CommitFacts DEF StillCleared
<1> QED BY <1>4, <1>6, <1>7 DEF OfSession

LEMMA CommitKeeps ==
  ASSUME QueueInv, TypeOK', NEW s \in Sessions, Committing(s)
  PROVE  QueueInv'
<1>1. pc'[s] = "idle" /\ note'[s] = Blank
  BY Closing DEF Committing, Commit, QueueInv
<1>2. OfSession(s)' BY <1>1, BlankHand
<1> QED BY <1>2, CommitKeepsRows, CommitKeepsOthers DEF QueueInv, OfSession

-----------------------------------------------------------------------------
LEMMA StepInvariant == QueueInv /\ [Next]_vars => QueueInv'
<1> SUFFICES ASSUME QueueInv, [Next]_vars PROVE QueueInv'
  OBVIOUS
<1>1. TypeOK /\ TypeOK' BY StepTypes DEF QueueInv
<1>2. CASE UNCHANGED vars
  BY <1>2 DEF vars, approval, QueueInv, TypeOK, QueueRows, Named, OneCasePerCategory, Passes,
              NoteAloneClosesNothing, Rounds, NoAgeingCaseClosedEarly, OpenCases,
              StillMissing, InHand, StillCleared
<1>3. ASSUME NEW s \in Sessions, SaveRun(s) \/ CloseCase(s) \/ SaveDecision(s)
      PROVE  QueueInv'
  <2>1. Committing(s)
    BY <1>1, <1>3 DEF SaveRun, CloseCase, SaveDecision, Committing, approval, TypeOK, Note
  <2> QED BY <1>1, <2>1, CommitKeeps
<1>4. ASSUME NEW s \in Sessions, RecordFailures(s) \/ CheckCase(s) \/ Abandon(s)
      PROVE  QueueInv'
  BY <1>1, <1>4, RecordFailuresKeeps, CheckCaseKeeps, AbandonKeeps
<1>5. ASSUME NEW s \in Sessions, NEW t \in Trades, BeginDecision(s, t) PROVE QueueInv'
  BY <1>1, <1>5, BeginDecisionKeeps
<1>6. ASSUME NEW t \in Trades, AskApproval(t) \/ Ages(t) PROVE QueueInv'
  BY <1>1, <1>6, ClockKeeps
<1> QED BY <1>1, <1>2, <1>3, <1>4, <1>5, <1>6, BeginningsKeep DEF Next

\* The conjunction the safety properties follow from.
THEOREM QueueInvariant == Spec => []QueueInv
<1>1. Init => QueueInv BY InitInvariant
<1>2. QueueInv /\ [Next]_vars => QueueInv' BY StepInvariant
<1> QED BY <1>1, <1>2, PTL DEF Spec

\* The lock of the trade's row makes looking and inserting one step: no trade
\* has two open cases of a category that only validation runs open.
THEOREM ProblemsShownOnce == Spec => []OneCasePerCategory
<1>1. QueueInv => OneCasePerCategory BY DEF QueueInv, QueueRows
<1> QED BY <1>1, QueueInvariant, PTL

\* A case about a check is closed only if the check has passed since it opened.
THEOREM NoCaseClosedOnANote == Spec => []NoteAloneClosesNothing
<1>1. QueueInv => NoteAloneClosesNothing BY DEF QueueInv, QueueRows
<1> QED BY <1>1, QueueInvariant, PTL

\* A closed ageing case is never about the approval the trade still waits for.
THEOREM WaitingApprovalKeepsItsCase == Spec => []NoAgeingCaseClosedEarly
<1>1. QueueInv => NoAgeingCaseClosedEarly BY DEF QueueInv, QueueRows
<1> QED BY <1>1, QueueInvariant, PTL
=============================================================================
