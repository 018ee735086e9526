-------------------------- MODULE ApprovalDeskProofs --------------------------
(* Proofs about ApprovalDesk, for every number of trades, accounts and tasks. *)
EXTENDS ApprovalDesk, TLAPS

\* The blank notes of a session with nothing in hand.
LEMMA BlankIsNote == Blank \in Note /\ NotEvaluated \in Evaluation
<1>1. SomeTrade \in Trades /\ SomeTask \in Tasks /\ (CHOOSE f \in Figures : TRUE) \in Figures
  BY DeskConstants DEF SomeTrade, SomeTask
<1>2. NotEvaluated \in Evaluation /\ NotEvaluated.of \in Figures
  BY <1>1 DEF NotEvaluated, Evaluation
<1> QED
  BY <1>1, <1>2 DEF Blank, Note, Work, DeskStatus, Decisions, Nobody

\* What run_validation records, and what it makes of the status.
LEMMA EvaluationFacts ==
  ASSUME NEW f \in Figures, NEW previous \in Evaluation
  PROVE  Evaluate(f, previous) \in Evaluation
BY DEF Evaluate, CarriesAcknowledgement, Evaluation

LEMMA NewestFacts ==
  ASSUME TypeOK, NEW s \in Sessions
  PROVE  Newest(s) \subseteq Evaluation /\ Validated(s) \in DeskStatus
<1>1. note[s] \in Note BY DEF TypeOK
<1>2. note[s].trade \in Trades /\ note[s].row \in Evaluation BY <1>1 DEF Note
<1> QED BY <1>2 DEF Newest, Validated, TypeOK, DeskStatus

-----------------------------------------------------------------------------
(* Type correctness.                                                       *)

SessionTypes ==
    /\ pc \in [Sessions -> {"idle", "loaded", "judged", "deciding", "taken", "weighing"}]
    /\ note \in [Sessions -> Note]
    /\ todo \in [Sessions -> SUBSET Tasks]
    /\ held \in [Sessions -> SUBSET Tasks]
    /\ picks \in [Sessions -> SUBSET Tasks]
    /\ verdict \in [Sessions -> {"approved", "rejected"}]

LEMMA ClosingKeepsTypes ==
  ASSUME TypeOK, NEW s \in Sessions, CloseSession(s)
  PROVE  SessionTypes'
BY BlankIsNote DEF TypeOK, SessionTypes, CloseSession

LEMMA InitTypes == Init => TypeOK
<1> SUFFICES ASSUME Init PROVE TypeOK
  OBVIOUS
<1>1. SomeTrade \in Trades BY DeskConstants DEF SomeTrade
<1>2. latest \in [Trades -> Evaluation]
  BY BlankIsNote, EvaluationFacts DEF Init
<1>3. task \in [Tasks -> TaskRow]
  BY <1>1 DEF Init, TaskRow, Decisions, Nobody
<1> QED
  BY <1>2, <1>3, BlankIsNote DEF Init, TypeOK, DeskStatus, Nobody

LEMMA LoadTypes ==
  ASSUME TypeOK, NEW s \in Sessions, NEW t \in Trades, NEW w \in Work,
         NEW f \in Figures, Load(s, t, w, f)
  PROVE  TypeOK'
<1>1. status[t] \in DeskStatus BY DEF TypeOK
<1>2. [Blank EXCEPT !.work = w, !.trade = t, !.figs = f, !.status = status[t]] \in Note
  BY <1>1, BlankIsNote DEF Note
<1>3. note' \in [Sessions -> Note] BY <1>2 DEF Load, TypeOK
<1> QED BY <1>3 DEF Load, TypeOK, trade

LEMMA DeskStepTypes ==
  ASSUME TypeOK, NEW p \in Sessions, p \in Users,
         \/ Answer(p) \/ SaveCorrection(p) \/ SaveAcknowledgement(p)
         \/ RefuseSubmission(p) \/ SaveSubmission(p)
  PROVE  TypeOK'
<1>1. /\ note[p] \in Note /\ note[p].trade \in Trades /\ note[p].figs \in Figures
      /\ note[p].row \in Evaluation /\ latest[note[p].trade] \in Evaluation
  BY DEF TypeOK, Note
<1>2. Newest(p) \subseteq Evaluation /\ Validated(p) \in DeskStatus
  BY NewestFacts
<1>3. CASE Answer(p)
  <2>1. [latest[note[p].trade] EXCEPT !.passed = TRUE, !.acknowledged = TRUE] \in Evaluation
    BY <1>1 DEF Evaluation
  <2>2. note' \in [Sessions -> Note]
    BY <1>1, <1>3, <2>1 DEF Answer, TypeOK, Note
  <2> QED BY <1>3, <2>2 DEF Answer, TypeOK, trade
<1>4. CASE SaveCorrection(p)
  <2>1. Evaluate(note[p].figs, latest[note[p].trade]) \in Evaluation
    BY <1>1, EvaluationFacts
  <2>2. SessionTypes' BY <1>4, ClosingKeepsTypes DEF SaveCorrection
  <2> QED BY <1>1, <1>2, <1>4, <2>1, <2>2 DEF SaveCorrection, TypeOK, SessionTypes
<1>5. CASE SaveAcknowledgement(p)
  <2>1. note[p].row.of \in Figures BY <1>1 DEF Evaluation
  <2>2. SessionTypes' BY <1>5, ClosingKeepsTypes DEF SaveAcknowledgement
  <2> QED BY <1>1, <1>2, <1>5, <2>1, <2>2 DEF SaveAcknowledgement, TypeOK, SessionTypes
<1>6. CASE RefuseSubmission(p)
  <2>2. SessionTypes' BY <1>6, ClosingKeepsTypes DEF RefuseSubmission
  <2> QED BY <1>1, <1>2, <1>6, <2>2 DEF RefuseSubmission, TypeOK, SessionTypes
<1>7. CASE SaveSubmission(p)
  <2>1. task' \in [Tasks -> TaskRow]
    BY <1>1, <1>7 DEF SaveSubmission, RaiseTask, TypeOK, TaskRow, Decisions, Nobody, Unraised
  <2>2. SessionTypes' BY <1>7, ClosingKeepsTypes DEF SaveSubmission
  <2> QED BY <1>1, <1>2, <1>7, <2>1, <2>2 DEF SaveSubmission, TypeOK, SessionTypes, DeskStatus
<1> QED BY <1>3, <1>4, <1>5, <1>6, <1>7

LEMMA ApprovalStepTypes ==
  ASSUME TypeOK, NEW a \in Sessions, a \in Users,
         \/ \E batch \in SUBSET (Tasks \ Unraised), decision \in {"approved", "rejected"} :
              BeginDecisions(a, batch, decision)
         \/ TakeTask(a) \/ LoadTrade(a) \/ Decide(a) \/ Refuse(a) \/ SaveDecisions(a)
  PROVE  TypeOK'
<1>1. note[a] \in Note /\ note[a].trade \in Trades /\ note[a].task \in Tasks
  BY DEF TypeOK, Note
<1>2. ASSUME NEW batch \in SUBSET (Tasks \ Unraised), NEW decision \in {"approved", "rejected"},
             BeginDecisions(a, batch, decision)
      PROVE  TypeOK'
  <2>1. [Blank EXCEPT !.work = "decide"] \in Note BY BlankIsNote DEF Note, Work
  <2>2. note' \in [Sessions -> Note] BY <1>2, <2>1 DEF BeginDecisions, TypeOK
  <2> QED BY <1>2, <2>2 DEF BeginDecisions, TypeOK, trade
<1>3. CASE TakeTask(a)
  <2>1. PICK i \in todo[a] :
          /\ todo' = [todo EXCEPT ![a] = @ \ {i}]
          /\ held' = [held EXCEPT ![a] = @ \cup {i}]
          /\ note' = [note EXCEPT ![a] = [@ EXCEPT !.task = i, !.trade = task[i].trade,
                                          !.found = task[i].decision]]
    BY <1>3 DEF TakeTask
  <2>2. i \in Tasks /\ task[i].trade \in Trades /\ task[i].decision \in Decisions
    BY DEF TypeOK, TaskRow
  <2>3. note' \in [Sessions -> Note] BY <1>1, <2>1, <2>2 DEF TypeOK, Note
  <2> QED BY ZenonT(60), <1>3, <2>1, <2>2, <2>3 DEF TakeTask, TypeOK, trade
<1>4. CASE LoadTrade(a)
  <2>1. status[note[a].trade] \in DeskStatus /\ submitter[note[a].trade] \in Users \cup {Nobody}
    BY <1>1 DEF TypeOK
  <2>2. note' \in [Sessions -> Note] BY <1>1, <1>4, <2>1 DEF LoadTrade, TypeOK, Note
  <2> QED BY <1>4, <2>2 DEF LoadTrade, TypeOK, trade
<1>5. CASE Decide(a)
  BY <1>1, <1>5 DEF Decide, TypeOK, trade
<1>6. CASE Refuse(a)
  BY <1>6 DEF Refuse, TypeOK, trade
<1>7. CASE SaveDecisions(a)
  <2>1. task' \in [Tasks -> TaskRow]
    <3>1. verdict[a] \in Decisions BY DEF TypeOK, Decisions
    <3>2. \A i \in Tasks : task[i] \in TaskRow BY DEF TypeOK
    <3>3. \A i \in Tasks : [task[i] EXCEPT !.decision = verdict[a], !.by = a] \in TaskRow
      BY <3>1, <3>2 DEF TaskRow
    <3> QED BY <1>7, <3>2, <3>3 DEF SaveDecisions
  <2>2. status' \in [Trades -> DeskStatus] BY <1>7 DEF SaveDecisions, TypeOK, DeskStatus
  <2>3. SessionTypes' BY <1>7, ClosingKeepsTypes DEF SaveDecisions
  <2> QED BY <1>7, <2>1, <2>2, <2>3 DEF SaveDecisions, TypeOK, SessionTypes
<1> QED BY <1>2, <1>3, <1>4, <1>5, <1>6, <1>7

\* A step of the desk keeps every variable in its type.
LEMMA StepTypes == TypeOK /\ [Next]_vars => TypeOK'
<1> SUFFICES ASSUME TypeOK, [Next]_vars PROVE TypeOK'
  OBVIOUS
<1> USE DEF Sessions, Users
<1>1. CASE UNCHANGED vars
  BY <1>1 DEF TypeOK, vars, trade, session
<1>2. ASSUME NEW p \in Preparers, AtTheDesk(p) PROVE TypeOK'
  <2>1. ASSUME NEW t \in Trades, NEW f \in Figures, BeginCorrection(p, t, f) PROVE TypeOK'
    BY <2>1, LoadTypes DEF BeginCorrection, Work
  <2>2. ASSUME NEW t \in Trades, BeginAcknowledgement(p, t) \/ BeginSubmission(p, t)
        PROVE  TypeOK'
    <3>1. figures[t] \in Figures BY DEF TypeOK
    <3> QED BY <2>2, <3>1, LoadTypes DEF BeginAcknowledgement, BeginSubmission, Work
  <2> QED BY <1>2, <2>1, <2>2, DeskStepTypes DEF AtTheDesk
<1>3. ASSUME NEW a \in Approvers, AtTheApproval(a) PROVE TypeOK'
  BY <1>3, ApprovalStepTypes DEF AtTheApproval
<1>4. ASSUME NEW m \in Matchers, Matching(m) PROVE TypeOK'
  <2>1. ASSUME NEW t \in Trades, NEW f \in Figures, BeginMatch(m, t, f) PROVE TypeOK'
    BY <2>1, LoadTypes DEF BeginMatch, Work
  <2>2. CASE SaveMatch(m)
    <3>1. note[m] \in Note /\ note[m].trade \in Trades /\ note[m].figs \in Figures
      BY DEF TypeOK, Note
    <3>2. Newest(m) \subseteq Evaluation /\ Validated(m) \in DeskStatus BY NewestFacts
    <3>3. SessionTypes' BY <2>2, ClosingKeepsTypes DEF SaveMatch
    <3> QED BY <2>2, <3>1, <3>2, <3>3 DEF SaveMatch, TypeOK, SessionTypes
  <2> QED BY <1>4, <2>1, <2>2 DEF Matching
<1>5. ASSUME NEW s \in Sessions, Judge(s) PROVE TypeOK'
  <2>1. note[s] \in Note /\ note[s].trade \in Trades /\ note[s].figs \in Figures
    BY DEF TypeOK, Note
  <2>2. latest[note[s].trade] \in Evaluation BY <2>1 DEF TypeOK
  <2>3. Evaluate(note[s].figs, latest[note[s].trade]) \in Evaluation
    BY <2>1, <2>2, EvaluationFacts
  <2>4. note' \in [Sessions -> Note]
    BY <1>5, <2>1, <2>2, <2>3 DEF Judge, TypeOK, Note
  <2> QED BY <1>5, <2>4 DEF Judge, TypeOK, trade
<1>6. ASSUME NEW s \in Sessions, Abandon(s) PROVE TypeOK'
  <2>1. SessionTypes' BY <1>6, ClosingKeepsTypes DEF Abandon
  <2> QED BY <1>6, <2>1 DEF Abandon, TypeOK, SessionTypes, trade
<1> QED BY <1>1, <1>2, <1>3, <1>4, <1>5, <1>6 DEF Next

\* Every variable keeps its type, for any number of trades, tasks and accounts.
THEOREM DeskTypeCorrect == Spec => []TypeOK
<1>1. Init => TypeOK BY InitTypes
<1>2. TypeOK /\ [Next]_vars => TypeOK' BY StepTypes
<1> QED BY <1>1, <1>2, PTL DEF Spec

-----------------------------------------------------------------------------
(* The task locks.                                                         *)

\* Ending s, with at most the tasks it holds or unraised ones rewritten, leaves
\* every other session with what it had.
LEMMA ClosingLocks ==
  ASSUME TypeOK, TaskLocks, NEW s \in Sessions, CloseSession(s),
         \A i \in Tasks \ Unraised :
            task'[i].decision # "unraised" /\ (i \notin held[s] => task'[i] = task[i])
  PROVE  TaskLocks'
<1>1. /\ pc'[s] = "idle" /\ todo'[s] = {} /\ held'[s] = {} /\ picks'[s] = {}
      /\ \A r \in Sessions \ {s} :
            /\ pc'[r] = pc[r] /\ note'[r] = note[r] /\ todo'[r] = todo[r]
            /\ held'[r] = held[r] /\ picks'[r] = picks[r]
  BY DEF CloseSession, TypeOK
<1>2. ASSUME NEW r \in Sessions PROVE Holds(r)'
  <2>1. CASE r = s
    BY <1>1, <2>1 DEF Holds
  <2>2. CASE r # s
    <3>1. Holds(r) /\ held[r] \cap held[s] = {} BY <2>2 DEF TaskLocks
    <3>2. held[r] \subseteq Tasks /\ todo[r] \subseteq Tasks /\ picks[r] \subseteq held[r]
      BY <3>1 DEF TypeOK, Holds
    <3>3. \A i \in held[r] : task'[i] = task[i]
      BY <3>1, <3>2 DEF Holds
    <3>4. held'[r] \cap Unraised' = {} /\ todo'[r] \cap Unraised' = {}
      BY <1>1, <2>2, <3>1, <3>2, <3>3 DEF Holds, Unraised
    <3>5. pc'[r] \in {"taken", "weighing"} =>
            /\ note'[r].task \in held'[r]
            /\ note'[r].trade = task'[note'[r].task].trade
            /\ note'[r].found = task'[note'[r].task].decision
      BY <1>1, <2>2, <3>1, <3>3 DEF Holds
    <3>6. \A i \in picks'[r] : task'[i].decision = "pending"
      BY <1>1, <2>2, <3>1, <3>2, <3>3 DEF Holds
    <3> QED BY <1>1, <2>2, <3>1, <3>4, <3>5, <3>6 DEF Holds
  <2> QED BY <2>1, <2>2
<1>3. \A a, b \in Sessions : a # b => held'[a] \cap held'[b] = {}
  BY <1>1 DEF TaskLocks
<1> QED BY <1>2, <1>3 DEF TaskLocks

\* A session at the desk holds nothing, and its steps touch no lock.
LEMMA DeskMoveLocks ==
  ASSUME TypeOK, TaskLocks, NEW s \in Sessions, pc[s] \in {"idle", "loaded"},
         NEW x \in {"loaded", "judged"}, pc' = [pc EXCEPT ![s] = x],
         \A r \in Sessions \ {s} : note'[r] = note[r],
         UNCHANGED <<task, todo, held, picks>>
  PROVE  TaskLocks'
<1>1. pc'[s] = x /\ \A r \in Sessions \ {s} : pc'[r] = pc[r] BY DEF TypeOK
<1>2. ASSUME NEW r \in Sessions PROVE Holds(r)'
  <2>1. Holds(r) BY DEF TaskLocks
  <2>2. CASE r = s
    BY <1>1, <2>1, <2>2 DEF Holds, Unraised
  <2>3. CASE r # s
    BY <1>1, <2>1, <2>3 DEF Holds, Unraised
  <2> QED BY <2>2, <2>3
<1> QED BY <1>2 DEF TaskLocks

\* The approver's own statements.
LEMMA ApproverMoveLocks ==
  ASSUME TypeOK, TaskLocks, NEW a \in Sessions,
         \/ \E batch \in SUBSET (Tasks \ Unraised), decision \in {"approved", "rejected"} :
              BeginDecisions(a, batch, decision)
         \/ TakeTask(a) \/ LoadTrade(a) \/ Decide(a) \/ Refuse(a)
  PROVE  TaskLocks'
<1>1. Holds(a) /\ note[a] \in Note BY DEF TaskLocks, TypeOK
<1>2. UNCHANGED task
  BY DEF BeginDecisions, TakeTask, LoadTrade, Decide, Refuse
<1>3. Unraised' = Unraised BY <1>2 DEF Unraised
<1>4. \A r \in Sessions \ {a} :
         /\ pc'[r] = pc[r] /\ note'[r] = note[r] /\ todo'[r] = todo[r]
         /\ held'[r] = held[r] /\ picks'[r] = picks[r]
  BY DEF BeginDecisions, TakeTask, LoadTrade, Decide, Refuse, TypeOK
<1>5. \A r \in Sessions \ {a} : Holds(r)'
  BY <1>2, <1>3, <1>4 DEF TaskLocks, Holds
<1>6. Holds(a)' /\ \A b \in Sessions \ {a} : held'[a] \cap held'[b] = {}
  <2>1. ASSUME NEW batch \in SUBSET (Tasks \ Unraised), NEW decision \in {"approved", "rejected"},
               BeginDecisions(a, batch, decision)
        PROVE  Holds(a)' /\ \A b \in Sessions \ {a} : held'[a] \cap held'[b] = {}
    BY <1>1, <1>2, <1>3, <2>1 DEF BeginDecisions, Holds, TypeOK, TaskLocks
  <2>2. CASE TakeTask(a)
    <3>1. PICK i \in todo[a] :
            /\ ~TaskLockedByOther(a, i)
            /\ todo' = [todo EXCEPT ![a] = @ \ {i}]
            /\ held' = [held EXCEPT ![a] = @ \cup {i}]
            /\ note' = [note EXCEPT ![a] = [@ EXCEPT !.task = i, !.trade = task[i].trade,
                                            !.found = task[i].decision]]
      BY <2>2 DEF TakeTask
    <3>2. /\ note'[a].task = i /\ note'[a].trade = task[i].trade
          /\ note'[a].found = task[i].decision
      BY <1>1, <3>1 DEF TypeOK, Note
    <3>3. held'[a] = held[a] \cup {i} /\ todo'[a] = todo[a] \ {i} /\ picks'[a] = picks[a]
          /\ pc'[a] = "taken"
      BY <2>2, <3>1 DEF TakeTask, TypeOK
    <3>4. Holds(a)' BY <1>1, <1>2, <1>3, <3>2, <3>3 DEF Holds
    <3>5. \A b \in Sessions \ {a} : held'[a] \cap held'[b] = {}
      BY <1>4, <3>1, <3>3 DEF TaskLocks, TaskLockedByOther
    <3> QED BY <3>4, <3>5
  <2>3. CASE LoadTrade(a)
    <3>1. /\ note'[a].task = note[a].task /\ note'[a].trade = note[a].trade
          /\ note'[a].found = note[a].found
      BY <1>1, <2>3 DEF LoadTrade, TypeOK, Note
    <3>2. pc[a] = "taken" /\ pc'[a] = "weighing" /\ UNCHANGED <<todo, held, picks>>
      BY <2>3 DEF LoadTrade, TypeOK
    <3> QED BY <1>1, <1>2, <1>3, <3>1, <3>2 DEF Holds, TaskLocks
  <2>4. CASE Decide(a)
    <3>1. /\ pc[a] = "weighing" /\ pc'[a] = "deciding" /\ UNCHANGED <<todo, held, note>>
          /\ picks'[a] = picks[a] \cup {note[a].task} /\ note[a].found = "pending"
      BY <2>4 DEF Decide, MayDecide, TypeOK
    <3> QED BY <1>1, <1>2, <1>3, <3>1 DEF Holds, TaskLocks
  <2>5. CASE Refuse(a)
    <3>1. pc[a] = "weighing" /\ pc'[a] = "deciding" /\ UNCHANGED <<todo, held, note, picks>>
      BY <2>5 DEF Refuse, TypeOK
    <3> QED BY <1>1, <1>2, <1>3, <3>1 DEF Holds, TaskLocks
  <2> QED BY <2>1, <2>2, <2>3, <2>4, <2>5
<1> QED BY <1>4, <1>5, <1>6 DEF TaskLocks

\* What the two commits that write tasks do to them.
LEMMA TaskWrites ==
  ASSUME TypeOK, TaskLocks, NEW s \in Sessions
  PROVE  /\ SaveDecisions(s) =>
              \A i \in Tasks :
                /\ task'[i].trade = task[i].trade
                /\ i \notin picks[s] => task'[i] = task[i]
                /\ i \in picks[s] => /\ task[i].decision = "pending"
                                     /\ task'[i].decision = verdict[s]
                                     /\ task'[i].by = s
         /\ SaveSubmission(s) =>
              \A i \in Tasks :
                 task'[i] # task[i] =>
                    /\ task[i].decision = "unraised"
                    /\ task'[i].decision = "pending" /\ task'[i].trade = note[s].trade
                    /\ PendingTasks(note[s].trade) = {}
                    /\ \A k \in Tasks : k # i => task'[k] = task[k]
<1>1. ASSUME SaveDecisions(s), NEW i \in Tasks
      PROVE  /\ task'[i].trade = task[i].trade
             /\ i \notin picks[s] => task'[i] = task[i]
             /\ i \in picks[s] => /\ task[i].decision = "pending"
                                  /\ task'[i].decision = verdict[s]
                                  /\ task'[i].by = s
  <2>1. task[i] \in TaskRow /\ Holds(s) BY DEF TypeOK, TaskLocks
  <2>2. task'[i] = IF i \in picks[s]
                   THEN [task[i] EXCEPT !.decision = verdict[s], !.by = s] ELSE task[i]
    BY <1>1 DEF SaveDecisions
  <2> QED BY <2>1, <2>2 DEF TaskRow, Holds
<1>2. ASSUME SaveSubmission(s), NEW i \in Tasks, task'[i] # task[i]
      PROVE  /\ task[i].decision = "unraised"
             /\ task'[i].decision = "pending" /\ task'[i].trade = note[s].trade
             /\ PendingTasks(note[s].trade) = {}
             /\ \A k \in Tasks : k # i => task'[k] = task[k]
  BY <1>2 DEF SaveSubmission, RaiseTask, Unraised, TypeOK
<1> QED BY <1>1, <1>2

LEMMA LocksStep == TypeOK /\ TaskLocks /\ [Next]_vars => TaskLocks'
<1> SUFFICES ASSUME TypeOK, TaskLocks, [Next]_vars PROVE TaskLocks'
  OBVIOUS
<1> USE DEF Sessions, Users
<1>1. CASE UNCHANGED vars
  BY <1>1 DEF TaskLocks, Holds, Unraised, vars, trade, session
<1>2. ASSUME NEW s \in Sessions, NEW t \in Trades, NEW w \in Work, NEW f \in Figures,
             Load(s, t, w, f)
      PROVE  TaskLocks'
  <2>1. pc[s] = "idle" /\ \A r \in Sessions \ {s} : note'[r] = note[r]
    BY <1>2 DEF Load, TypeOK
  <2> QED BY <1>2, <2>1, DeskMoveLocks DEF Load
<1>3. ASSUME NEW s \in Sessions, Judge(s) \/ Answer(s) PROVE TaskLocks'
  <2>1. pc[s] = "loaded" /\ \A r \in Sessions \ {s} : note'[r] = note[r]
    BY <1>3 DEF Judge, Answer, TypeOK
  <2> QED BY <1>3, <2>1, DeskMoveLocks DEF Judge, Answer
<1>4. ASSUME NEW s \in Sessions,
             SaveCorrection(s) \/ SaveMatch(s) \/ SaveAcknowledgement(s)
                \/ RefuseSubmission(s) \/ Abandon(s)
      PROVE  TaskLocks'
  <2>1. CloseSession(s) /\ UNCHANGED task
    BY <1>4 DEF SaveCorrection, SaveMatch, SaveAcknowledgement, RefuseSubmission, Abandon
  <2> QED BY <2>1, ClosingLocks DEF Unraised
<1>5. ASSUME NEW s \in Sessions, SaveSubmission(s) PROVE TaskLocks'
  <2>1. CloseSession(s) BY <1>5 DEF SaveSubmission
  <2>2. \A i \in Tasks \ Unraised :
            task'[i].decision # "unraised" /\ (i \notin held[s] => task'[i] = task[i])
    BY <1>5, TaskWrites DEF Unraised
  <2> QED BY <2>1, <2>2, ClosingLocks
<1>6. ASSUME NEW s \in Sessions, SaveDecisions(s) PROVE TaskLocks'
  <2>1. CloseSession(s) BY <1>6 DEF SaveDecisions
  <2>2. picks[s] \subseteq held[s] /\ verdict[s] # "unraised"
    BY DEF TaskLocks, Holds, TypeOK
  <2>3. \A i \in Tasks \ Unraised :
            task'[i].decision # "unraised" /\ (i \notin held[s] => task'[i] = task[i])
    BY <1>6, <2>2, TaskWrites DEF Unraised
  <2> QED BY <2>1, <2>3, ClosingLocks
<1>7. ASSUME NEW p \in Preparers, AtTheDesk(p) PROVE TaskLocks'
  <2>1. \A t \in Trades : figures[t] \in Figures BY DEF TypeOK
  <2>2. {"correct", "acknowledge", "submit"} \subseteq Work BY DEF Work
  <2> QED BY <1>2, <1>3, <1>4, <1>5, <1>7, <2>1, <2>2
          DEF AtTheDesk, BeginCorrection, BeginAcknowledgement, BeginSubmission
<1>8. ASSUME NEW a \in Approvers, AtTheApproval(a) PROVE TaskLocks'
  BY <1>6, <1>8, ApproverMoveLocks DEF AtTheApproval
<1>9. ASSUME NEW m \in Matchers, Matching(m) PROVE TaskLocks'
  BY <1>2, <1>4, <1>9 DEF Matching, BeginMatch, Work
<1> QED BY <1>1, <1>3, <1>4, <1>7, <1>8, <1>9 DEF Next

-----------------------------------------------------------------------------
(* Tasks and the status of their trades.                                   *)

\* Where no task is rewritten and a status only moves to validation_pending.
QuietStep ==
    /\ UNCHANGED task
    /\ \A t \in Trades : status'[t] \in {status[t], "validation_pending"}

\* Every step but the two that write tasks is quiet.
LEMMA QuietSteps ==
  ASSUME TypeOK, [Next]_vars
  PROVE  \/ QuietStep
         \/ \E s \in Sessions : SaveSubmission(s)
         \/ \E s \in Sessions : SaveDecisions(s)
<1> USE DEF Sessions, Users
<1>1. CASE UNCHANGED vars
  BY <1>1 DEF QuietStep, vars, trade
<1>2. ASSUME NEW s \in Sessions,
             SaveCorrection(s) \/ SaveMatch(s) \/ RefuseSubmission(s)
      PROVE  QuietStep
  <2>1. note[s].trade \in Trades BY DEF TypeOK, Note
  <2>2. status' = [status EXCEPT ![note[s].trade] = Validated(s)] /\ UNCHANGED task
    BY <1>2 DEF SaveCorrection, SaveMatch, RefuseSubmission
  <2> QED BY <2>1, <2>2 DEF QuietStep, Validated, TypeOK
<1>3. ASSUME NEW s \in Sessions,
             \/ Judge(s) \/ Answer(s) \/ SaveAcknowledgement(s) \/ Abandon(s)
             \/ TakeTask(s) \/ LoadTrade(s) \/ Decide(s) \/ Refuse(s)
             \/ \E t \in Trades, w \in Work, f \in Figures : Load(s, t, w, f)
             \/ \E batch \in SUBSET Tasks, decision \in {"approved", "rejected"} :
                    BeginDecisions(s, batch, decision)
      PROVE  QuietStep
  BY <1>3 DEF QuietStep, Judge, Answer, SaveAcknowledgement, Abandon, TakeTask,
              LoadTrade, Decide, Refuse, Load, BeginDecisions, trade
<1>4. ASSUME NEW p \in Preparers, AtTheDesk(p) PROVE QuietStep \/ SaveSubmission(p)
  <2>1. \A t \in Trades : figures[t] \in Figures BY DEF TypeOK
  <2>2. {"correct", "acknowledge", "submit"} \subseteq Work BY DEF Work
  <2> QED BY <1>2, <1>3, <1>4, <2>1, <2>2
          DEF AtTheDesk, BeginCorrection, BeginAcknowledgement, BeginSubmission
<1>5. ASSUME NEW a \in Approvers, AtTheApproval(a) PROVE QuietStep \/ SaveDecisions(a)
  BY <1>3, <1>5 DEF AtTheApproval
<1>6. ASSUME NEW m \in Matchers, Matching(m) PROVE QuietStep
  BY <1>2, <1>3, <1>6 DEF Matching, BeginMatch, Work
<1> QED BY <1>1, <1>3, <1>4, <1>5, <1>6 DEF Next

LEMMA TasksStep ==
  TypeOK /\ TaskLocks /\ OneOpenTask /\ AwaitingHasTask /\ [Next]_vars
    => OneOpenTask' /\ AwaitingHasTask'
<1> SUFFICES ASSUME TypeOK, TaskLocks, OneOpenTask, AwaitingHasTask, [Next]_vars
             PROVE  OneOpenTask' /\ AwaitingHasTask'
  OBVIOUS
<1>1. CASE QuietStep
  <2>1. PendingTasks(0)' = PendingTasks(0) /\ \A t \in Trades : PendingTasks(t)' = PendingTasks(t)
    BY <1>1 DEF QuietStep, PendingTasks
  <2> QED BY <1>1, <2>1 DEF QuietStep, OneOpenTask, AwaitingHasTask
<1>2. ASSUME NEW s \in Sessions, SaveSubmission(s) PROVE OneOpenTask' /\ AwaitingHasTask'
  <2> DEFINE t == note[s].trade
  <2>1. t \in Trades BY DEF TypeOK, Note
  <2>2. \A i \in Tasks : task'[i] # task[i] =>
           /\ task[i].decision = "unraised"
           /\ task'[i].decision = "pending" /\ task'[i].trade = t
           /\ PendingTasks(t) = {}
           /\ \A k \in Tasks : k # i => task'[k] = task[k]
    BY <1>2, TaskWrites
  <2>3. OneOpenTask'
    BY <2>2 DEF OneOpenTask, PendingTasks
  <2>4. \A k \in Tasks : task[k].decision = "pending" => task'[k] = task[k]
    BY <2>2
  <2>5. \E i \in Tasks : task'[i].trade = t /\ task'[i].decision = "pending"
    <3>1. CASE PendingTasks(t) # {}
      BY <3>1, <2>4 DEF PendingTasks
    <3>2. CASE PendingTasks(t) = {}
      <4>1. PICK i \in Unraised :
               task' = [task EXCEPT ![i] = [trade |-> t, decision |-> "pending",
                                            by |-> Nobody]]
        BY <1>2, <3>2 DEF SaveSubmission, RaiseTask
      <4> QED BY <4>1 DEF Unraised, TypeOK
    <3> QED BY <3>1, <3>2
  <2>6. status' = [status EXCEPT ![t] = "approval_pending"]
    BY <1>2 DEF SaveSubmission
  <2>7. ASSUME NEW u \in Trades, status'[u] = "approval_pending"
        PROVE  \E i \in Tasks : task'[i].trade = u /\ task'[i].decision = "pending"
    <3>1. CASE u = t BY <2>5, <3>1
    <3>2. CASE u # t
      <4>1. PendingTasks(u) # {}
        BY <2>1, <2>6, <2>7, <3>2 DEF AwaitingHasTask, TypeOK
      <4> QED BY <4>1, <2>4 DEF PendingTasks
    <3> QED BY <3>1, <3>2
  <2>8. AwaitingHasTask' BY <2>7 DEF AwaitingHasTask, PendingTasks
  <2> QED BY <2>3, <2>8
<1>3. ASSUME NEW s \in Sessions, SaveDecisions(s) PROVE OneOpenTask' /\ AwaitingHasTask'
  <2>1. \A i \in Tasks :
          /\ task'[i].trade = task[i].trade
          /\ i \notin picks[s] => task'[i] = task[i]
          /\ i \in picks[s] => task'[i].decision = verdict[s]
    BY <1>3, TaskWrites
  <2>2. verdict[s] \in {"approved", "rejected"} BY DEF TypeOK
  <2>3. OneOpenTask' BY <2>1, <2>2 DEF OneOpenTask
  <2>4. ASSUME NEW u \in Trades, status'[u] = "approval_pending"
        PROVE  \E i \in Tasks : task'[i].trade = u /\ task'[i].decision = "pending"
    <3>1. status[u] = "approval_pending" /\ \A i \in picks[s] : task[i].trade # u
      BY <1>3, <2>2, <2>4 DEF SaveDecisions
    <3>2. PICK i \in Tasks : task[i].trade = u /\ task[i].decision = "pending"
      BY <3>1 DEF AwaitingHasTask, PendingTasks
    <3> QED BY <2>1, <3>1, <3>2
  <2>5. AwaitingHasTask' BY <2>4 DEF AwaitingHasTask, PendingTasks
  <2> QED BY <2>3, <2>5
<1> QED BY <1>1, <1>2, <1>3, QuietSteps

-----------------------------------------------------------------------------
(* Evaluations and submissions.                                            *)

\* The rows a session may leave as the newest are grounded.
LEMMA GroundedNewest ==
  ASSUME TypeOK, Evaluations, NEW s \in Sessions, pc[s] = "judged",
         note[s].work # "acknowledge", NEW newest \in Newest(s)
  PROVE  Grounded(newest, note[s].trade)
<1>1. note[s].trade \in Trades BY DEF TypeOK, Note
<1> QED BY <1>1 DEF Evaluations, Newest

\* What an evaluation records is grounded if the one before it was.
LEMMA GroundedEvaluate ==
  ASSUME TypeOK, Evaluations, NEW t \in Trades, NEW f \in Figures
  PROVE  Grounded(Evaluate(f, latest[t]), t)
BY DEF Evaluations, Grounded, Evaluate, CarriesAcknowledgement

\* The steps that neither write evaluations nor judge anything.
LEMMA EvaluationsKept ==
  ASSUME TypeOK, Evaluations, NEW s \in Sessions,
         UNCHANGED <<latest, accepted>>, pc'[s] # "judged",
         \A r \in Sessions \ {s} : pc'[r] = pc[r] /\ note'[r] = note[r]
  PROVE  Evaluations'
BY DEF Evaluations, Grounded

LEMMA EvaluationsStep ==
  TypeOK /\ Evaluations /\ [Next]_vars => Evaluations'
<1> SUFFICES ASSUME TypeOK, Evaluations, [Next]_vars PROVE Evaluations'
  OBVIOUS
<1> USE DEF Sessions, Users
<1>0. \A s \in Sessions : /\ note[s] \in Note /\ note[s].trade \in Trades
                          /\ note[s].figs \in Figures
  BY DEF TypeOK, Note
<1>1. CASE UNCHANGED vars
  BY <1>1 DEF Evaluations, Grounded, vars, trade, session
<1>2. ASSUME NEW s \in Sessions,
             \/ Abandon(s) \/ SaveDecisions(s)
             \/ TakeTask(s) \/ LoadTrade(s) \/ Decide(s) \/ Refuse(s)
             \/ \E t \in Trades, w \in Work, f \in Figures : Load(s, t, w, f)
             \/ \E batch \in SUBSET Tasks, decision \in {"approved", "rejected"} :
                    BeginDecisions(s, batch, decision)
      PROVE  Evaluations'
  <2>1. UNCHANGED <<latest, accepted>>
    BY <1>2 DEF Abandon, SaveDecisions, TakeTask, LoadTrade, Decide, Refuse, Load,
                BeginDecisions, trade
  <2>2. pc'[s] # "judged" /\ \A r \in Sessions \ {s} : pc'[r] = pc[r] /\ note'[r] = note[r]
    BY <1>2 DEF Abandon, SaveDecisions, TakeTask, LoadTrade, Decide, Refuse, Load,
                BeginDecisions, CloseSession, TypeOK
  <2> QED BY <2>1, <2>2, EvaluationsKept
<1>3. ASSUME NEW s \in Sessions, Judge(s) PROVE Evaluations'
  <2>1. UNCHANGED <<latest, accepted>> /\ pc[s] = "loaded"
        /\ \A r \in Sessions \ {s} : pc'[r] = pc[r] /\ note'[r] = note[r]
    BY <1>3 DEF Judge, TypeOK, trade
  <2>2. /\ note'[s].row = Evaluate(note[s].figs, latest[note[s].trade])
        /\ note'[s].figs = note[s].figs /\ note'[s].trade = note[s].trade
    BY <1>0, <1>3 DEF Judge, TypeOK, Note
  <2>3. Grounded(note'[s].row, note'[s].trade) /\ note'[s].row.of = note'[s].figs
    BY <1>0, <2>2, GroundedEvaluate DEF Evaluate
  <2>4. note'[s].work # "acknowledge"
    BY <1>0, <1>3 DEF Judge, TypeOK, Note
  <2> QED BY <2>1, <2>3, <2>4 DEF Evaluations, Grounded
<1>4. ASSUME NEW s \in Sessions, Answer(s) PROVE Evaluations'
  <2>1. UNCHANGED <<latest, accepted>> /\ note[s].work = "acknowledge"
        /\ \A r \in Sessions \ {s} : pc'[r] = pc[r] /\ note'[r] = note[r]
    BY <1>4 DEF Answer, TypeOK, trade
  <2>2. note'[s].work = "acknowledge" /\ note'[s].row.acknowledged
    <3>1. latest[note[s].trade] \in Evaluation BY <1>0 DEF TypeOK
    <3> QED BY <1>0, <1>4, <3>1 DEF Answer, TypeOK, Note, Evaluation
  <2> QED BY <2>1, <2>2 DEF Evaluations, Grounded
<1>5. ASSUME NEW s \in Sessions, SaveCorrection(s) PROVE Evaluations'
  <2>1. Grounded(Evaluate(note[s].figs, latest[note[s].trade]), note[s].trade)
    BY <1>0, GroundedEvaluate
  <2>2. Grounded(Evaluate(note[s].figs, latest[note[s].trade]), note[s].trade) /\ accepted' = accepted
        /\ CloseSession(s)
        /\ latest' = [latest EXCEPT ![note[s].trade] = Evaluate(note[s].figs, latest[note[s].trade])]
    BY <1>5, <2>1 DEF SaveCorrection
  <2> DEFINE r == Evaluate(note[s].figs, latest[note[s].trade])
             t == note[s].trade
  <2>3. t \in Trades /\ latest' = [latest EXCEPT ![t] = r] /\ Grounded(r, t)
    BY <1>0, <2>2
  <2> HIDE DEF r, t
  <2> QED BY <2>2, <2>3 DEF Evaluations, Grounded, CloseSession, TypeOK, Note
<1>6. ASSUME NEW s \in Sessions,
             SaveMatch(s) \/ RefuseSubmission(s) \/ SaveSubmission(s)
      PROVE  Evaluations'
  <2>1. pc[s] = "judged" /\ note[s].work # "acknowledge" /\ CloseSession(s)
        /\ accepted' = accepted
    BY <1>6 DEF SaveMatch, RefuseSubmission, SaveSubmission
  <2>2. PICK newest \in Newest(s) : latest' = [latest EXCEPT ![note[s].trade] = newest]
    BY <1>6 DEF SaveMatch, RefuseSubmission, SaveSubmission
  <2>3. Grounded(newest, note[s].trade)
    BY <2>1, GroundedNewest
  <2>4. Grounded(newest, note[s].trade) /\ note[s].trade \in Trades
    BY <1>0, <2>3
  <2> QED BY <2>1, <2>2, <2>4 DEF Evaluations, Grounded, CloseSession, TypeOK, Note
<1>7. ASSUME NEW s \in Sessions, SaveAcknowledgement(s) PROVE Evaluations'
  <2> DEFINE t == note[s].trade
  <2>1. CloseSession(s) /\ t \in Trades
        /\ accepted' = [accepted EXCEPT ![t] = @ \cup {note[s].row.of}]
    BY <1>0, <1>7 DEF SaveAcknowledgement
  <2>2. PICK newest \in Newest(s) : latest' = [latest EXCEPT ![t] = newest]
    BY <1>7 DEF SaveAcknowledgement
  <2>3. CASE newest = latest[t]
    BY <2>1, <2>2, <2>3 DEF Evaluations, Grounded, CloseSession, TypeOK, Note
  <2>4. CASE newest = note[s].row
    <3>1. note[s].row.acknowledged BY <1>7 DEF SaveAcknowledgement, Evaluations
    <3> QED
      BY <2>1, <2>2, <2>4, <3>1 DEF Evaluations, Grounded, CloseSession, TypeOK, Note
  <2> QED BY <2>2, <2>3, <2>4 DEF Newest
<1>8. ASSUME NEW p \in Preparers, AtTheDesk(p) PROVE Evaluations'
  <2>1. \A t \in Trades : figures[t] \in Figures BY DEF TypeOK
  <2>2. {"correct", "acknowledge", "submit"} \subseteq Work BY DEF Work
  <2> QED BY <1>2, <1>4, <1>5, <1>6, <1>7, <1>8, <2>1, <2>2
          DEF AtTheDesk, BeginCorrection, BeginAcknowledgement, BeginSubmission
<1>9. ASSUME NEW a \in Approvers, AtTheApproval(a) PROVE Evaluations'
  BY <1>2, <1>9 DEF AtTheApproval
<1>10. ASSUME NEW m \in Matchers, Matching(m) PROVE Evaluations'
  BY <1>2, <1>6, <1>10 DEF Matching, BeginMatch, Work
<1> QED BY <1>1, <1>2, <1>3, <1>8, <1>9, <1>10 DEF Next

LEMMA SubmissionStep ==
  TypeOK /\ Evaluations /\ SubmissionIsClean /\ [Next]_vars => SubmissionIsClean'
<1> SUFFICES ASSUME TypeOK, Evaluations, SubmissionIsClean, [Next]_vars
             PROVE  SubmissionIsClean'
  OBVIOUS
<1> USE DEF Sessions, Users
<1>0. \A s \in Sessions : note[s].trade \in Trades BY DEF TypeOK, Note
<1>1. CASE UNCHANGED vars
  BY <1>1 DEF SubmissionIsClean, vars, trade
<1>2. ASSUME NEW s \in Sessions,
             SaveCorrection(s) \/ SaveMatch(s) \/ RefuseSubmission(s)
      PROVE  SubmissionIsClean'
  <2>1. /\ status' = [status EXCEPT ![note[s].trade] = Validated(s)]
        /\ UNCHANGED <<accepted, validated>>
    BY <1>2 DEF SaveCorrection, SaveMatch, RefuseSubmission
  <2> QED BY <1>0, <2>1 DEF SubmissionIsClean, Validated, TypeOK
<1>3. ASSUME NEW s \in Sessions,
             \/ Judge(s) \/ Answer(s) \/ Abandon(s)
             \/ TakeTask(s) \/ LoadTrade(s) \/ Decide(s) \/ Refuse(s)
             \/ \E t \in Trades, w \in Work, f \in Figures : Load(s, t, w, f)
             \/ \E batch \in SUBSET Tasks, decision \in {"approved", "rejected"} :
                    BeginDecisions(s, batch, decision)
      PROVE  SubmissionIsClean'
  <2>1. UNCHANGED trade
    BY <1>3 DEF Judge, Answer, Abandon, TakeTask, LoadTrade, Decide, Refuse, Load,
                BeginDecisions
  <2> QED BY <2>1 DEF SubmissionIsClean, trade
<1>4. ASSUME NEW s \in Sessions, SaveAcknowledgement(s) PROVE SubmissionIsClean'
  BY <1>0, <1>4 DEF SaveAcknowledgement, SubmissionIsClean, TypeOK
<1>5. ASSUME NEW s \in Sessions, SaveDecisions(s) PROVE SubmissionIsClean'
  <2>1. \A t \in Trades : status'[t] = "approval_pending" => status[t] = "approval_pending"
    BY <1>5 DEF SaveDecisions
  <2> QED BY <1>5, <2>1 DEF SaveDecisions, SubmissionIsClean
<1>6. ASSUME NEW s \in Sessions, SaveSubmission(s) PROVE SubmissionIsClean'
  <2>1. /\ pc[s] = "judged" /\ note[s].work = "submit" /\ note[s].row.passed
        /\ status' = [status EXCEPT ![note[s].trade] = "approval_pending"]
        /\ validated' = [validated EXCEPT ![note[s].trade] = note[s].figs]
        /\ accepted' = accepted
    BY <1>6 DEF SaveSubmission
  <2>2. note[s].figs \in Passing \/ note[s].figs \in accepted[note[s].trade]
    BY <2>1 DEF Evaluations, Grounded
  <2> QED BY <1>0, <2>1, <2>2 DEF SubmissionIsClean, TypeOK
<1>7. ASSUME NEW p \in Preparers, AtTheDesk(p) PROVE SubmissionIsClean'
  <2>1. \A t \in Trades : figures[t] \in Figures BY DEF TypeOK
  <2>2. {"correct", "acknowledge", "submit"} \subseteq Work BY DEF Work
  <2> QED BY <1>2, <1>3, <1>4, <1>6, <1>7, <2>1, <2>2
          DEF AtTheDesk, BeginCorrection, BeginAcknowledgement, BeginSubmission
<1>8. ASSUME NEW a \in Approvers, AtTheApproval(a) PROVE SubmissionIsClean'
  BY <1>3, <1>5, <1>8 DEF AtTheApproval
<1>9. ASSUME NEW m \in Matchers, Matching(m) PROVE SubmissionIsClean'
  BY <1>2, <1>3, <1>9 DEF Matching, BeginMatch, Work
<1> QED BY <1>1, <1>3, <1>7, <1>8, <1>9 DEF Next

-----------------------------------------------------------------------------
(* Maker and checker.                                                      *)

\* A step of s leaves what another session knows of its own submissions.
LEMMA OtherMakers ==
  ASSUME TypeOK, TaskLocks, MakerChecker, NEW s \in Sessions, NEW r \in Sessions, r # s,
         /\ pc'[r] = pc[r] /\ note'[r] = note[r] /\ picks'[r] = picks[r]
         /\ verdict'[r] = verdict[r],
         \A i \in picks[r] : task'[i] = task[i],
         \A t \in Trades : submitter'[t] \in {submitter[t], s}
  PROVE  Maker(r)'
<1>1. picks[r] \subseteq Tasks /\ \A i \in picks[r] : task[i].trade \in Trades
  BY DEF TypeOK, TaskRow
<1>2. note[r].trade \in Trades BY DEF TypeOK, Note
<1>3. Maker(r) BY DEF MakerChecker
<1>4. ASSUME verdict[r] = "approved", NEW i \in picks[r]
      PROVE  submitter'[task'[i].trade] # r
  <2>1. submitter[task[i].trade] # r BY <1>3, <1>4 DEF Maker
  <2>2. task'[i].trade = task[i].trade /\ task[i].trade \in Trades BY <1>1, <1>4
  <2> QED BY <2>1, <2>2
<1>5. ASSUME verdict[r] = "approved", pc[r] = "weighing", note[r].by # r
      PROVE  submitter'[note[r].trade] # r
  <2>1. submitter[note[r].trade] # r BY <1>3, <1>5 DEF Maker
  <2> QED BY <1>2, <2>1
<1> QED BY <1>4, <1>5 DEF Maker

LEMMA MakerStep ==
  TypeOK /\ TaskLocks /\ MakerChecker /\ [Next]_vars => MakerChecker'
<1> SUFFICES ASSUME TypeOK, TaskLocks, MakerChecker, [Next]_vars PROVE MakerChecker'
  OBVIOUS
<1> USE DEF Sessions, Users
<1>0. \A s \in Sessions : note[s] \in Note /\ note[s].trade \in Trades BY DEF TypeOK, Note
<1>1. CASE UNCHANGED vars
  BY <1>1 DEF MakerChecker, Maker, vars, trade, session
<1>2. ASSUME NEW s \in Sessions, pc'[s] # "weighing", picks'[s] = {},
             UNCHANGED <<task, submitter>>,
             \A r \in Sessions \ {s} : /\ pc'[r] = pc[r] /\ note'[r] = note[r]
                                       /\ picks'[r] = picks[r] /\ verdict'[r] = verdict[r]
      PROVE  MakerChecker'
  BY <1>2 DEF MakerChecker, Maker
<1>3. ASSUME NEW s \in Sessions,
             \/ SaveCorrection(s) \/ SaveMatch(s) \/ RefuseSubmission(s)
             \/ SaveAcknowledgement(s) \/ Abandon(s)
      PROVE  MakerChecker'
  <2>1. CloseSession(s) /\ UNCHANGED <<task, submitter>>
    BY <1>3 DEF SaveCorrection, SaveMatch, RefuseSubmission, SaveAcknowledgement, Abandon, trade
  <2> QED BY <1>2, <2>1 DEF CloseSession, TypeOK
<1>4. ASSUME NEW s \in Sessions,
             \/ Judge(s) \/ Answer(s)
             \/ \E t \in Trades, w \in Work, f \in Figures : Load(s, t, w, f)
             \/ \E batch \in SUBSET Tasks, decision \in {"approved", "rejected"} :
                    BeginDecisions(s, batch, decision)
      PROVE  MakerChecker'
  <2>1. /\ pc'[s] # "weighing" /\ UNCHANGED <<task, submitter, picks>>
        /\ \A r \in Sessions \ {s} : /\ pc'[r] = pc[r] /\ note'[r] = note[r]
                                     /\ verdict'[r] = verdict[r]
        /\ pc[s] \notin {"deciding", "taken", "weighing"}
    BY <1>4 DEF Judge, Answer, Load, BeginDecisions, TypeOK, trade
  <2>2. picks[s] = {} BY <2>1 DEF TaskLocks, Holds
  <2> QED BY <1>2, <2>1, <2>2
<1>5. ASSUME NEW a \in Sessions, TakeTask(a) \/ Refuse(a) PROVE MakerChecker'
  <2>1. /\ pc'[a] # "weighing" /\ UNCHANGED <<task, submitter, picks, verdict>>
        /\ \A r \in Sessions \ {a} : pc'[r] = pc[r] /\ note'[r] = note[r]
    BY <1>5 DEF TakeTask, Refuse, TypeOK, trade
  <2> QED BY <2>1 DEF MakerChecker, Maker
<1>6. ASSUME NEW a \in Sessions, LoadTrade(a) PROVE MakerChecker'
  <2>1. /\ UNCHANGED <<task, submitter, picks, verdict>>
        /\ \A r \in Sessions \ {a} : pc'[r] = pc[r] /\ note'[r] = note[r]
    BY <1>6 DEF LoadTrade, TypeOK, trade
  <2>2. note'[a].trade = note[a].trade /\ note'[a].by = submitter[note[a].trade]
    BY <1>0, <1>6 DEF LoadTrade, TypeOK, Note
  <2> QED BY <2>1, <2>2 DEF MakerChecker, Maker
<1>7. ASSUME NEW a \in Sessions, Decide(a) PROVE MakerChecker'
  <2>1. /\ UNCHANGED <<task, submitter, note, verdict>> /\ pc[a] = "weighing"
        /\ pc'[a] = "deciding" /\ picks'[a] = picks[a] \cup {note[a].task}
        /\ \A r \in Sessions \ {a} : pc'[r] = pc[r] /\ picks'[r] = picks[r]
        /\ verdict[a] = "approved" => note[a].by # a
    BY <1>7 DEF Decide, MayDecide, TypeOK, trade
  <2>2. note[a].trade = task[note[a].task].trade
    BY <2>1 DEF TaskLocks, Holds
  <2> QED BY <2>1, <2>2 DEF MakerChecker, Maker
<1>8. ASSUME NEW s \in Sessions, SaveDecisions(s) PROVE MakerChecker'
  <2>1. CloseSession(s) /\ UNCHANGED submitter BY <1>8 DEF SaveDecisions
  <2>2. \A r \in Sessions \ {s} : \A i \in picks[r] : task'[i] = task[i]
    <3>1. \A r \in Sessions \ {s} : picks[r] \subseteq Tasks /\ picks[r] \cap picks[s] = {}
      BY DEF TaskLocks, Holds, TypeOK
    <3> QED BY <1>8, <3>1, TaskWrites
  <2>3. /\ pc'[s] = "idle" /\ picks'[s] = {}
        /\ \A r \in Sessions \ {s} : /\ pc'[r] = pc[r] /\ note'[r] = note[r]
                                     /\ picks'[r] = picks[r] /\ verdict'[r] = verdict[r]
    BY <2>1 DEF CloseSession, TypeOK
  <2>4. Maker(s)' BY <2>3 DEF Maker
  <2> QED BY <2>1, <2>2, <2>3, <2>4, OtherMakers DEF MakerChecker
<1>9. ASSUME NEW s \in Sessions, SaveSubmission(s) PROVE MakerChecker'
  <2>1. CloseSession(s) /\ submitter' = [submitter EXCEPT ![note[s].trade] = s]
    BY <1>9 DEF SaveSubmission
  <2>2. \A r \in Sessions \ {s} : \A i \in picks[r] : task'[i] = task[i]
    <3>1. \A r \in Sessions : \A i \in picks[r] : i \in Tasks /\ task[i].decision = "pending"
      BY DEF TaskLocks, Holds, TypeOK
    <3> QED BY <1>9, <3>1, TaskWrites
  <2>3. /\ pc'[s] = "idle" /\ picks'[s] = {}
        /\ \A r \in Sessions \ {s} : /\ pc'[r] = pc[r] /\ note'[r] = note[r]
                                     /\ picks'[r] = picks[r] /\ verdict'[r] = verdict[r]
    BY <2>1 DEF CloseSession, TypeOK
  <2>4. Maker(s)' BY <2>3 DEF Maker
  <2>5. \A t \in Trades : submitter'[t] \in {submitter[t], s}
    BY <1>0, <2>1 DEF TypeOK
  <2> QED BY <2>2, <2>3, <2>4, <2>5, OtherMakers DEF MakerChecker
<1>10. ASSUME NEW p \in Preparers, AtTheDesk(p) PROVE MakerChecker'
  <2>1. \A t \in Trades : figures[t] \in Figures BY DEF TypeOK
  <2>2. {"correct", "acknowledge", "submit"} \subseteq Work BY DEF Work
  <2> QED BY <1>3, <1>4, <1>9, <1>10, <2>1, <2>2
          DEF AtTheDesk, BeginCorrection, BeginAcknowledgement, BeginSubmission
<1>11. ASSUME NEW a \in Approvers, AtTheApproval(a) PROVE MakerChecker'
  BY <1>4, <1>5, <1>6, <1>7, <1>8, <1>11 DEF AtTheApproval
<1>12. ASSUME NEW m \in Matchers, Matching(m) PROVE MakerChecker'
  BY <1>3, <1>4, <1>12 DEF Matching, BeginMatch, Work
<1> QED BY <1>1, <1>3, <1>4, <1>10, <1>11, <1>12 DEF Next

-----------------------------------------------------------------------------
\* The invariant holds from the start, and every step keeps it.
THEOREM DeskInvariant == Spec => []DeskInv
<1>1. Init => DeskInv
  <2> SUFFICES ASSUME Init PROVE DeskInv
    OBVIOUS
  <2>1. TypeOK BY InitTypes
  <2>2. TaskLocks BY DEF Init, TaskLocks, Holds, Unraised
  <2>3. OneOpenTask /\ AwaitingHasTask /\ SubmissionIsClean
    BY DEF Init, OneOpenTask, AwaitingHasTask, SubmissionIsClean
  <2>4. Evaluations
    BY DEF Init, Evaluations, Grounded, Evaluate, CarriesAcknowledgement, NotEvaluated
  <2>5. MakerChecker BY DEF Init, MakerChecker, Maker
  <2> QED BY <2>1, <2>2, <2>3, <2>4, <2>5 DEF DeskInv
<1>2. DeskInv /\ [Next]_vars => DeskInv'
  BY StepTypes, LocksStep, TasksStep, EvaluationsStep, SubmissionStep, MakerStep DEF DeskInv
<1> QED BY <1>1, <1>2, PTL DEF Spec

\* A trade waits on at most one open approval task.
THEOREM OneTaskAtATime == Spec => []OneOpenTask
<1>1. DeskInv => OneOpenTask BY DEF DeskInv
<1> QED BY <1>1, DeskInvariant, PTL

\* A trade that waits for approval has a task somebody can decide.
THEOREM WaitingTradeHasTask == Spec => []AwaitingHasTask
<1>1. DeskInv => AwaitingHasTask BY DEF DeskInv
<1> QED BY <1>1, DeskInvariant, PTL

\* What was submitted passed every check or was acknowledged as it stands.
THEOREM SubmissionsAreClean == Spec => []SubmissionIsClean
<1>1. DeskInv => SubmissionIsClean BY DEF DeskInv
<1> QED BY <1>1, DeskInvariant, PTL

\* A decided task is never written again.
THEOREM DecisionsAreFinal == Spec => DecisionIsFinal
<1>1. DeskInv /\ [Next]_vars =>
        [\A i \in Tasks : task[i].decision \in {"approved", "rejected"}
                            => task'[i] = task[i]]_vars
  <2> SUFFICES ASSUME DeskInv, [Next]_vars, NEW i \in Tasks,
                      task[i].decision \in {"approved", "rejected"}
               PROVE  task'[i] = task[i]
    OBVIOUS
  <2>1. CASE UNCHANGED vars BY <2>1 DEF vars
  <2>2. CASE QuietStep BY <2>2 DEF QuietStep
  <2>3. ASSUME NEW s \in Sessions, SaveSubmission(s) \/ SaveDecisions(s)
        PROVE  task'[i] = task[i]
    BY <2>3, TaskWrites DEF DeskInv
  <2> QED BY <2>1, <2>2, <2>3, QuietSteps DEF DeskInv
<1> QED BY <1>1, DeskInvariant, PTL DEF Spec, DecisionIsFinal

\* Whoever approves a trade is not who last submitted it.
THEOREM MakerIsNotChecker == Spec => NeverOwnSubmission
<1>1. DeskInv /\ [Next]_vars =>
        [\A i \in Tasks :
            task[i].decision = "pending" /\ task'[i].decision = "approved"
              => task'[i].by # submitter[task[i].trade]]_vars
  <2> SUFFICES ASSUME DeskInv, [Next]_vars, NEW i \in Tasks,
                      task[i].decision = "pending", task'[i].decision = "approved"
               PROVE  task'[i].by # submitter[task[i].trade]
    OBVIOUS
  <2>1. CASE QuietStep BY <2>1 DEF QuietStep
  <2>2. ASSUME NEW s \in Sessions, SaveSubmission(s) PROVE FALSE
    BY <2>2, TaskWrites DEF DeskInv
  <2>3. ASSUME NEW s \in Sessions, SaveDecisions(s)
        PROVE  task'[i].by # submitter[task[i].trade]
    <3>1. i \in picks[s] /\ verdict[s] = "approved" /\ task'[i].by = s
      BY <2>3, TaskWrites DEF DeskInv
    <3> QED BY <3>1 DEF DeskInv, MakerChecker, Maker
  <2> QED BY <2>1, <2>2, <2>3, QuietSteps DEF DeskInv
<1> QED BY <1>1, DeskInvariant, PTL DEF Spec, NeverOwnSubmission

-----------------------------------------------------------------------------
(* One preparer, and no document that arrives late.                        *)

\* A session that ends leaves the others where they were.
LEMMA ClosedDesk ==
  ASSUME TypeOK, NEW s \in Sessions, CloseSession(s)
  PROVE  /\ pc'[s] = "idle"
         /\ \A r \in Sessions \ {s} : pc'[r] = pc[r] /\ note'[r] = note[r]
BY DEF CloseSession, TypeOK

\* A trade starts to wait, and its figures move, only where the preparer who
\* works on it says so.
LEMMA StepSigned ==
  ASSUME Matchers = {}, \A p, q \in Preparers : p = q
  PROVE  TypeOK /\ LoneDesk /\ SignedAsValidated /\ [Next]_vars
            => LoneDesk' /\ SignedAsValidated'
<1> SUFFICES ASSUME TypeOK, LoneDesk, SignedAsValidated, [Next]_vars
             PROVE  LoneDesk' /\ SignedAsValidated'
  OBVIOUS
<1> USE DEF trade
<1>0. Preparers \subseteq Sessions /\ Approvers \subseteq Sessions
  BY DEF Sessions
<1>a. ASSUME NEW s \in Sessions, CloseSession(s), UNCHANGED <<figures, validated>>,
             \A t \in Trades : status'[t] = "approval_pending" => status[t] = "approval_pending"
      PROVE  LoneDesk' /\ SignedAsValidated'
  <2>1. \A r \in Sessions : note[r].trade \in Trades
    BY DEF TypeOK, Note
  <2>2. LoneDesk'
    BY <1>a, <2>1, ClosedDesk DEF LoneDesk
  <2> QED BY <1>a, <2>2 DEF SignedAsValidated
<1>b. ASSUME NEW s \in Sessions, UNCHANGED trade, pc'[s] \notin {"loaded", "judged"},
             \A r \in Sessions \ {s} : pc'[r] = pc[r] /\ note'[r] = note[r]
      PROVE  LoneDesk' /\ SignedAsValidated'
  BY <1>b DEF LoneDesk, SignedAsValidated
<1>1. CASE UNCHANGED vars
  BY <1>1 DEF LoneDesk, SignedAsValidated, vars, session
<1>2. ASSUME NEW p \in Preparers, NEW t \in Trades, NEW w \in Work, NEW f \in Figures,
             Load(p, t, w, f), status[t] # "approval_pending", w = "submit" => f = figures[t]
      PROVE  LoneDesk' /\ SignedAsValidated'
  <2>1. /\ note'[p].work = w /\ note'[p].trade = t /\ note'[p].figs = f
        /\ UNCHANGED trade
        /\ \A r \in Sessions \ {p} : pc'[r] = pc[r] /\ note'[r] = note[r]
    BY <1>0, <1>2 DEF Load, TypeOK, Blank
  <2> QED BY <1>0, <1>2, <2>1 DEF LoneDesk, SignedAsValidated
<1>3. ASSUME NEW p \in Preparers, NEW t \in Trades, NEW f \in Figures, BeginCorrection(p, t, f)
      PROVE  LoneDesk' /\ SignedAsValidated'
  BY <1>2, <1>3 DEF BeginCorrection, LockedStatuses, Work
<1>4. ASSUME NEW p \in Preparers, NEW t \in Trades, BeginAcknowledgement(p, t) \/ BeginSubmission(p, t)
      PROVE  LoneDesk' /\ SignedAsValidated'
  <2>1. figures[t] \in Figures
    BY DEF TypeOK
  <2> QED BY <1>2, <1>4, <2>1 DEF BeginAcknowledgement, BeginSubmission, LockedStatuses, Work
<1>5. ASSUME NEW s \in Sessions, Judge(s) \/ Answer(s)
      PROVE  LoneDesk' /\ SignedAsValidated'
  <2>1. pc[s] = "loaded" /\ UNCHANGED trade
    BY <1>5 DEF Judge, Answer
  <2>2. /\ note'[s].work = note[s].work /\ note'[s].trade = note[s].trade
        /\ note'[s].figs = note[s].figs
        /\ \A r \in Sessions \ {s} : pc'[r] = pc[r] /\ note'[r] = note[r]
    <3>1. note[s] \in Note
      BY DEF TypeOK
    <3>2. \E base, row :
             note' = [note EXCEPT ![s] = [note[s] EXCEPT !.base = base, !.row = row]]
      BY <1>5, <3>1 DEF Judge, Answer
    <3>3. pc' = [pc EXCEPT ![s] = "judged"]
      BY <1>5 DEF Judge, Answer
    <3> QED BY <3>1, <3>2, <3>3 DEF TypeOK, Note
  <2> QED BY <2>1, <2>2 DEF LoneDesk, SignedAsValidated
<1>6. ASSUME NEW p \in Preparers, SaveCorrection(p)
      PROVE  LoneDesk' /\ SignedAsValidated'
  <2> DEFINE t == note[p].trade
  <2>1. /\ CloseSession(p) /\ t \in Trades /\ pc[p] = "loaded" /\ note[p].work = "correct"
        /\ figures' = [figures EXCEPT ![t] = note[p].figs] /\ UNCHANGED validated
        /\ status' = [status EXCEPT ![t] = Validated(p)]
    BY <1>0, <1>6 DEF SaveCorrection, TypeOK, Note
  <2>2. status[t] # "approval_pending" /\ status'[t] # "approval_pending"
    BY <1>0, <2>1 DEF LoneDesk, Validated, TypeOK
  <2>3. SignedAsValidated'
    BY <2>1, <2>2 DEF SignedAsValidated, TypeOK
  <2>4. LoneDesk'
    BY <1>0, <2>1, ClosedDesk DEF LoneDesk
  <2> QED BY <2>3, <2>4
<1>7. ASSUME NEW p \in Preparers, SaveAcknowledgement(p) \/ RefuseSubmission(p)
      PROVE  LoneDesk' /\ SignedAsValidated'
  <2>1. /\ CloseSession(p) /\ UNCHANGED <<figures, validated>>
        /\ note[p].trade \in Trades
        /\ \/ UNCHANGED status
           \/ status' = [status EXCEPT ![note[p].trade] = Validated(p)]
    BY <1>0, <1>7 DEF SaveAcknowledgement, RefuseSubmission, TypeOK, Note
  <2>2. \A t \in Trades : status'[t] = "approval_pending" => status[t] = "approval_pending"
    BY <2>1 DEF Validated, TypeOK
  <2> QED BY <1>0, <1>a, <2>1, <2>2
<1>8. ASSUME NEW p \in Preparers, SaveSubmission(p)
      PROVE  LoneDesk' /\ SignedAsValidated'
  <2> DEFINE t == note[p].trade
  <2>1. /\ CloseSession(p) /\ t \in Trades /\ pc[p] = "judged" /\ note[p].work = "submit"
        /\ validated' = [validated EXCEPT ![t] = note[p].figs] /\ UNCHANGED figures
        /\ status' = [status EXCEPT ![t] = "approval_pending"]
    BY <1>0, <1>8 DEF SaveSubmission, TypeOK, Note
  <2>2. note[p].figs = figures[t]
    BY <1>0, <2>1 DEF LoneDesk
  <2>3. SignedAsValidated'
    BY <2>1, <2>2 DEF SignedAsValidated, TypeOK
  <2>4. LoneDesk'
    BY <1>0, <2>1, ClosedDesk DEF LoneDesk
  <2> QED BY <2>3, <2>4
<1>9. ASSUME NEW a \in Approvers, AtTheApproval(a)
      PROVE  LoneDesk' /\ SignedAsValidated'
  <2>1. CASE SaveDecisions(a)
    <3>1. /\ CloseSession(a) /\ UNCHANGED <<figures, validated>>
          /\ \A t \in Trades : status'[t] = "approval_pending" => status[t] = "approval_pending"
      BY <2>1 DEF SaveDecisions
    <3> QED BY <1>0, <1>a, <3>1
  <2>2. CASE ~SaveDecisions(a)
    <3>1. /\ UNCHANGED trade /\ pc'[a] \notin {"loaded", "judged"}
          /\ \A r \in Sessions \ {a} : pc'[r] = pc[r] /\ note'[r] = note[r]
      BY <1>0, <1>9, <2>2 DEF AtTheApproval, BeginDecisions, TakeTask, LoadTrade, Decide,
         Refuse, TypeOK
    <3> QED BY <1>0, <1>b, <3>1
  <2> QED BY <2>1, <2>2
<1>10. ASSUME NEW s \in Sessions, Abandon(s)
      PROVE  LoneDesk' /\ SignedAsValidated'
  BY <1>a, <1>10 DEF Abandon
<1> QED
  BY <1>0, <1>1, <1>3, <1>4, <1>5, <1>6, <1>7, <1>8, <1>9, <1>10 DEF Next, AtTheDesk

\* Where one preparer works and no late document is matched, what an approver
\* is asked to sign is what the submission validated, for any number of trades
\* and of approvers who decide at once.
THEOREM WaitingKeepsItsFigures ==
  ASSUME Matchers = {}, \A p, q \in Preparers : p = q
  PROVE  Spec => []SignedAsValidated
<1>1. Init => LoneDesk /\ SignedAsValidated
  BY DEF Init, LoneDesk, SignedAsValidated
<1>2. TypeOK /\ LoneDesk /\ SignedAsValidated /\ [Next]_vars => LoneDesk' /\ SignedAsValidated'
  BY StepSigned
<1> QED BY <1>1, <1>2, DeskTypeCorrect, PTL DEF Spec
=============================================================================
