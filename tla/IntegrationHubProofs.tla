------------------------ MODULE IntegrationHubProofs ------------------------
(***************************************************************************)
(* Proofs about IntegrationHub for every set of trades, targets, replicas  *)
(* and administrators.                                                     *)
(***************************************************************************)
EXTENDS IntegrationHub, TLAPS

\* The jobs of a trade are jobs, and every job belongs to its own trade.
LEMMA JobFacts ==
    /\ \A t \in Txns : JobsOf(t) \subseteq Jobs
    /\ \A t \in Txns : \A j \in JobsOf(t) : TxnOf(j) = t
    /\ \A j \in Jobs : TxnOf(j) \in Txns /\ j \in JobsOf(TxnOf(j))
    /\ \A j \in Jobs : TargetOf(j) \in Targets
BY DEF Jobs, JobsOf, TxnOf, TargetOf

\* A row a session has not loaded is not a job row.
LEMMA RowFacts ==
    /\ Unread \notin JobRow
    /\ Unread.status = "unread"
    /\ AbsentJob \in JobRow /\ NewJob \in JobRow
BY HubConstants DEF Unread, JobRow, JobStatus, AbsentJob, NewJob

\* Changing the status, the counter or the manual mark of a job row keeps it one.
LEMMA RowUpdate ==
    ASSUME NEW r \in JobRow, NEW st \in JobStatus, NEW n \in 0..MaxAttempts
    PROVE  /\ [r EXCEPT !.status = st] \in JobRow
           /\ [r EXCEPT !.status = st, !.attempts = n] \in JobRow
           /\ [r EXCEPT !.status = st, !.byHand = TRUE] \in JobRow
BY DEF JobRow

\* What replacing one row of one session's copies does to the others.
LEMMA ViewUpdate ==
    ASSUME TypeOK, NEW s \in Sessions, NEW j \in Jobs, NEW row \in JobRow,
           view' = [view EXCEPT ![s] = [view[s] EXCEPT ![j] = row]]
    PROVE  /\ view' \in [Sessions -> [Jobs -> JobRow \cup {Unread}]]
           /\ view'[s][j] = row
           /\ \A k \in Jobs : k # j => view'[s][k] = view[s][k]
           /\ \A r \in Sessions : r # s => view'[r] = view[r]
BY DEF TypeOK

\* The answer of an adapter is one of the outcomes, and decides a status.
LEMMA AnswerFacts ==
    /\ \A j \in Jobs : \A a \in Answers(j) :
          a.outcome \in Outcomes \ {"none", "confirmed"} /\ (a.outcome = "succeeded" => a.accepted)
    /\ \A a \in Outcomes, n \in 0..MaxAttempts :
          /\ StatusAfter(a, n) \in JobStatus \ {"absent", "processing"}
          /\ StatusAfter(a, n) = "queued" => n < MaxAttempts
          /\ StatusAfter(a, n) = "succeeded" => a = "succeeded"
<1>1. \A j \in Jobs : \A a \in Answers(j) :
          a.outcome \in Outcomes \ {"none", "confirmed"} /\ (a.outcome = "succeeded" => a.accepted)
  BY DEF Answers, Outcomes
<1>2. ASSUME NEW a \in Outcomes, NEW n \in 0..MaxAttempts
      PROVE  /\ StatusAfter(a, n) \in JobStatus \ {"absent", "processing"}
             /\ StatusAfter(a, n) = "queued" => n < MaxAttempts
             /\ StatusAfter(a, n) = "succeeded" => a = "succeeded"
  BY HubConstants DEF StatusAfter, JobStatus
<1> QED BY <1>1, <1>2

\* A closed session is back where it started.
LEMMA ClosedSession ==
    ASSUME TypeOK, NEW s \in Sessions, CloseSession(s)
    PROVE  /\ pc' \in [Sessions -> {"idle", "ready", "retrying", "confirming",
                            "loaded", "calling", "answered", "committing"}]
           /\ todo' \in [Sessions -> SUBSET Jobs]
           /\ cur' \in [Sessions -> Jobs \cup {NoJob}]
           /\ view' \in [Sessions -> [Jobs -> JobRow \cup {Unread}]]
           /\ wrote' \in [Sessions -> SUBSET Jobs]
           /\ txWrite' \in [Sessions -> [Txns -> TxnStatus \cup {"clean"}]]
           /\ seen' \in [Sessions -> TxnStatus \cup {"none"}]
           /\ outcome' \in [Sessions -> Outcomes]
           /\ pc'[s] = "idle" /\ todo'[s] = {} /\ wrote'[s] = {} /\ outcome'[s] = "none"
           /\ \A j \in Jobs : view'[s][j] = Unread
           /\ \A t \in Txns : txWrite'[s][t] = "clean"
           /\ Shape(s)'
           /\ \A r \in Sessions : r # s =>
                 /\ pc'[r] = pc[r] /\ todo'[r] = todo[r] /\ cur'[r] = cur[r]
                 /\ view'[r] = view[r] /\ wrote'[r] = wrote[r]
                 /\ txWrite'[r] = txWrite[r] /\ outcome'[r] = outcome[r]
                 /\ seen'[r] = seen[r]
<1>1. /\ pc'[s] = "idle" /\ todo'[s] = {} /\ wrote'[s] = {} /\ outcome'[s] = "none"
      /\ \A j \in Jobs : view'[s][j] = Unread
      /\ \A t \in Txns : txWrite'[s][t] = "clean"
  BY DEF TypeOK, CloseSession
<1>2. Shape(s)'
  BY <1>1, RowFacts DEF Shape
<1>3. /\ view' \in [Sessions -> [Jobs -> JobRow \cup {Unread}]]
      /\ txWrite' \in [Sessions -> [Txns -> TxnStatus \cup {"clean"}]]
  BY DEF TypeOK, CloseSession
<1>4. outcome' \in [Sessions -> Outcomes]
  BY DEF TypeOK, CloseSession, Outcomes
<1> QED BY <1>1, <1>2, <1>3, <1>4 DEF TypeOK, CloseSession

\* A session that keeps its state keeps its shape.
LEMMA OtherSessions ==
    ASSUME SessionShape, NEW s \in Sessions, Shape(s)',
           \A r \in Sessions : r # s =>
                 /\ pc'[r] = pc[r] /\ todo'[r] = todo[r] /\ cur'[r] = cur[r]
                 /\ view'[r] = view[r] /\ wrote'[r] = wrote[r]
                 /\ txWrite'[r] = txWrite[r] /\ outcome'[r] = outcome[r]
    PROVE  SessionShape'
BY DEF SessionShape, Shape

\* The attempt bound only depends on the rows a step changes.
LEMMA OtherQueued ==
    ASSUME QueuedHasAttempts, NEW s \in Sessions,
           \A j \in Jobs : view'[s][j].status = "queued"
                             => view'[s][j].attempts < MaxAttempts,
           \A r \in Sessions : r # s => view'[r] = view[r],
           \A j \in Jobs : job'[j].status = "queued" => job'[j].attempts < MaxAttempts
    PROVE  QueuedHasAttempts'
BY DEF QueuedHasAttempts

LEMMA InitShape ==
    Init => TypeOK /\ SessionShape /\ QueuedHasAttempts /\ NoJobLeftProcessing
<1> SUFFICES ASSUME Init
             PROVE  TypeOK /\ SessionShape /\ QueuedHasAttempts /\ NoJobLeftProcessing
  OBVIOUS
<1>1. TypeOK
  BY RowFacts, HubConstants DEF Init, TypeOK, TxnStatus, Outcomes
<1>2. ASSUME NEW s \in Sessions PROVE Shape(s)
  <2>1. /\ pc[s] = "idle" /\ todo[s] = {} /\ wrote[s] = {} /\ outcome[s] = "none"
        /\ \A j \in Jobs : view[s][j] = Unread
        /\ \A t \in Txns : txWrite[s][t] = "clean"
    BY DEF Init
  <2> QED BY <2>1, RowFacts DEF Shape
<1>3. QueuedHasAttempts
  BY DEF Init, QueuedHasAttempts, AbsentJob, Unread
<1>4. NoJobLeftProcessing
  BY DEF Init, NoJobLeftProcessing, AbsentJob
<1> QED BY <1>1, <1>2, <1>3, <1>4 DEF SessionShape

\* Types, the shape of a session and the attempt bound survive every step.
LEMMA StepShape ==
    TypeOK /\ SessionShape /\ QueuedHasAttempts /\ NoJobLeftProcessing /\ [Next]_vars
        => TypeOK' /\ SessionShape' /\ QueuedHasAttempts' /\ NoJobLeftProcessing'
<1> SUFFICES ASSUME TypeOK, SessionShape, QueuedHasAttempts, NoJobLeftProcessing, [Next]_vars
             PROVE  TypeOK' /\ SessionShape' /\ QueuedHasAttempts' /\ NoJobLeftProcessing'
  OBVIOUS
<1> USE RowFacts
<1> USE DEF stored, session, bounds
<1>1. ASSUME NEW s \in Sessions, NEW t \in Txns, DecideAndCreateJobs(s, t)
      PROVE  TypeOK' /\ SessionShape' /\ QueuedHasAttempts'
  <2> DEFINE made == {j \in JobsOf(t) : job[j].status = "absent"}
             row(j) == IF j \in JobsOf(t)
                       THEN IF j \in made THEN NewJob ELSE job[j]
                       ELSE Unread
  <2>a. JobsOf(t) \subseteq Jobs
    BY JobFacts
  <2>b. \A j \in Jobs : row(j) \in JobRow \cup {Unread}
    BY DEF TypeOK
  <2>c. \A j \in made : row(j) = NewJob
    OBVIOUS
  <2>d. \A j \in Jobs : row(j).status # "processing"
    BY DEF NewJob, NoJobLeftProcessing
  <2>e. \A j \in Jobs : row(j).status = "queued" => row(j).attempts < MaxAttempts
    BY HubConstants DEF NewJob, QueuedHasAttempts
  <2>f. /\ view' = [view EXCEPT ![s] = [j \in Jobs |-> row(j)]]
        /\ wrote' = [wrote EXCEPT ![s] = made]
        /\ todo' = [todo EXCEPT ![s] = {j \in JobsOf(t) : row(j).status = "queued"}]
        /\ pc[s] = "idle" /\ pc' = [pc EXCEPT ![s] = "ready"]
        /\ txWrite' = [txWrite EXCEPT ![s][t] = "integration_pending"]
        /\ UNCHANGED <<stored, posts, cur, seen, outcome, bounds>>
    BY <1>1, <2>a DEF DecideAndCreateJobs
  <2> HIDE DEF row
  <2>1. TypeOK'
    BY <2>a, <2>b, <2>f DEF TypeOK, TxnStatus
  <2>g. \A j \in Jobs : view'[s][j] = row(j)
    BY <2>f DEF TypeOK
  <2>h. pc'[s] = "ready" /\ outcome'[s] = "none"
        /\ todo'[s] = {j \in JobsOf(t) : row(j).status = "queued"} /\ wrote'[s] = made
    BY <2>f DEF TypeOK, SessionShape, Shape
  <2>2. Shape(s)'
    BY <2>a, <2>c, <2>d, <2>g, <2>h DEF Shape
  <2>3. \A r \in Sessions : r # s =>
                 /\ pc'[r] = pc[r] /\ todo'[r] = todo[r] /\ cur'[r] = cur[r]
                 /\ view'[r] = view[r] /\ wrote'[r] = wrote[r]
                 /\ txWrite'[r] = txWrite[r] /\ outcome'[r] = outcome[r]
    BY <2>f DEF TypeOK
  <2>4. SessionShape'
    BY <2>2, <2>3, OtherSessions
  <2>5. QueuedHasAttempts'
    BY <2>3, <2>f, <2>e, <2>g DEF QueuedHasAttempts
  <2> QED BY <2>1, <2>4, <2>5
<1>2. ASSUME NEW s \in Sessions, BeginSweep(s)
      PROVE  TypeOK' /\ SessionShape' /\ QueuedHasAttempts'
  <2>1. TypeOK'
    BY <1>2 DEF TypeOK, SessionShape, Shape, TxnStatus, Outcomes, BeginSweep
  <2>2. Shape(s)'
    BY <1>2 DEF TypeOK, SessionShape, Shape, BeginSweep
  <2>3. \A r \in Sessions : r # s =>
                 /\ pc'[r] = pc[r] /\ todo'[r] = todo[r] /\ cur'[r] = cur[r]
                 /\ view'[r] = view[r] /\ wrote'[r] = wrote[r]
                 /\ txWrite'[r] = txWrite[r] /\ outcome'[r] = outcome[r]
    BY <1>2 DEF TypeOK, BeginSweep
  <2>4. SessionShape'
    BY <2>2, <2>3, OtherSessions
  <2>5. QueuedHasAttempts'
    BY <1>2 DEF TypeOK, SessionShape, Shape, QueuedHasAttempts, BeginSweep
  <2> QED BY <2>1, <2>4, <2>5
<1>3. ASSUME NEW s \in Sessions, NEW j \in Jobs, BeginRetry(s, j)
      PROVE  TypeOK' /\ SessionShape' /\ QueuedHasAttempts'
  <2>a. TxnOf(j) \in Txns
    BY JobFacts
  <2>1. TypeOK'
    BY <1>3, <2>a DEF TypeOK, SessionShape, Shape, TxnStatus, Outcomes, BeginRetry, BeginAdmin
  <2>2. Shape(s)'
    BY <1>3 DEF TypeOK, SessionShape, Shape, BeginRetry, BeginAdmin
  <2>3. \A r \in Sessions : r # s =>
                 /\ pc'[r] = pc[r] /\ todo'[r] = todo[r] /\ cur'[r] = cur[r]
                 /\ view'[r] = view[r] /\ wrote'[r] = wrote[r]
                 /\ txWrite'[r] = txWrite[r] /\ outcome'[r] = outcome[r]
    BY <1>3 DEF TypeOK, BeginRetry, BeginAdmin
  <2>4. SessionShape'
    BY <2>2, <2>3, OtherSessions
  <2>5. QueuedHasAttempts'
    BY <1>3 DEF TypeOK, SessionShape, Shape, QueuedHasAttempts, BeginRetry, BeginAdmin
  <2> QED BY <2>1, <2>4, <2>5
<1>4. ASSUME NEW s \in Sessions, NEW j \in Jobs, BeginConfirm(s, j)
      PROVE  TypeOK' /\ SessionShape' /\ QueuedHasAttempts'
  <2>a. TxnOf(j) \in Txns
    BY JobFacts
  <2>1. TypeOK'
    BY <1>4, <2>a DEF TypeOK, SessionShape, Shape, TxnStatus, Outcomes, BeginConfirm, BeginAdmin
  <2>2. Shape(s)'
    BY <1>4 DEF TypeOK, SessionShape, Shape, BeginConfirm, BeginAdmin
  <2>3. \A r \in Sessions : r # s =>
                 /\ pc'[r] = pc[r] /\ todo'[r] = todo[r] /\ cur'[r] = cur[r]
                 /\ view'[r] = view[r] /\ wrote'[r] = wrote[r]
                 /\ txWrite'[r] = txWrite[r] /\ outcome'[r] = outcome[r]
    BY <1>4 DEF TypeOK, BeginConfirm, BeginAdmin
  <2>4. SessionShape'
    BY <2>2, <2>3, OtherSessions
  <2>5. QueuedHasAttempts'
    BY <1>4 DEF TypeOK, SessionShape, Shape, QueuedHasAttempts, BeginConfirm, BeginAdmin
  <2> QED BY <2>1, <2>4, <2>5
<1>5. ASSUME NEW s \in Sessions, Requeue(s)
      PROVE  TypeOK' /\ SessionShape' /\ QueuedHasAttempts'
  <2> DEFINE row == [view[s][cur[s]] EXCEPT !.status = "queued", !.attempts = 0]
  <2>a. cur[s] \in Jobs /\ view[s][cur[s]] \in JobRow /\ pc[s] = "retrying" /\ outcome[s] # "confirmed"
    BY <1>5 DEF TypeOK, SessionShape, Shape, Requeue
  <2>b. row \in JobRow /\ row.status = "queued" /\ row.attempts = 0
    <3>1. "queued" \in JobStatus /\ 0 \in 0..MaxAttempts
      BY HubConstants DEF JobStatus
    <3>2. row \in JobRow
      BY <2>a, <3>1, RowUpdate
    <3> QED BY <2>a, <3>1, <3>2 DEF JobRow
  <2>c. view' = [view EXCEPT ![s] = [view[s] EXCEPT ![cur[s]] = row]]
    BY <1>5, <2>a DEF TypeOK, Requeue
  <2>d. /\ view' \in [Sessions -> [Jobs -> JobRow \cup {Unread}]]
        /\ view'[s][cur[s]] = row
        /\ \A k \in Jobs : k # cur[s] => view'[s][k] = view[s][k]
        /\ \A r \in Sessions : r # s => view'[r] = view[r]
    <3> HIDE DEF row
    <3> QED BY <2>a, <2>b, <2>c, ViewUpdate
  <2> HIDE DEF row
  <2>1. TypeOK'
    BY <1>5, <2>a, <2>b, <2>d DEF TypeOK, SessionShape, Shape, TxnStatus, Outcomes, Requeue
  <2>2. Shape(s)'
    BY <1>5, <2>a, <2>b, <2>d DEF TypeOK, SessionShape, Shape, Requeue
  <2>3. \A r \in Sessions : r # s =>
                 /\ pc'[r] = pc[r] /\ todo'[r] = todo[r] /\ cur'[r] = cur[r]
                 /\ view'[r] = view[r] /\ wrote'[r] = wrote[r]
                 /\ txWrite'[r] = txWrite[r] /\ outcome'[r] = outcome[r]
    BY <1>5 DEF TypeOK, Requeue
  <2>4. SessionShape'
    BY <2>2, <2>3, OtherSessions
  <2>5. QueuedHasAttempts'
    BY <1>5, <2>a, <2>b, <2>d, HubConstants, OtherQueued DEF QueuedHasAttempts, Requeue
  <2> QED BY <2>1, <2>4, <2>5
<1>6. ASSUME NEW s \in Sessions, TakeJob(s)
      PROVE  TypeOK' /\ SessionShape' /\ QueuedHasAttempts'
  <2>a. PICK j \in todo[s] : /\ cur' = [cur EXCEPT ![s] = j]
                             /\ todo' = [todo EXCEPT ![s] = @ \ {j}]
                             /\ seen' = [seen EXCEPT ![s] = SeesTxn(s, TxnOf(j))]
    BY <1>6 DEF TakeJob
  <2>b. /\ pc[s] = "ready" /\ pc' = [pc EXCEPT ![s] = "loaded"]
        /\ UNCHANGED <<stored, posts, view, wrote, txWrite, outcome, bounds>>
    BY <1>6 DEF TakeJob
  <2>c. j \in Jobs /\ view[s][j] \in JobRow /\ view[s][j].status = "queued"
    BY DEF TypeOK, SessionShape, Shape, Unread
  <2>d. SeesTxn(s, TxnOf(j)) \in TxnStatus
    BY <2>c, JobFacts DEF SeesTxn, TypeOK
  <2>1. TypeOK'
    BY <2>a, <2>b, <2>c, <2>d DEF TypeOK
  <2>e. /\ pc'[s] = "loaded" /\ cur'[s] = j /\ todo'[s] = todo[s] \ {j}
        /\ outcome[s] # "confirmed"
    BY <2>a, <2>b DEF TypeOK, SessionShape, Shape
  <2>2. Shape(s)'
    BY <2>b, <2>c, <2>e DEF SessionShape, Shape
  <2>3. \A r \in Sessions : r # s =>
                 /\ pc'[r] = pc[r] /\ todo'[r] = todo[r] /\ cur'[r] = cur[r]
                 /\ view'[r] = view[r] /\ wrote'[r] = wrote[r]
                 /\ txWrite'[r] = txWrite[r] /\ outcome'[r] = outcome[r]
    BY <2>a, <2>b DEF TypeOK
  <2>4. SessionShape'
    BY <2>2, <2>3, OtherSessions
  <2>5. QueuedHasAttempts'
    BY <2>b DEF QueuedHasAttempts
  <2> QED BY <2>1, <2>4, <2>5
<1>7. ASSUME NEW s \in Sessions, StartAttempt(s)
      PROVE  TypeOK' /\ SessionShape' /\ QueuedHasAttempts'
  <2> DEFINE row == [view[s][cur[s]] EXCEPT
                      !.status = "processing", !.attempts = view[s][cur[s]].attempts + 1]
  <2>a. cur[s] \in Jobs /\ view[s][cur[s]] \in JobRow /\ pc[s] = "loaded" /\ view[s][cur[s]].status = "queued"
        /\ outcome[s] # "confirmed" /\ cur[s] \notin todo[s]
    BY <1>7 DEF TypeOK, SessionShape, Shape, StartAttempt
  <2>b. row \in JobRow /\ row.status = "processing"
    <3>1. "processing" \in JobStatus /\ view[s][cur[s]].attempts + 1 \in 0..MaxAttempts
      BY <2>a, HubConstants DEF JobStatus, JobRow, QueuedHasAttempts
    <3>2. row \in JobRow
      BY <2>a, <3>1, RowUpdate
    <3> QED BY <2>a, <3>1, <3>2 DEF JobRow
  <2>c. view' = [view EXCEPT ![s] = [view[s] EXCEPT ![cur[s]] = row]]
    BY <1>7, <2>a DEF TypeOK, StartAttempt
  <2>d. /\ view' \in [Sessions -> [Jobs -> JobRow \cup {Unread}]]
        /\ view'[s][cur[s]] = row
        /\ \A k \in Jobs : k # cur[s] => view'[s][k] = view[s][k]
        /\ \A r \in Sessions : r # s => view'[r] = view[r]
    <3> HIDE DEF row
    <3> QED BY <2>a, <2>b, <2>c, ViewUpdate
  <2> HIDE DEF row
  <2>1. TypeOK'
    BY <1>7, <2>a, <2>b, <2>d DEF TypeOK, SessionShape, Shape, TxnStatus, Outcomes, StartAttempt
  <2>2. Shape(s)'
    BY <1>7, <2>a, <2>b, <2>d DEF TypeOK, SessionShape, Shape, StartAttempt
  <2>3. \A r \in Sessions : r # s =>
                 /\ pc'[r] = pc[r] /\ todo'[r] = todo[r] /\ cur'[r] = cur[r]
                 /\ view'[r] = view[r] /\ wrote'[r] = wrote[r]
                 /\ txWrite'[r] = txWrite[r] /\ outcome'[r] = outcome[r]
    BY <1>7 DEF TypeOK, StartAttempt
  <2>4. SessionShape'
    BY <2>2, <2>3, OtherSessions
  <2>5. QueuedHasAttempts'
    BY <1>7, <2>a, <2>b, <2>d, HubConstants, OtherQueued DEF QueuedHasAttempts, StartAttempt
  <2> QED BY <2>1, <2>4, <2>5
<1>8. ASSUME NEW s \in Sessions, CallAdapter(s)
      PROVE  TypeOK' /\ SessionShape' /\ QueuedHasAttempts'
  <2>a. cur[s] \in Jobs /\ pc[s] = "calling"
    BY <1>8 DEF CallAdapter, SessionShape, Shape
  <2>b. PICK answer \in Answers(cur[s]) :
          /\ outcome' = [outcome EXCEPT ![s] = answer.outcome]
          /\ posts' = IF answer.accepted /\ posts[cur[s]] < 2
                      THEN [posts EXCEPT ![cur[s]] = @ + 1] ELSE posts
    BY <1>8 DEF CallAdapter
  <2>c. /\ pc' = [pc EXCEPT ![s] = "answered"]
        /\ UNCHANGED <<stored, todo, cur, view, wrote, txWrite, seen, bounds>>
    BY <1>8 DEF CallAdapter
  <2>d. answer.outcome \in Outcomes \ {"none", "confirmed"}
    BY <2>a, <2>b, AnswerFacts
  <2>e. posts' \in [Jobs -> 0..2]
    <3>1. posts[cur[s]] \in 0..2 /\ (posts[cur[s]] < 2 => posts[cur[s]] + 1 \in 0..2)
      BY <2>a DEF TypeOK
    <3> QED BY <2>a, <2>b, <3>1 DEF TypeOK
  <2>1. TypeOK'
    BY <2>b, <2>c, <2>d, <2>e DEF TypeOK
  <2>f. pc'[s] = "answered" /\ outcome'[s] # "confirmed"
    BY <2>b, <2>c, <2>d DEF TypeOK
  <2>2. Shape(s)'
    BY <2>a, <2>c, <2>f DEF SessionShape, Shape
  <2>3. \A r \in Sessions : r # s =>
                 /\ pc'[r] = pc[r] /\ todo'[r] = todo[r] /\ cur'[r] = cur[r]
                 /\ view'[r] = view[r] /\ wrote'[r] = wrote[r]
                 /\ txWrite'[r] = txWrite[r] /\ outcome'[r] = outcome[r]
    BY <2>b, <2>c DEF TypeOK
  <2>4. SessionShape'
    BY <2>2, <2>3, OtherSessions
  <2>5. QueuedHasAttempts'
    BY <2>c DEF QueuedHasAttempts
  <2> QED BY <2>1, <2>4, <2>5
<1>9. ASSUME NEW s \in Sessions, Settle(s)
      PROVE  TypeOK' /\ SessionShape' /\ QueuedHasAttempts'
  <2> DEFINE row == [view[s][cur[s]] EXCEPT
                      !.status = StatusAfter(outcome[s], view[s][cur[s]].attempts)]
  <2>a. cur[s] \in Jobs /\ view[s][cur[s]] \in JobRow /\ pc[s] = "answered" /\ outcome[s] \in Outcomes
        /\ outcome[s] # "confirmed" /\ cur[s] \notin todo[s]
    BY <1>9 DEF TypeOK, SessionShape, Shape, Settle
  <2>b. row \in JobRow /\ row.status # "processing"
        /\ (row.status = "queued" => row.attempts < MaxAttempts)
        /\ (row.status = "succeeded" => outcome[s] = "succeeded")
    <3>1. view[s][cur[s]].attempts \in 0..MaxAttempts /\
          StatusAfter(outcome[s], view[s][cur[s]].attempts) \in JobStatus
      BY <2>a, AnswerFacts DEF JobRow
    <3>2. row \in JobRow
      BY <2>a, <3>1, RowUpdate
    <3> QED BY <2>a, <3>1, <3>2, AnswerFacts DEF JobRow
  <2>c. view' = [view EXCEPT ![s] = [view[s] EXCEPT ![cur[s]] = row]]
    BY <1>9, <2>a DEF TypeOK, Settle
  <2>d. /\ view' \in [Sessions -> [Jobs -> JobRow \cup {Unread}]]
        /\ view'[s][cur[s]] = row
        /\ \A k \in Jobs : k # cur[s] => view'[s][k] = view[s][k]
        /\ \A r \in Sessions : r # s => view'[r] = view[r]
    <3> HIDE DEF row
    <3> QED BY <2>a, <2>b, <2>c, ViewUpdate
  <2> HIDE DEF row
  <2>1. TypeOK'
    BY <1>9, <2>a, <2>b, <2>d DEF TypeOK, SessionShape, Shape, TxnStatus, Outcomes, Settle
  <2>e. /\ pc'[s] \in {"ready", "committing"} /\ cur'[s] = cur[s]
        /\ todo'[s] = todo[s] /\ wrote'[s] = wrote[s] /\ outcome'[s] = outcome[s]
        /\ todo[s] \subseteq Jobs /\ wrote[s] \subseteq Jobs
    BY <1>9 DEF TypeOK, Settle
  <2>f. \A j \in Jobs : view'[s][j].status = "processing" => FALSE
    BY <2>a, <2>b, <2>d DEF SessionShape, Shape
  <2>g. \A j \in wrote[s] : view'[s][j] \in JobRow
    BY <2>b, <2>d, <2>e DEF SessionShape, Shape
  <2>h. \A j \in todo[s] : view'[s][j].status = "queued"
    BY <2>a, <2>d, <2>e DEF SessionShape, Shape
  <2>2. Shape(s)'
    BY <2>a, <2>b, <2>d, <2>e, <2>f, <2>g, <2>h DEF Shape
  <2>3. \A r \in Sessions : r # s =>
                 /\ pc'[r] = pc[r] /\ todo'[r] = todo[r] /\ cur'[r] = cur[r]
                 /\ view'[r] = view[r] /\ wrote'[r] = wrote[r]
                 /\ txWrite'[r] = txWrite[r] /\ outcome'[r] = outcome[r]
    BY <1>9 DEF TypeOK, Settle
  <2>4. SessionShape'
    BY <2>2, <2>3, OtherSessions
  <2>5. QueuedHasAttempts'
    BY ZenonT(60), <1>9, <2>a, <2>b, <2>d, HubConstants, OtherQueued DEF QueuedHasAttempts, Settle
  <2> QED BY <2>1, <2>4, <2>5
<1>10. ASSUME NEW s \in Sessions, ConfirmByHand(s)
      PROVE  TypeOK' /\ SessionShape' /\ QueuedHasAttempts'
  <2> DEFINE row == [view[s][cur[s]] EXCEPT !.status = "succeeded", !.byHand = TRUE]
  <2>a. cur[s] \in Jobs /\ view[s][cur[s]] \in JobRow /\ pc[s] = "confirming" /\ todo[s] = {}
    BY <1>10 DEF TypeOK, SessionShape, Shape, ConfirmByHand
  <2>b. row \in JobRow /\ row.status = "succeeded"
    BY <2>a DEF JobRow, JobStatus
  <2>c. view' = [view EXCEPT ![s] = [view[s] EXCEPT ![cur[s]] = row]]
    BY <1>10, <2>a DEF TypeOK, ConfirmByHand
  <2>d. /\ view' \in [Sessions -> [Jobs -> JobRow \cup {Unread}]]
        /\ view'[s][cur[s]] = row
        /\ \A k \in Jobs : k # cur[s] => view'[s][k] = view[s][k]
        /\ \A r \in Sessions : r # s => view'[r] = view[r]
    <3> HIDE DEF row
    <3> QED BY <2>a, <2>b, <2>c, ViewUpdate
  <2> HIDE DEF row
  <2>1. TypeOK'
    BY <1>10, <2>a, <2>b, <2>d DEF TypeOK, SessionShape, Shape, TxnStatus, Outcomes, ConfirmByHand
  <2>2. Shape(s)'
    BY <1>10, <2>a, <2>b, <2>d DEF TypeOK, SessionShape, Shape, ConfirmByHand
  <2>3. \A r \in Sessions : r # s =>
                 /\ pc'[r] = pc[r] /\ todo'[r] = todo[r] /\ cur'[r] = cur[r]
                 /\ view'[r] = view[r] /\ wrote'[r] = wrote[r]
                 /\ txWrite'[r] = txWrite[r] /\ outcome'[r] = outcome[r]
    BY <1>10 DEF TypeOK, ConfirmByHand
  <2>4. SessionShape'
    BY <2>2, <2>3, OtherSessions
  <2>5. QueuedHasAttempts'
    BY <1>10, <2>a, <2>b, <2>d, HubConstants, OtherQueued DEF QueuedHasAttempts, ConfirmByHand
  <2> QED BY <2>1, <2>4, <2>5
<1>11. ASSUME NEW s \in Sessions, WriteCommitted(s)
      PROVE  TypeOK' /\ SessionShape' /\ QueuedHasAttempts'
  <2>1. TypeOK'
    BY <1>11 DEF TypeOK, SessionShape, Shape, TxnStatus, Outcomes, WriteCommitted
  <2>a. /\ pc[s] = "committing" /\ pc'[s] = "ready" /\ outcome'[s] = outcome[s]
        /\ todo'[s] = todo[s] /\ wrote'[s] = wrote[s] /\ view'[s] = view[s]
    BY <1>11 DEF TypeOK, WriteCommitted
  <2>2. Shape(s)'
    BY <2>a DEF SessionShape, Shape
  <2>3. \A r \in Sessions : r # s =>
                 /\ pc'[r] = pc[r] /\ todo'[r] = todo[r] /\ cur'[r] = cur[r]
                 /\ view'[r] = view[r] /\ wrote'[r] = wrote[r]
                 /\ txWrite'[r] = txWrite[r] /\ outcome'[r] = outcome[r]
    BY <1>11 DEF TypeOK, WriteCommitted
  <2>4. SessionShape'
    BY <2>2, <2>3, OtherSessions
  <2>5. QueuedHasAttempts'
    BY <1>11 DEF TypeOK, SessionShape, Shape, QueuedHasAttempts, WriteCommitted
  <2> QED BY <2>1, <2>4, <2>5
<1>12. ASSUME NEW s \in Sessions, Commit(s)
      PROVE  TypeOK' /\ SessionShape' /\ QueuedHasAttempts'
  <2>1. CloseSession(s)
    BY <1>12 DEF Commit
  <2>2. ASSUME NEW j \in wrote[s]
        PROVE  Merged(s, j) \in JobRow /\
               (Merged(s, j).status = "queued" => Merged(s, j).attempts < MaxAttempts)
    <3>1. j \in Jobs /\ job[j] \in JobRow /\ view[s][j] \in JobRow
      BY <2>2 DEF TypeOK, SessionShape, Shape
    <3>2. outcome[s] = "confirmed" => view[s][j].status # "queued"
      BY <1>12, <2>2 DEF TypeOK, SessionShape, Shape, Commit
    <3> QED BY <3>1, <3>2 DEF Merged, JobRow, QueuedHasAttempts
  <2>3. TypeOK'
    BY <1>12, <2>1, <2>2, ClosedSession DEF TypeOK, Commit, SeesTxn
  <2>4. SessionShape'
    BY <2>1, ClosedSession, OtherSessions
  <2>5. QueuedHasAttempts'
    BY SMTT(30), <1>12, <2>1, <2>2, ClosedSession DEF TypeOK, QueuedHasAttempts, Commit, SeesTxn
  <2> QED BY <2>3, <2>4, <2>5
<1>13. ASSUME NEW s \in Sessions, Rollback(s)
      PROVE  TypeOK' /\ SessionShape' /\ QueuedHasAttempts'
  <2>1. CloseSession(s)
    BY <1>13 DEF Rollback
  <2>3. TypeOK'
    BY <1>13, <2>1, ClosedSession, HubConstants DEF TypeOK, Rollback
  <2>4. SessionShape'
    BY <2>1, ClosedSession, OtherSessions
  <2>5. QueuedHasAttempts'
    <3>1. job' = job
      BY <1>13 DEF Rollback
    <3>2. /\ \A j \in Jobs : view'[s][j].status # "queued"
          /\ \A r \in Sessions : r # s => view'[r] = view[r]
      BY <2>1, ClosedSession
    <3> QED BY <3>1, <3>2, OtherQueued DEF QueuedHasAttempts
  <2> QED BY <2>3, <2>4, <2>5
<1>14. ASSUME NEW s \in Sessions, DeadlockVictim(s)
      PROVE  TypeOK' /\ SessionShape' /\ QueuedHasAttempts'
  <2>1. CloseSession(s)
    BY <1>14 DEF DeadlockVictim
  <2>3. TypeOK'
    BY <1>14, <2>1, ClosedSession DEF TypeOK, DeadlockVictim
  <2>4. SessionShape'
    BY <2>1, ClosedSession, OtherSessions
  <2>5. QueuedHasAttempts'
    <3>1. job' = job
      BY <1>14 DEF DeadlockVictim
    <3>2. /\ \A j \in Jobs : view'[s][j].status # "queued"
          /\ \A r \in Sessions : r # s => view'[r] = view[r]
      BY <2>1, ClosedSession
    <3> QED BY <3>1, <3>2, OtherQueued DEF QueuedHasAttempts
  <2> QED BY <2>3, <2>4, <2>5
<1>15. ASSUME NEW j \in Jobs, BackoffElapses(j)
      PROVE  TypeOK' /\ SessionShape' /\ QueuedHasAttempts'
  BY <1>15 DEF TypeOK, SessionShape, Shape, QueuedHasAttempts, TxnStatus, BackoffElapses
<1>16. ASSUME NEW t \in Txns, RevalidateDecided(t)
      PROVE  TypeOK' /\ SessionShape' /\ QueuedHasAttempts'
  BY <1>16, HubConstants DEF TypeOK, SessionShape, Shape, QueuedHasAttempts, TxnStatus, RevalidateDecided
<1>17. ASSUME NEW t \in Txns, Resubmit(t)
      PROVE  TypeOK' /\ SessionShape' /\ QueuedHasAttempts'
  BY <1>17 DEF TypeOK, SessionShape, Shape, QueuedHasAttempts, TxnStatus, Resubmit
<1>18. ASSUME UNCHANGED vars
      PROVE  TypeOK' /\ SessionShape' /\ QueuedHasAttempts'
  <2>1. TypeOK'
    BY <1>18 DEF vars, TypeOK
  <2>2. SessionShape'
    BY <1>18 DEF vars, SessionShape, Shape
  <2>3. QueuedHasAttempts'
    BY <1>18 DEF vars, QueuedHasAttempts
  <2> QED BY <2>1, <2>2, <2>3
<1>19. TypeOK' /\ SessionShape' /\ QueuedHasAttempts'
  BY <1>1, <1>2, <1>3, <1>4, <1>5, <1>6, <1>7, <1>8, <1>9, <1>10,
     <1>11, <1>12, <1>13, <1>14, <1>15, <1>16, <1>17, <1>18 DEF Next, Begin, Proceed
<1>20. NoJobLeftProcessing'
  <2>1. CASE job' = job
    BY <2>1 DEF NoJobLeftProcessing
  <2>2. ASSUME NEW s \in Sessions, Commit(s), NEW j \in Jobs
        PROVE  job'[j].status # "processing"
    <3>1. CASE j \in wrote[s]
      <4>1. job'[j].status = view[s][j].status
        BY <2>2, <3>1 DEF Commit, Merged
      <4> QED BY <2>2, <4>1 DEF Commit, SessionShape, Shape
    <3>2. CASE j \notin wrote[s]
      BY <2>2, <3>2 DEF Commit, NoJobLeftProcessing
    <3> QED BY <3>1, <3>2
  <2>3. job' = job \/ \E s \in Sessions : Commit(s)
    BY ZenonT(60) DEF Next, Begin, Proceed, vars, DecideAndCreateJobs, BeginSweep, BeginRetry,
           BeginConfirm, BeginAdmin, Requeue, TakeJob, StartAttempt, CallAdapter, Settle,
           ConfirmByHand, WriteCommitted, Rollback, DeadlockVictim, BackoffElapses,
           RevalidateDecided, Resubmit
  <2> QED BY <2>1, <2>2, <2>3 DEF NoJobLeftProcessing
<1> QED BY <1>19, <1>20

-----------------------------------------------------------------------------
(* The evidence behind every claim of success.                             *)

\* What backs a session's claims is not lost by a step of another session.
LEMMA OtherClaims ==
    ASSUME SessionShape, NEW r \in Sessions, Claims(r),
           pc'[r] = pc[r], cur'[r] = cur[r], view'[r] = view[r], wrote'[r] = wrote[r],
           txWrite'[r] = txWrite[r], outcome'[r] = outcome[r],
           \A j \in Jobs : Evidenced(j) => Evidenced(j)',
           \A j \in Jobs : posts[j] > 0 => posts'[j] > 0
    PROVE  Claims(r)'
<1>1. \A j \in Jobs : Backed(r, j) => Backed(r, j)'
  BY DEF Backed
<1>2. pc[r] = "answered" \/ pc[r] = "committing" => cur[r] \in Jobs
  BY DEF SessionShape, Shape
<1> QED BY <1>1, <1>2, JobFacts DEF Claims

\* A posting is not unmade: no step takes a posting or a manual mark back.
LEMMA EvidenceStays ==
    ASSUME TypeOK, SessionShape, [Next]_vars
    PROVE  /\ \A j \in Jobs : posts[j] > 0 => posts'[j] > 0
           /\ \A j \in Jobs : job[j].byHand => job'[j].byHand
           /\ \A j \in Jobs : Evidenced(j) => Evidenced(j)'
<1> USE DEF stored, session, bounds
<1>1. posts' = posts \/ \E s \in Sessions : CallAdapter(s)
  BY ZenonT(60) DEF Next, Begin, Proceed, vars, DecideAndCreateJobs, BeginSweep, BeginRetry,
         BeginConfirm, BeginAdmin, Requeue, TakeJob, StartAttempt, Settle, ConfirmByHand,
         WriteCommitted, Commit, Rollback, DeadlockVictim, BackoffElapses,
         RevalidateDecided, Resubmit
<1>2. job' = job \/ \E s \in Sessions : Commit(s)
  BY ZenonT(60) DEF Next, Begin, Proceed, vars, DecideAndCreateJobs, BeginSweep, BeginRetry,
         BeginConfirm, BeginAdmin, Requeue, TakeJob, StartAttempt, CallAdapter, Settle,
         ConfirmByHand, WriteCommitted, Rollback, DeadlockVictim, BackoffElapses,
         RevalidateDecided, Resubmit
<1>3. ASSUME NEW s \in Sessions, CallAdapter(s), NEW j \in Jobs, posts[j] > 0
      PROVE  posts'[j] > 0
  <2>1. posts' = posts \/ posts' = [posts EXCEPT ![cur[s]] = @ + 1]
    BY <1>3 DEF CallAdapter
  <2>2. posts[j] \in 0..2
    BY DEF TypeOK
  <2>3. posts' = posts \/ (posts'[j] = posts[j] \/ posts'[j] = posts[j] + 1)
    BY <2>1 DEF TypeOK
  <2> QED BY <1>3, <2>2, <2>3
<1>4. \A j \in Jobs : posts[j] > 0 => posts'[j] > 0
  BY <1>1, <1>3
<1>5. ASSUME NEW s \in Sessions, Commit(s), NEW j \in Jobs, job[j].byHand
      PROVE  job'[j].byHand
  BY <1>5 DEF Commit, Merged
<1>6. \A j \in Jobs : job[j].byHand => job'[j].byHand
  BY <1>2, <1>5
<1> QED BY <1>4, <1>6 DEF Evidenced

\* Claims stay backed, so what is stored at a commit is evidenced.
LEMMA StepEvidence ==
    /\ TypeOK /\ SessionShape /\ SucceededIsEvidenced /\ CommittedIsEvidenced
    /\ ClaimsAreBacked /\ [Next]_vars
    => SucceededIsEvidenced' /\ CommittedIsEvidenced' /\ ClaimsAreBacked'
<1> SUFFICES ASSUME TypeOK, SessionShape, SucceededIsEvidenced, CommittedIsEvidenced,
                    ClaimsAreBacked, [Next]_vars
             PROVE  SucceededIsEvidenced' /\ CommittedIsEvidenced' /\ ClaimsAreBacked'
  OBVIOUS
<1> USE RowFacts
<1> USE DEF stored, session, bounds
<1>0. /\ \A j \in Jobs : posts[j] > 0 => posts'[j] > 0
      /\ \A j \in Jobs : Evidenced(j) => Evidenced(j)'
  BY EvidenceStays
\* Only a commit, and the desk's own steps, write the stored rows.
<1>a. ASSUME job' = job,
             \A t \in Txns : txn'[t] = "committed" => txn[t] = "committed"
      PROVE  SucceededIsEvidenced' /\ CommittedIsEvidenced'
  BY <1>0, <1>a, JobFacts DEF SucceededIsEvidenced, CommittedIsEvidenced
\* A step of one session leaves the claims of the others alone.
<1>b. ASSUME NEW s \in Sessions, Claims(s)',
             \A r \in Sessions : r # s =>
                 /\ pc'[r] = pc[r] /\ cur'[r] = cur[r] /\ view'[r] = view[r]
                 /\ wrote'[r] = wrote[r] /\ txWrite'[r] = txWrite[r]
                 /\ outcome'[r] = outcome[r]
      PROVE  ClaimsAreBacked'
  <2>1. ASSUME NEW r \in Sessions, r # s PROVE Claims(r)'
    BY <1>0, <1>b, <2>1, OtherClaims DEF ClaimsAreBacked
  <2> QED BY <1>b, <2>1 DEF ClaimsAreBacked
<1>1. ASSUME NEW s \in Sessions, NEW t \in Txns, DecideAndCreateJobs(s, t)
      PROVE  SucceededIsEvidenced' /\ CommittedIsEvidenced' /\ ClaimsAreBacked'
  <2>1. SucceededIsEvidenced' /\ CommittedIsEvidenced'
    BY <1>1, <1>a DEF DecideAndCreateJobs
  <2>2. /\ pc'[s] = "ready"
        /\ \A j \in Jobs : view'[s][j].status = "succeeded" => job[j].status = "succeeded"
        /\ \A u \in Txns : txWrite'[s][u] # "committed"
    BY <1>1 DEF DecideAndCreateJobs, TypeOK, SessionShape, Shape, NewJob
  <2>3. Claims(s)'
    BY <1>0, <2>2 DEF Claims, Backed, SucceededIsEvidenced
  <2>4. ClaimsAreBacked'
    <3>1. \A r \in Sessions : r # s =>
                 /\ pc'[r] = pc[r] /\ cur'[r] = cur[r] /\ view'[r] = view[r]
                 /\ wrote'[r] = wrote[r] /\ txWrite'[r] = txWrite[r]
                 /\ outcome'[r] = outcome[r]
      BY <1>1 DEF TypeOK, DecideAndCreateJobs
    <3> QED BY <1>b, <2>3, <3>1
  <2> QED BY <2>1, <2>4
<1>2. ASSUME NEW s \in Sessions, BeginSweep(s)
      PROVE  SucceededIsEvidenced' /\ CommittedIsEvidenced' /\ ClaimsAreBacked'
  <2>1. SucceededIsEvidenced' /\ CommittedIsEvidenced'
    BY <1>2, <1>a DEF BeginSweep
  <2>2. /\ pc'[s] = "ready"
        /\ \A k \in Jobs : view'[s][k].status = "succeeded" => job[k].status = "succeeded"
        /\ \A u \in Txns : txWrite'[s][u] # "committed"
    BY <1>2 DEF BeginSweep, TypeOK, SessionShape, Shape
  <2>3. Claims(s)'
    BY <1>0, <2>2 DEF Claims, Backed, SucceededIsEvidenced
  <2>4. ClaimsAreBacked'
    <3>1. \A r \in Sessions : r # s =>
                 /\ pc'[r] = pc[r] /\ cur'[r] = cur[r] /\ view'[r] = view[r]
                 /\ wrote'[r] = wrote[r] /\ txWrite'[r] = txWrite[r]
                 /\ outcome'[r] = outcome[r]
      BY <1>2 DEF TypeOK, BeginSweep
    <3> QED BY <1>b, <2>3, <3>1
  <2> QED BY <2>1, <2>4
<1>3. ASSUME NEW s \in Sessions, NEW j \in Jobs, BeginRetry(s, j)
      PROVE  SucceededIsEvidenced' /\ CommittedIsEvidenced' /\ ClaimsAreBacked'
  <2>1. SucceededIsEvidenced' /\ CommittedIsEvidenced'
    BY <1>3, <1>a DEF BeginRetry, BeginAdmin
  <2>2. /\ pc'[s] = "retrying"
        /\ \A k \in Jobs : view'[s][k].status = "succeeded" => job[k].status = "succeeded"
        /\ \A u \in Txns : txWrite'[s][u] # "committed"
    BY <1>3 DEF BeginRetry, BeginAdmin, TypeOK, SessionShape, Shape
  <2>3. Claims(s)'
    BY <1>0, <2>2 DEF Claims, Backed, SucceededIsEvidenced
  <2>4. ClaimsAreBacked'
    <3>1. \A r \in Sessions : r # s =>
                 /\ pc'[r] = pc[r] /\ cur'[r] = cur[r] /\ view'[r] = view[r]
                 /\ wrote'[r] = wrote[r] /\ txWrite'[r] = txWrite[r]
                 /\ outcome'[r] = outcome[r]
      BY <1>3 DEF TypeOK, BeginRetry, BeginAdmin
    <3> QED BY <1>b, <2>3, <3>1
  <2> QED BY <2>1, <2>4
<1>4. ASSUME NEW s \in Sessions, NEW j \in Jobs, BeginConfirm(s, j)
      PROVE  SucceededIsEvidenced' /\ CommittedIsEvidenced' /\ ClaimsAreBacked'
  <2>1. SucceededIsEvidenced' /\ CommittedIsEvidenced'
    BY <1>4, <1>a DEF BeginConfirm, BeginAdmin
  <2>2. /\ pc'[s] = "confirming"
        /\ \A k \in Jobs : view'[s][k].status = "succeeded" => job[k].status = "succeeded"
        /\ \A u \in Txns : txWrite'[s][u] # "committed"
    BY <1>4 DEF BeginConfirm, BeginAdmin, TypeOK, SessionShape, Shape
  <2>3. Claims(s)'
    BY <1>0, <2>2 DEF Claims, Backed, SucceededIsEvidenced
  <2>4. ClaimsAreBacked'
    <3>1. \A r \in Sessions : r # s =>
                 /\ pc'[r] = pc[r] /\ cur'[r] = cur[r] /\ view'[r] = view[r]
                 /\ wrote'[r] = wrote[r] /\ txWrite'[r] = txWrite[r]
                 /\ outcome'[r] = outcome[r]
      BY <1>4 DEF TypeOK, BeginConfirm, BeginAdmin
    <3> QED BY <1>b, <2>3, <3>1
  <2> QED BY <2>1, <2>4
<1>5. ASSUME NEW s \in Sessions, Requeue(s)
      PROVE  SucceededIsEvidenced' /\ CommittedIsEvidenced' /\ ClaimsAreBacked'
  <2>1. SucceededIsEvidenced' /\ CommittedIsEvidenced'
    BY <1>5, <1>a DEF Requeue
  <2>2. /\ pc'[s] = "ready" /\ outcome'[s] = outcome[s] /\ wrote[s] \subseteq wrote'[s]
        /\ txWrite'[s] = txWrite[s]
        /\ \A k \in Jobs : view'[s][k].status = "succeeded" => view[s][k].status = "succeeded"
    <3>1. view'[s][cur[s]].status # "succeeded" /\ \A k \in Jobs : k # cur[s] => view'[s][k] = view[s][k]
      <4>1. cur[s] \in Jobs /\ view[s][cur[s]] \in JobRow
        BY <1>5 DEF Requeue, SessionShape, Shape
      <4>2. view'[s] = [view[s] EXCEPT ![cur[s]] =
                          [view[s][cur[s]] EXCEPT !.status = "queued", !.attempts = 0]]
        BY <1>5, <4>1 DEF Requeue, TypeOK
      <4> QED BY <4>1, <4>2 DEF TypeOK, JobRow
    <3> QED BY <1>5, <3>1 DEF Requeue, TypeOK
  <2>3. Claims(s)'
    BY <1>0, <2>2, JobFacts DEF Claims, Backed, ClaimsAreBacked
  <2>4. ClaimsAreBacked'
    <3>1. \A r \in Sessions : r # s =>
                 /\ pc'[r] = pc[r] /\ cur'[r] = cur[r] /\ view'[r] = view[r]
                 /\ wrote'[r] = wrote[r] /\ txWrite'[r] = txWrite[r]
                 /\ outcome'[r] = outcome[r]
      BY <1>5 DEF TypeOK, Requeue
    <3> QED BY <1>b, <2>3, <3>1
  <2> QED BY <2>1, <2>4
<1>6. ASSUME NEW s \in Sessions, TakeJob(s)
      PROVE  SucceededIsEvidenced' /\ CommittedIsEvidenced' /\ ClaimsAreBacked'
  <2>1. SucceededIsEvidenced' /\ CommittedIsEvidenced'
    BY <1>6, <1>a DEF TakeJob
  <2>2. /\ pc'[s] = "loaded" /\ outcome'[s] = outcome[s] /\ wrote'[s] = wrote[s]
        /\ txWrite'[s] = txWrite[s] /\ view'[s] = view[s]
    BY <1>6 DEF TakeJob, TypeOK
  <2>3. Claims(s)'
    BY <1>0, <2>2, JobFacts DEF Claims, Backed, ClaimsAreBacked
  <2>4. ClaimsAreBacked'
    <3>1. \A r \in Sessions : r # s =>
                 /\ pc'[r] = pc[r] /\ cur'[r] = cur[r] /\ view'[r] = view[r]
                 /\ wrote'[r] = wrote[r] /\ txWrite'[r] = txWrite[r]
                 /\ outcome'[r] = outcome[r]
      BY <1>6 DEF TypeOK, TakeJob
    <3> QED BY <1>b, <2>3, <3>1
  <2> QED BY <2>1, <2>4
<1>7. ASSUME NEW s \in Sessions, StartAttempt(s)
      PROVE  SucceededIsEvidenced' /\ CommittedIsEvidenced' /\ ClaimsAreBacked'
  <2>1. SucceededIsEvidenced' /\ CommittedIsEvidenced'
    BY <1>7, <1>a DEF StartAttempt
  <2>2. /\ pc'[s] = "calling" /\ outcome'[s] = outcome[s] /\ wrote[s] \subseteq wrote'[s]
        /\ txWrite'[s] = txWrite[s]
        /\ \A k \in Jobs : view'[s][k].status = "succeeded" => view[s][k].status = "succeeded"
    <3>1. view'[s][cur[s]].status # "succeeded" /\ \A k \in Jobs : k # cur[s] => view'[s][k] = view[s][k]
      BY <1>7 DEF StartAttempt, TypeOK, SessionShape, Shape, JobRow
    <3> QED BY <1>7, <3>1 DEF StartAttempt, TypeOK
  <2>3. Claims(s)'
    BY <1>0, <2>2, JobFacts DEF Claims, Backed, ClaimsAreBacked
  <2>4. ClaimsAreBacked'
    <3>1. \A r \in Sessions : r # s =>
                 /\ pc'[r] = pc[r] /\ cur'[r] = cur[r] /\ view'[r] = view[r]
                 /\ wrote'[r] = wrote[r] /\ txWrite'[r] = txWrite[r]
                 /\ outcome'[r] = outcome[r]
      BY <1>7 DEF TypeOK, StartAttempt
    <3> QED BY <1>b, <2>3, <3>1
  <2> QED BY <2>1, <2>4
<1>8. ASSUME NEW s \in Sessions, CallAdapter(s)
      PROVE  SucceededIsEvidenced' /\ CommittedIsEvidenced' /\ ClaimsAreBacked'
  <2>1. SucceededIsEvidenced' /\ CommittedIsEvidenced'
    BY <1>8, <1>a DEF CallAdapter
  <2>2. /\ pc'[s] = "answered" /\ outcome[s] # "confirmed" /\ cur'[s] = cur[s]
        /\ txWrite'[s] = txWrite[s] /\ view'[s] = view[s]
    <3>1. pc[s] = "calling" /\ pc' = [pc EXCEPT ![s] = "answered"]
          /\ UNCHANGED <<cur, view, txWrite>>
      BY <1>8 DEF CallAdapter
    <3>2. pc'[s] = "answered"
      BY <3>1 DEF TypeOK
    <3>3. outcome[s] # "confirmed"
      BY <3>1 DEF SessionShape, Shape
    <3> QED BY <3>1, <3>2, <3>3
  <2>5. outcome'[s] = "succeeded" => posts'[cur[s]] > 0
    <3>1. PICK answer \in Answers(cur[s]) :
            /\ outcome' = [outcome EXCEPT ![s] = answer.outcome]
            /\ posts' = IF answer.accepted /\ posts[cur[s]] < 2
                        THEN [posts EXCEPT ![cur[s]] = @ + 1] ELSE posts
      BY <1>8 DEF CallAdapter
    <3>2. cur[s] \in Jobs /\ posts[cur[s]] \in 0..2
      BY ZenonT(60), <1>8 DEF CallAdapter, TypeOK, SessionShape, Shape
    <3>3. answer.outcome = "succeeded" => answer.accepted
      BY <3>2, AnswerFacts
    <3> QED BY <3>1, <3>2, <3>3 DEF TypeOK
  <2>3. Claims(s)'
    BY <1>0, <2>2, <2>5, JobFacts DEF Claims, Backed, ClaimsAreBacked
  <2>4. ClaimsAreBacked'
    <3>1. \A r \in Sessions : r # s =>
                 /\ pc'[r] = pc[r] /\ cur'[r] = cur[r] /\ view'[r] = view[r]
                 /\ wrote'[r] = wrote[r] /\ txWrite'[r] = txWrite[r]
                 /\ outcome'[r] = outcome[r]
      BY <1>8 DEF TypeOK, CallAdapter
    <3> QED BY <1>b, <2>3, <3>1
  <2> QED BY <2>1, <2>4
<1>9. ASSUME NEW s \in Sessions, Settle(s)
      PROVE  SucceededIsEvidenced' /\ CommittedIsEvidenced' /\ ClaimsAreBacked'
  <2>1. SucceededIsEvidenced' /\ CommittedIsEvidenced'
    BY <1>9, <1>a DEF Settle
  <2> DEFINE row == [view[s][cur[s]] EXCEPT
                      !.status = StatusAfter(outcome[s], view[s][cur[s]].attempts)]
             rows == [view[s] EXCEPT ![cur[s]] = row]
  <2>a. /\ cur[s] \in Jobs /\ view[s][cur[s]] \in JobRow /\ pc[s] = "answered"
        /\ outcome[s] \in Outcomes /\ outcome[s] # "confirmed"
    BY <1>9 DEF Settle, TypeOK, SessionShape, Shape
  <2>b. row.status = "succeeded" => Evidenced(cur[s])
    <3>1. row.status = StatusAfter(outcome[s], view[s][cur[s]].attempts)
      BY <2>a DEF JobRow
    <3>2. view[s][cur[s]].attempts \in 0..MaxAttempts
      BY <2>a DEF JobRow
    <3>3. row.status = "succeeded" => outcome[s] = "succeeded"
      BY <2>a, <3>1, <3>2, AnswerFacts
    <3> QED BY <2>a, <3>3 DEF Claims, ClaimsAreBacked, Evidenced
  <2>c. /\ view'[s] = rows /\ cur'[s] = cur[s] /\ wrote'[s] = wrote[s]
        /\ outcome'[s] = outcome[s] /\ txWrite'[s] = txWrite[s]
        /\ pc'[s] \in {"ready", "committing"}
        /\ pc'[s] = "committing" => AllResolved(s, TxnOf(cur[s]), rows)
    BY <1>9 DEF Settle, TypeOK
  <2>d. \A j \in Jobs : rows[j].status = "succeeded" => Evidenced(j)
    <3>1. \A j \in Jobs : j # cur[s] => rows[j] = view[s][j]
      BY <2>a DEF TypeOK
    <3>2. rows[cur[s]] = row
      BY <2>a DEF TypeOK
    <3>3. \A j \in Jobs : view[s][j].status = "succeeded" => Evidenced(j)
      BY <2>a DEF Claims, ClaimsAreBacked, Backed
    <3> QED BY <2>b, <3>1, <3>2, <3>3
  <2> HIDE DEF rows
  <2>e. pc'[s] = "committing" => \A j \in JobsOf(TxnOf(cur[s])) : Evidenced(j)
    BY <2>a, <2>c, <2>d, JobFacts DEF AllResolved, SucceededIsEvidenced
  <2>3. Claims(s)'
    BY <1>0, <2>a, <2>c, <2>d, <2>e, JobFacts DEF Claims, Backed, ClaimsAreBacked
  <2>4. ClaimsAreBacked'
    <3>1. \A r \in Sessions : r # s =>
                 /\ pc'[r] = pc[r] /\ cur'[r] = cur[r] /\ view'[r] = view[r]
                 /\ wrote'[r] = wrote[r] /\ txWrite'[r] = txWrite[r]
                 /\ outcome'[r] = outcome[r]
      BY <1>9 DEF TypeOK, Settle
    <3> QED BY <1>b, <2>3, <3>1
  <2> QED BY <2>1, <2>4
<1>10. ASSUME NEW s \in Sessions, ConfirmByHand(s)
      PROVE  SucceededIsEvidenced' /\ CommittedIsEvidenced' /\ ClaimsAreBacked'
  <2>1. SucceededIsEvidenced' /\ CommittedIsEvidenced'
    BY <1>10, <1>a DEF ConfirmByHand
  <2> DEFINE row == [view[s][cur[s]] EXCEPT !.status = "succeeded", !.byHand = TRUE]
             rows == [view[s] EXCEPT ![cur[s]] = row]
  <2>a. /\ cur[s] \in Jobs /\ view[s][cur[s]] \in JobRow /\ pc[s] = "confirming"
        /\ outcome[s] # "confirmed"
    BY <1>10 DEF ConfirmByHand, TypeOK, SessionShape, Shape
  <2>c. /\ view'[s] = rows /\ cur'[s] = cur[s] /\ cur[s] \in wrote'[s]
        /\ outcome'[s] = "confirmed" /\ txWrite'[s] = txWrite[s]
        /\ pc'[s] \in {"ready", "committing"}
        /\ pc'[s] = "committing" => AllResolved(s, TxnOf(cur[s]), rows)
    BY <1>10 DEF ConfirmByHand, TypeOK
  <2>d. \A j \in Jobs : rows[j].status = "succeeded" => j = cur[s] \/ Evidenced(j)
    <3>1. \A j \in Jobs : j # cur[s] => rows[j] = view[s][j]
      BY <2>a DEF TypeOK
    <3>3. \A j \in Jobs : view[s][j].status = "succeeded" => Evidenced(j)
      BY <2>a DEF Claims, ClaimsAreBacked, Backed
    <3> QED BY <3>1, <3>3
  <2> HIDE DEF rows
  <2>e. pc'[s] = "committing" =>
           \A j \in JobsOf(TxnOf(cur[s])) : j = cur[s] \/ Evidenced(j)
    BY <2>a, <2>c, <2>d, JobFacts DEF AllResolved, SucceededIsEvidenced
  <2>f. \A t \in Txns : txWrite[s][t] = "committed" => \A j \in JobsOf(t) : Evidenced(j)
    BY <2>a DEF Claims, ClaimsAreBacked, Backed
  <2>3. Claims(s)'
    BY <1>0, <2>a, <2>c, <2>d, <2>e, <2>f, JobFacts DEF Claims, Backed
  <2>4. ClaimsAreBacked'
    <3>1. \A r \in Sessions : r # s =>
                 /\ pc'[r] = pc[r] /\ cur'[r] = cur[r] /\ view'[r] = view[r]
                 /\ wrote'[r] = wrote[r] /\ txWrite'[r] = txWrite[r]
                 /\ outcome'[r] = outcome[r]
      BY <1>10 DEF TypeOK, ConfirmByHand
    <3> QED BY <1>b, <2>3, <3>1
  <2> QED BY <2>1, <2>4
<1>11. ASSUME NEW s \in Sessions, WriteCommitted(s)
      PROVE  SucceededIsEvidenced' /\ CommittedIsEvidenced' /\ ClaimsAreBacked'
  <2>1. SucceededIsEvidenced' /\ CommittedIsEvidenced'
    BY <1>11, <1>a DEF WriteCommitted
  <2>2. /\ pc[s] = "committing" /\ pc'[s] = "ready" /\ outcome'[s] = outcome[s]
        /\ wrote'[s] = wrote[s] /\ view'[s] = view[s] /\ TxnOf(cur[s]) \in Txns
        /\ \A t \in Txns : t # TxnOf(cur[s]) => txWrite'[s][t] = txWrite[s][t]
    <3>1. pc[s] = "committing" /\ cur[s] \in Jobs
      BY <1>11 DEF WriteCommitted, SessionShape, Shape
    <3> QED BY <1>11, <3>1, JobFacts DEF WriteCommitted, TypeOK
  <2>3. Claims(s)'
    BY <1>0, <2>2, JobFacts DEF Claims, Backed, ClaimsAreBacked
  <2>4. ClaimsAreBacked'
    <3>1. \A r \in Sessions : r # s =>
                 /\ pc'[r] = pc[r] /\ cur'[r] = cur[r] /\ view'[r] = view[r]
                 /\ wrote'[r] = wrote[r] /\ txWrite'[r] = txWrite[r]
                 /\ outcome'[r] = outcome[r]
      BY <1>11 DEF TypeOK, WriteCommitted
    <3> QED BY <1>b, <2>3, <3>1
  <2> QED BY <2>1, <2>4
<1>12. ASSUME NEW s \in Sessions, Commit(s)
      PROVE  SucceededIsEvidenced' /\ CommittedIsEvidenced' /\ ClaimsAreBacked'
  <2>1. SucceededIsEvidenced' /\ CommittedIsEvidenced'
    <3>1. ASSUME NEW j \in Jobs, Backed(s, j) PROVE Evidenced(j)'
      <4>1. CASE Evidenced(j)
        BY <1>0, <4>1
      <4>2. CASE outcome[s] = "confirmed" /\ j \in wrote[s]
        BY <1>12, <4>2 DEF Commit, Merged, Evidenced
      <4> QED BY <3>1, <4>1, <4>2 DEF Backed
    <3>2. ASSUME NEW j \in Jobs, job'[j].status = "succeeded" PROVE Evidenced(j)'
      <4>1. CASE j \in wrote[s]
        <5>1. view[s][j].status = "succeeded"
          BY <1>12, <3>2, <4>1 DEF Commit, Merged
        <5> QED BY <3>1, <5>1 DEF Claims, ClaimsAreBacked
      <4>2. CASE j \notin wrote[s]
        BY <1>0, <1>12, <3>2, <4>2 DEF Commit, SucceededIsEvidenced
      <4> QED BY <4>1, <4>2
    <3>3. ASSUME NEW t \in Txns, txn'[t] = "committed", NEW j \in JobsOf(t)
          PROVE  Evidenced(j)'
      <4>1. CASE txWrite[s][t] = "clean"
        BY <1>0, <1>12, <3>3, <4>1, JobFacts DEF Commit, SeesTxn, CommittedIsEvidenced
      <4>2. CASE txWrite[s][t] # "clean"
        <5>1. txWrite[s][t] = "committed"
          BY <1>12, <3>3, <4>2 DEF Commit, SeesTxn
        <5> QED BY <3>1, <3>3, <5>1, JobFacts DEF Claims, ClaimsAreBacked
      <4> QED BY <4>1, <4>2
    <3> QED BY <3>2, <3>3 DEF SucceededIsEvidenced, CommittedIsEvidenced
  <2>2. CloseSession(s)
    BY <1>12 DEF Commit
  <2>3. Claims(s)'
    <3>1. /\ pc'[s] = "idle" /\ \A j \in Jobs : view'[s][j] = Unread
          /\ \A t \in Txns : txWrite'[s][t] = "clean"
      BY <2>2, ClosedSession
    <3> QED BY <3>1 DEF Claims
  <2>4. ClaimsAreBacked'
    BY <1>b, <2>2, <2>3, ClosedSession
  <2> QED BY <2>1, <2>4
<1>13. ASSUME NEW s \in Sessions, Rollback(s)
      PROVE  SucceededIsEvidenced' /\ CommittedIsEvidenced' /\ ClaimsAreBacked'
  <2>1. SucceededIsEvidenced' /\ CommittedIsEvidenced'
    BY <1>13, <1>a DEF Rollback
  <2>2. CloseSession(s)
    BY <1>13 DEF Rollback
  <2>3. Claims(s)'
    <3>1. /\ pc'[s] = "idle" /\ \A j \in Jobs : view'[s][j] = Unread
          /\ \A t \in Txns : txWrite'[s][t] = "clean"
      BY <2>2, ClosedSession
    <3> QED BY <3>1 DEF Claims
  <2>4. ClaimsAreBacked'
    BY <1>b, <2>2, <2>3, ClosedSession
  <2> QED BY <2>1, <2>4
<1>14. ASSUME NEW s \in Sessions, DeadlockVictim(s)
      PROVE  SucceededIsEvidenced' /\ CommittedIsEvidenced' /\ ClaimsAreBacked'
  <2>1. SucceededIsEvidenced' /\ CommittedIsEvidenced'
    BY <1>14, <1>a DEF DeadlockVictim
  <2>2. CloseSession(s)
    BY <1>14 DEF DeadlockVictim
  <2>3. Claims(s)'
    <3>1. /\ pc'[s] = "idle" /\ \A j \in Jobs : view'[s][j] = Unread
          /\ \A t \in Txns : txWrite'[s][t] = "clean"
      BY <2>2, ClosedSession
    <3> QED BY <3>1 DEF Claims
  <2>4. ClaimsAreBacked'
    BY <1>b, <2>2, <2>3, ClosedSession
  <2> QED BY <2>1, <2>4
<1>15. ASSUME NEW j \in Jobs, BackoffElapses(j)
      PROVE  SucceededIsEvidenced' /\ CommittedIsEvidenced' /\ ClaimsAreBacked'
  <2>1. SucceededIsEvidenced' /\ CommittedIsEvidenced'
    BY <1>15, <1>a DEF TypeOK, BackoffElapses
  <2>2. ASSUME NEW r \in Sessions PROVE Claims(r)'
    BY <1>0, <1>15, OtherClaims DEF ClaimsAreBacked, BackoffElapses
  <2> QED BY <2>1, <2>2 DEF ClaimsAreBacked
<1>16. ASSUME NEW t \in Txns, RevalidateDecided(t)
      PROVE  SucceededIsEvidenced' /\ CommittedIsEvidenced' /\ ClaimsAreBacked'
  <2>1. SucceededIsEvidenced' /\ CommittedIsEvidenced'
    BY <1>16, <1>a DEF TypeOK, RevalidateDecided
  <2>2. ASSUME NEW r \in Sessions PROVE Claims(r)'
    BY <1>0, <1>16, OtherClaims DEF ClaimsAreBacked, RevalidateDecided
  <2> QED BY <2>1, <2>2 DEF ClaimsAreBacked
<1>17. ASSUME NEW t \in Txns, Resubmit(t)
      PROVE  SucceededIsEvidenced' /\ CommittedIsEvidenced' /\ ClaimsAreBacked'
  <2>1. SucceededIsEvidenced' /\ CommittedIsEvidenced'
    BY <1>17, <1>a DEF TypeOK, Resubmit
  <2>2. ASSUME NEW r \in Sessions PROVE Claims(r)'
    BY <1>0, <1>17, OtherClaims DEF ClaimsAreBacked, Resubmit
  <2> QED BY <2>1, <2>2 DEF ClaimsAreBacked
<1>18. ASSUME UNCHANGED vars
      PROVE  SucceededIsEvidenced' /\ CommittedIsEvidenced' /\ ClaimsAreBacked'
  <2>1. SucceededIsEvidenced' /\ CommittedIsEvidenced'
    BY <1>18, <1>a DEF vars
  <2>2. ASSUME NEW r \in Sessions PROVE Claims(r)'
    BY <1>0, <1>18, OtherClaims DEF ClaimsAreBacked, vars
  <2> QED BY <2>1, <2>2 DEF ClaimsAreBacked
<1> QED
  BY <1>1, <1>2, <1>3, <1>4, <1>5, <1>6, <1>7, <1>8, <1>9, <1>10,
     <1>11, <1>12, <1>13, <1>14, <1>15, <1>16, <1>17, <1>18 DEF Next, Begin, Proceed

-----------------------------------------------------------------------------
(* The theorems.                                                           *)

HubCore ==
    /\ TypeOK /\ SessionShape /\ QueuedHasAttempts /\ NoJobLeftProcessing
    /\ SucceededIsEvidenced /\ CommittedIsEvidenced /\ ClaimsAreBacked

LEMMA CoreInvariant == Spec => []HubCore
<1>1. Init => HubCore
  <2> SUFFICES ASSUME Init PROVE HubCore
    OBVIOUS
  <2>1. SucceededIsEvidenced /\ CommittedIsEvidenced /\ ClaimsAreBacked
    BY DEF Init, SucceededIsEvidenced, CommittedIsEvidenced, ClaimsAreBacked, Claims,
           AbsentJob, Unread
  <2> QED BY <2>1, InitShape DEF HubCore
<1>2. HubCore /\ [Next]_vars => HubCore'
  BY StepShape, StepEvidence DEF HubCore
<1> QED BY <1>1, <1>2, PTL DEF Spec

\* Every variable keeps its type, whatever the sets of trades and workers.
THEOREM HubTypeCorrect == Spec => []TypeOK
BY CoreInvariant, PTL DEF HubCore

\* A job that reads `succeeded` was accepted by its target or confirmed in
\* writing, whatever sessions overlapped, died or overwrote each other.
THEOREM SuccessIsGenuine == Spec => []SucceededIsEvidenced
BY CoreInvariant, PTL DEF HubCore

\* A committed trade was posted to or filed by hand in every target.
THEOREM CommittedIsGenuine == Spec => []CommittedIsEvidenced
BY CoreInvariant, PTL DEF HubCore

\* A job in the queue has attempts left, so it cannot be retried for ever.
THEOREM AttemptsAreBounded == Spec => []AttemptCeiling
<1>1. HubCore => AttemptCeiling
  BY DEF HubCore, QueuedHasAttempts, AttemptCeiling
<1> QED BY CoreInvariant, <1>1, PTL

\* No crash or rollback leaves a job in `processing`.
THEOREM NeverStuckProcessing == Spec => []NoJobLeftProcessing
BY CoreInvariant, PTL DEF HubCore

\* The mark of a manual completion survives every later write to the job.
THEOREM ManualMarkIsPermanent == Spec => HandMarkIsPermanent
<1>1. HubCore /\ [Next]_vars
        => [\A j \in Jobs : job[j].byHand => job'[j].byHand]_vars
  BY EvidenceStays DEF HubCore
<1> QED BY CoreInvariant, <1>1, PTL DEF Spec, HandMarkIsPermanent

-----------------------------------------------------------------------------
(* The jobs of a trade come together with its decision.                    *)

\* A session keeps to its part while its own state and the trade it writes
\* stay as they are and no job disappears.
LEMMA OtherParts ==
    ASSUME NEW r \in Sessions, KeepsToItsPart(r),
           pc'[r] = pc[r], todo'[r] = todo[r], cur'[r] = cur[r], view'[r] = view[r],
           wrote'[r] = wrote[r], txWrite'[r] = txWrite[r], outcome'[r] = outcome[r],
           \A t \in Txns : txWrite[r][t] # "clean" => txn'[t] = txn[t],
           \A j \in Jobs : job'[j].status = "absent" => job[j].status = "absent",
           pc[r] = "committing" => TxnOf(cur[r]) \in Txns
    PROVE  KeepsToItsPart(r)'
<1>1. r \in Approvers /\ pc'[r] # "idle" => \E t \in Txns : Decides(r, t)'
  <2> SUFFICES ASSUME r \in Approvers, pc[r] # "idle"
               PROVE  \E t \in Txns : Decides(r, t)'
    OBVIOUS
  <2>1. PICK t \in Txns : Decides(r, t)
    BY DEF KeepsToItsPart
  <2>2. Decides(r, t)'
    BY <2>1, JobFacts DEF Decides
  <2> QED BY <2>2
<1>2. r \notin Approvers => WorksOnStored(r)'
  BY JobFacts DEF KeepsToItsPart, WorksOnStored
<1> QED BY <1>1, <1>2 DEF KeepsToItsPart

\* Only s moves, the stored rows stay, and s takes no trade another one writes.
LEMMA OneMoves ==
    ASSUME SessionShape, JobsComeTogether, NEW s \in Sessions,
           \A r \in Sessions : r # s =>
                 /\ pc'[r] = pc[r] /\ todo'[r] = todo[r] /\ cur'[r] = cur[r]
                 /\ view'[r] = view[r] /\ wrote'[r] = wrote[r]
                 /\ txWrite'[r] = txWrite[r] /\ outcome'[r] = outcome[r],
           \A r \in Sessions \ {s}, t \in Txns :
                 txWrite[r][t] # "clean" => txn'[t] = txn[t] /\ txWrite'[s][t] = "clean",
           \A j \in Jobs : job'[j].status = "absent" => job[j].status = "absent",
           KeepsToItsPart(s)'
    PROVE  JobsComeTogether'
<1>1. OneWriter'
  BY DEF JobsComeTogether, OneWriter
<1>2. ASSUME NEW r \in Sessions, r # s PROVE KeepsToItsPart(r)'
  <2>1. KeepsToItsPart(r)
    BY DEF JobsComeTogether
  <2>2. pc[r] = "committing" => TxnOf(cur[r]) \in Txns
    BY JobFacts DEF SessionShape, Shape
  <2> QED BY <1>2, <2>1, <2>2, OtherParts
<1> QED BY <1>1, <1>2 DEF JobsComeTogether

\* A trade another session writes is not written by s as well.
LEMMA WritesAlone ==
    ASSUME JobsComeTogether, NEW s \in Sessions,
           \A t \in Txns : txWrite'[s][t] = txWrite[s][t] \/ txWrite'[s][t] = "clean"
    PROVE  \A r \in Sessions \ {s}, t \in Txns :
                 txWrite[r][t] # "clean" => txWrite'[s][t] = "clean"
BY DEF JobsComeTogether, OneWriter

\* What one step of an attempt may do to a session that keeps to its part.
LEMMA AttemptStep ==
    ASSUME NEW s \in Sessions, KeepsToItsPart(s), UNCHANGED <<txn, job>>,
           pc[s] # "idle", pc'[s] \notin {"retrying", "confirming"},
           cur'[s] \in Jobs, cur'[s] \in {cur[s]} \cup todo[s],
           pc[s] = "ready" => cur'[s] \in todo[s],
           todo'[s] \subseteq todo[s] \cup {cur'[s]},
           wrote[s] \subseteq wrote'[s], wrote'[s] \subseteq wrote[s] \cup {cur'[s]},
           \A k \in Jobs : \/ view'[s][k] = view[s][k]
                           \/ view[s][k] # Unread /\ view'[s][k].status # "absent",
           txWrite'[s] = txWrite[s],
           pc'[s] = "committing" =>
              \A k \in JobsOf(TxnOf(cur'[s])) :
                  view'[s][k] # Unread \/ job[k].status # "absent",
           s \in Approvers => outcome'[s] # "confirmed"
    PROVE  KeepsToItsPart(s)'
<1>1. \A j \in Jobs : view'[s][j].status # "absent"
  BY DEF KeepsToItsPart
<1>2. CASE s \in Approvers
  <2>1. PICK t \in Txns : Decides(s, t)
    BY <1>2 DEF KeepsToItsPart
  <2>2. cur'[s] \in JobsOf(t)
    BY <2>1 DEF Decides
  <2>3. Decides(s, t)'
    BY <2>1, <2>2 DEF Decides
  <2> QED BY <1>1, <1>2, <2>3 DEF KeepsToItsPart
<1>3. CASE s \notin Approvers
  <2>1. WorksOnStored(s)
    BY <1>3 DEF KeepsToItsPart
  <2>2. WorksOnStored(s)'
    BY <2>1, JobFacts DEF WorksOnStored
  <2> QED BY <1>1, <1>3, <2>2 DEF KeepsToItsPart
<1> QED BY <1>2, <1>3

LEMMA StepTogether ==
    TypeOK /\ SessionShape /\ JobsComeTogether /\ [Next]_vars => JobsComeTogether'
<1> SUFFICES ASSUME TypeOK, SessionShape, JobsComeTogether, [Next]_vars
             PROVE  JobsComeTogether'
  OBVIOUS
<1> USE DEF stored, session, bounds
<1>a. ASSUME NEW s \in Sessions, UNCHANGED stored,
             \A r \in Sessions : r # s =>
                 /\ pc'[r] = pc[r] /\ todo'[r] = todo[r] /\ cur'[r] = cur[r]
                 /\ view'[r] = view[r] /\ wrote'[r] = wrote[r]
                 /\ txWrite'[r] = txWrite[r] /\ outcome'[r] = outcome[r],
             \A t \in Txns : txWrite'[s][t] = txWrite[s][t] \/ txWrite'[s][t] = "clean",
             KeepsToItsPart(s)'
      PROVE  JobsComeTogether'
  BY <1>a, WritesAlone, OneMoves
<1>1. ASSUME NEW s \in Approvers, NEW t \in Txns, DecideAndCreateJobs(s, t)
      PROVE  JobsComeTogether'
  <2> DEFINE made == {j \in JobsOf(t) : job[j].status = "absent"}
             row(j) == IF j \in JobsOf(t)
                       THEN IF j \in made THEN NewJob ELSE job[j]
                       ELSE Unread
  <2>a. JobsOf(t) \subseteq Jobs /\ s \in Sessions
    BY JobFacts DEF Sessions
  <2>b. /\ view' = [view EXCEPT ![s] = [j \in Jobs |-> row(j)]]
        /\ wrote' = [wrote EXCEPT ![s] = made]
        /\ todo' = [todo EXCEPT ![s] = {j \in JobsOf(t) : row(j).status = "queued"}]
        /\ pc' = [pc EXCEPT ![s] = "ready"]
        /\ txWrite' = [txWrite EXCEPT ![s][t] = "integration_pending"]
        /\ UNCHANGED <<stored, cur, outcome>>
    BY <1>1, <2>a DEF DecideAndCreateJobs
  <2>c. \A j \in Jobs : row(j).status # "absent"
    BY RowFacts DEF NewJob
  <2> HIDE DEF row
  <2>d. /\ outcome[s] = "none" /\ txn[t] = "approval_pending"
        /\ \A u \in Txns : txWrite[s][u] = "clean"
        /\ \A r \in Sessions \ {s} : txWrite[r][t] = "clean"
    BY <1>1, <2>a DEF DecideAndCreateJobs, SessionShape, Shape, TxnLockedByOther
  <2>e. /\ pc'[s] = "ready" /\ outcome'[s] = "none" /\ wrote'[s] = made
        /\ todo'[s] \subseteq JobsOf(t)
        /\ \A j \in Jobs : view'[s][j] = row(j)
        /\ txWrite'[s][t] = "integration_pending"
        /\ \A u \in Txns \ {t} : txWrite'[s][u] = "clean"
        /\ txn' = txn /\ job' = job
    BY <2>a, <2>b, <2>d DEF TypeOK
  <2>1. Decides(s, t)'
    BY <2>d, <2>e DEF Decides
  <2>2. KeepsToItsPart(s)'
    BY <2>1, <2>c, <2>e DEF KeepsToItsPart
  <2>3. \A r \in Sessions : r # s =>
                 /\ pc'[r] = pc[r] /\ todo'[r] = todo[r] /\ cur'[r] = cur[r]
                 /\ view'[r] = view[r] /\ wrote'[r] = wrote[r]
                 /\ txWrite'[r] = txWrite[r] /\ outcome'[r] = outcome[r]
    BY <2>b, <2>a DEF TypeOK
  <2>4. \A r \in Sessions \ {s}, u \in Txns :
                 txWrite[r][u] # "clean" => txn'[u] = txn[u] /\ txWrite'[s][u] = "clean"
    BY <2>d, <2>e
  <2> QED BY <2>a, <2>2, <2>3, <2>4, <2>e, OneMoves
<1>2. ASSUME NEW s \in Sweepers, BeginSweep(s)
      PROVE  JobsComeTogether'
  <2>a. s \in Sessions /\ s \notin Approvers
    BY HubRoles DEF Sessions
  <2>1. /\ pc'[s] = "ready" /\ wrote'[s] = wrote[s] /\ UNCHANGED stored
        /\ \A j \in Jobs : view'[s][j] \in {Unread, job[j]}
        /\ \A j \in Jobs : view'[s][j] # Unread => job[j].status = "queued"
        /\ \A u \in Txns : txWrite'[s][u] = "clean"
    BY <1>2, <2>a DEF BeginSweep, TypeOK, SessionShape, Shape
  <2>2. KeepsToItsPart(s)'
    BY <2>a, <2>1, RowFacts DEF KeepsToItsPart, WorksOnStored
  <2>3. \A r \in Sessions : r # s =>
                 /\ pc'[r] = pc[r] /\ todo'[r] = todo[r] /\ cur'[r] = cur[r]
                 /\ view'[r] = view[r] /\ wrote'[r] = wrote[r]
                 /\ txWrite'[r] = txWrite[r] /\ outcome'[r] = outcome[r]
    BY <1>2, <2>a DEF BeginSweep, TypeOK
  <2> QED BY <1>a, <2>a, <2>1, <2>2, <2>3
<1>3. ASSUME NEW s \in Admins, NEW j \in Jobs, BeginRetry(s, j) \/ BeginConfirm(s, j)
      PROVE  JobsComeTogether'
  <2>a. s \in Sessions /\ s \notin Approvers
    BY HubRoles DEF Sessions
  <2>b. PICK status \in {"failed", "awaiting_manual_action"}, at \in {"retrying", "confirming"} :
            BeginAdmin(s, j, status, at)
    BY <1>3 DEF BeginRetry, BeginConfirm
  <2>1. /\ pc'[s] = at /\ UNCHANGED stored /\ job[j].status # "absent"
        /\ \A k \in Jobs : view'[s][k] = IF k = j THEN job[j] ELSE Unread
        /\ \A u \in Txns : txWrite'[s][u] = "clean"
    BY <2>a, <2>b DEF BeginAdmin, TypeOK, SessionShape, Shape
  <2>2. KeepsToItsPart(s)'
    BY <2>a, <2>1, RowFacts DEF KeepsToItsPart, WorksOnStored
  <2>3. \A r \in Sessions : r # s =>
                 /\ pc'[r] = pc[r] /\ todo'[r] = todo[r] /\ cur'[r] = cur[r]
                 /\ view'[r] = view[r] /\ wrote'[r] = wrote[r]
                 /\ txWrite'[r] = txWrite[r] /\ outcome'[r] = outcome[r]
    BY <2>b, <2>a DEF BeginAdmin, TypeOK
  <2> QED BY <1>a, <2>a, <2>1, <2>2, <2>3
<1>4. ASSUME NEW s \in Sessions, Requeue(s)
      PROVE  JobsComeTogether'
  <2>a. /\ KeepsToItsPart(s) /\ pc[s] = "retrying" /\ cur[s] \in Jobs
        /\ view[s][cur[s]] \in JobRow /\ s \notin Approvers
    BY <1>4 DEF Requeue, SessionShape, Shape, JobsComeTogether, KeepsToItsPart
  <2> DEFINE row == [view[s][cur[s]] EXCEPT !.status = "queued", !.attempts = 0]
  <2>b. row.status # "absent" /\ view[s][cur[s]] # Unread
    BY <2>a, RowFacts DEF JobRow
  <2>c. /\ view'[s] = [view[s] EXCEPT ![cur[s]] = row]
        /\ \A k \in Jobs : \/ view'[s][k] = view[s][k]
                           \/ view[s][k] # Unread /\ view'[s][k].status # "absent"
    BY <1>4, <2>a, <2>b DEF Requeue, TypeOK
  <2>1. /\ pc'[s] = "ready" /\ cur'[s] = cur[s] /\ todo'[s] = {cur[s]}
        /\ wrote'[s] = wrote[s] \cup {cur[s]} /\ txWrite'[s] = txWrite[s]
        /\ UNCHANGED stored
    BY <1>4 DEF Requeue, TypeOK
  <2>2. KeepsToItsPart(s)'
    BY <2>a, <2>b, <2>c, <2>1, AttemptStep
  <2>3. \A r \in Sessions : r # s =>
                 /\ pc'[r] = pc[r] /\ todo'[r] = todo[r] /\ cur'[r] = cur[r]
                 /\ view'[r] = view[r] /\ wrote'[r] = wrote[r]
                 /\ txWrite'[r] = txWrite[r] /\ outcome'[r] = outcome[r]
    BY <1>4 DEF TypeOK, Requeue
  <2> QED BY <1>a, <2>2, <2>3, <2>1
<1>5. ASSUME NEW s \in Sessions, TakeJob(s)
      PROVE  JobsComeTogether'
  <2>a. KeepsToItsPart(s) /\ pc[s] = "ready" /\ todo[s] \subseteq Jobs
    BY <1>5 DEF TakeJob, TypeOK, JobsComeTogether
  <2>b. s \in Approvers => outcome[s] # "confirmed"
    BY <2>a DEF KeepsToItsPart
  <2>c. cur'[s] \in todo[s] /\ todo'[s] \subseteq todo[s]
    BY <1>5 DEF TakeJob, TypeOK
  <2>1. /\ pc'[s] = "loaded" /\ view'[s] = view[s] /\ wrote'[s] = wrote[s]
        /\ txWrite'[s] = txWrite[s] /\ outcome'[s] = outcome[s]
        /\ UNCHANGED stored
    BY <1>5 DEF TakeJob, TypeOK
  <2>2. KeepsToItsPart(s)'
    BY <2>a, <2>b, <2>c, <2>1, AttemptStep
  <2>3. \A r \in Sessions : r # s =>
                 /\ pc'[r] = pc[r] /\ todo'[r] = todo[r] /\ cur'[r] = cur[r]
                 /\ view'[r] = view[r] /\ wrote'[r] = wrote[r]
                 /\ txWrite'[r] = txWrite[r] /\ outcome'[r] = outcome[r]
    BY <1>5 DEF TypeOK, TakeJob
  <2> QED BY <1>a, <2>2, <2>3, <2>1
<1>6. ASSUME NEW s \in Sessions, StartAttempt(s)
      PROVE  JobsComeTogether'
  <2>a. /\ KeepsToItsPart(s) /\ pc[s] = "loaded" /\ cur[s] \in Jobs
        /\ view[s][cur[s]] \in JobRow /\ (s \in Approvers => outcome[s] # "confirmed")
    BY <1>6 DEF StartAttempt, SessionShape, Shape, JobsComeTogether, KeepsToItsPart
  <2> DEFINE row == [view[s][cur[s]] EXCEPT
                      !.status = "processing", !.attempts = view[s][cur[s]].attempts + 1]
  <2>b. row.status # "absent" /\ view[s][cur[s]] # Unread
    BY <2>a, RowFacts DEF JobRow
  <2>c. /\ view'[s] = [view[s] EXCEPT ![cur[s]] = row]
        /\ \A k \in Jobs : \/ view'[s][k] = view[s][k]
                           \/ view[s][k] # Unread /\ view'[s][k].status # "absent"
    BY <1>6, <2>a, <2>b DEF StartAttempt, TypeOK
  <2>1. /\ pc'[s] = "calling" /\ cur'[s] = cur[s] /\ todo'[s] = todo[s]
        /\ wrote'[s] = wrote[s] \cup {cur[s]} /\ txWrite'[s] = txWrite[s]
        /\ outcome'[s] = outcome[s] /\ UNCHANGED stored
    BY <1>6 DEF StartAttempt, TypeOK
  <2>2. KeepsToItsPart(s)'
    BY <2>a, <2>b, <2>c, <2>1, AttemptStep
  <2>3. \A r \in Sessions : r # s =>
                 /\ pc'[r] = pc[r] /\ todo'[r] = todo[r] /\ cur'[r] = cur[r]
                 /\ view'[r] = view[r] /\ wrote'[r] = wrote[r]
                 /\ txWrite'[r] = txWrite[r] /\ outcome'[r] = outcome[r]
    BY <1>6 DEF TypeOK, StartAttempt
  <2> QED BY <1>a, <2>2, <2>3, <2>1
<1>7. ASSUME NEW s \in Sessions, CallAdapter(s)
      PROVE  JobsComeTogether'
  <2>a. KeepsToItsPart(s) /\ pc[s] = "calling" /\ cur[s] \in Jobs
    BY <1>7 DEF CallAdapter, SessionShape, Shape, JobsComeTogether
  <2>b. PICK answer \in Answers(cur[s]) : outcome' = [outcome EXCEPT ![s] = answer.outcome]
    BY <1>7 DEF CallAdapter
  <2>c. outcome'[s] # "confirmed"
    BY <2>a, <2>b, AnswerFacts DEF TypeOK
  <2>1. /\ pc'[s] = "answered" /\ cur'[s] = cur[s] /\ todo'[s] = todo[s]
        /\ view'[s] = view[s] /\ wrote'[s] = wrote[s] /\ txWrite'[s] = txWrite[s]
        /\ UNCHANGED stored
    BY <1>7 DEF CallAdapter, TypeOK
  <2>2. KeepsToItsPart(s)'
    BY <2>a, <2>b, <2>c, <2>1, AttemptStep
  <2>3. \A r \in Sessions : r # s =>
                 /\ pc'[r] = pc[r] /\ todo'[r] = todo[r] /\ cur'[r] = cur[r]
                 /\ view'[r] = view[r] /\ wrote'[r] = wrote[r]
                 /\ txWrite'[r] = txWrite[r] /\ outcome'[r] = outcome[r]
    BY <1>7 DEF TypeOK, CallAdapter
  <2> QED BY <1>a, <2>2, <2>3, <2>1
<1>8. ASSUME NEW s \in Sessions, Settle(s)
      PROVE  JobsComeTogether'
  <2> DEFINE row == [view[s][cur[s]] EXCEPT
                      !.status = StatusAfter(outcome[s], view[s][cur[s]].attempts)]
             rows == [view[s] EXCEPT ![cur[s]] = row]
  <2>a. /\ KeepsToItsPart(s) /\ pc[s] = "answered" /\ cur[s] \in Jobs
        /\ view[s][cur[s]] \in JobRow /\ (s \in Approvers => outcome[s] # "confirmed")
    BY <1>8 DEF Settle, SessionShape, Shape, JobsComeTogether, KeepsToItsPart
  <2>b. row.status # "absent" /\ view[s][cur[s]] # Unread
    BY <2>a, RowFacts, AnswerFacts DEF JobRow, TypeOK
  <2>c. /\ view'[s] = rows
        /\ \A k \in Jobs : \/ view'[s][k] = view[s][k]
                           \/ view[s][k] # Unread /\ view'[s][k].status # "absent"
    BY <1>8, <2>a, <2>b DEF Settle, TypeOK
  <2>d. pc'[s] \in {"ready", "committing"}
        /\ (pc'[s] = "committing" => AllResolved(s, TxnOf(cur[s]), rows))
    BY <1>8 DEF Settle, TypeOK
  <2> HIDE DEF rows
  <2>1. /\ cur'[s] = cur[s] /\ todo'[s] = todo[s] /\ wrote'[s] = wrote[s]
        /\ txWrite'[s] = txWrite[s] /\ outcome'[s] = outcome[s] /\ UNCHANGED stored
        /\ pc'[s] \in {"ready", "committing"}
        /\ pc'[s] = "committing" =>
              \A k \in JobsOf(TxnOf(cur[s])) :
                  view'[s][k] # Unread \/ job[k].status # "absent"
    BY <1>8, <2>c, <2>d DEF Settle, AllResolved
  <2>2. KeepsToItsPart(s)'
    BY <2>a, <2>b, <2>c, <2>1, AttemptStep
  <2>3. \A r \in Sessions : r # s =>
                 /\ pc'[r] = pc[r] /\ todo'[r] = todo[r] /\ cur'[r] = cur[r]
                 /\ view'[r] = view[r] /\ wrote'[r] = wrote[r]
                 /\ txWrite'[r] = txWrite[r] /\ outcome'[r] = outcome[r]
    BY <1>8 DEF TypeOK, Settle
  <2> QED BY <1>a, <2>2, <2>3, <2>1
<1>9. ASSUME NEW s \in Sessions, ConfirmByHand(s)
      PROVE  JobsComeTogether'
  <2> DEFINE row == [view[s][cur[s]] EXCEPT !.status = "succeeded", !.byHand = TRUE]
             rows == [view[s] EXCEPT ![cur[s]] = row]
  <2>a. /\ KeepsToItsPart(s) /\ pc[s] = "confirming" /\ cur[s] \in Jobs
        /\ view[s][cur[s]] \in JobRow /\ s \notin Approvers
    BY <1>9 DEF ConfirmByHand, SessionShape, Shape, JobsComeTogether, KeepsToItsPart
  <2>b. row.status # "absent" /\ view[s][cur[s]] # Unread
    BY <2>a, RowFacts DEF JobRow
  <2>c. /\ view'[s] = rows
        /\ \A k \in Jobs : \/ view'[s][k] = view[s][k]
                           \/ view[s][k] # Unread /\ view'[s][k].status # "absent"
    BY <1>9, <2>a, <2>b DEF ConfirmByHand, TypeOK
  <2>d. pc'[s] \in {"ready", "committing"}
        /\ (pc'[s] = "committing" => AllResolved(s, TxnOf(cur[s]), rows))
    BY <1>9 DEF ConfirmByHand, TypeOK
  <2> HIDE DEF rows
  <2>1. /\ cur'[s] = cur[s] /\ todo'[s] = todo[s] /\ wrote'[s] = wrote[s] \cup {cur[s]}
        /\ txWrite'[s] = txWrite[s] /\ UNCHANGED stored
        /\ pc'[s] \in {"ready", "committing"}
        /\ pc'[s] = "committing" =>
              \A k \in JobsOf(TxnOf(cur[s])) :
                  view'[s][k] # Unread \/ job[k].status # "absent"
    BY <1>9, <2>c, <2>d DEF ConfirmByHand, AllResolved, TypeOK
  <2>2. KeepsToItsPart(s)'
    BY <2>a, <2>b, <2>c, <2>1, AttemptStep
  <2>3. \A r \in Sessions : r # s =>
                 /\ pc'[r] = pc[r] /\ todo'[r] = todo[r] /\ cur'[r] = cur[r]
                 /\ view'[r] = view[r] /\ wrote'[r] = wrote[r]
                 /\ txWrite'[r] = txWrite[r] /\ outcome'[r] = outcome[r]
    BY <1>9 DEF TypeOK, ConfirmByHand
  <2> QED BY <1>a, <2>2, <2>3, <2>1
<1>10. ASSUME NEW s \in Sessions, WriteCommitted(s)
      PROVE  JobsComeTogether'
  <2> DEFINE c == TxnOf(cur[s])
  <2>a. /\ pc[s] = "committing" /\ cur[s] \in Jobs /\ c \in Txns
        /\ KeepsToItsPart(s)
    BY <1>10, JobFacts DEF WriteCommitted, SessionShape, Shape, JobsComeTogether
  <2>b. /\ pc'[s] = "ready" /\ cur'[s] = cur[s] /\ todo'[s] = todo[s]
        /\ view'[s] = view[s] /\ wrote'[s] = wrote[s] /\ outcome'[s] = outcome[s]
        /\ txWrite'[s][c] = "committed"
        /\ \A t \in Txns : t # c => txWrite'[s][t] = txWrite[s][t]
        /\ \A r \in Sessions \ {s} : txWrite[r][c] = "clean"
        /\ UNCHANGED <<txn, job>>
    BY <1>10, <2>a DEF WriteCommitted, TypeOK, TxnLockedByOther
  <2> HIDE DEF c
  <2>1. ASSUME s \in Approvers PROVE KeepsToItsPart(s)'
    <3>1. PICK t \in Txns : Decides(s, t)
      BY <2>a, <2>1 DEF KeepsToItsPart
    <3>2. c = t
      BY <3>1, <2>a, JobFacts DEF Decides, c
    <3>3. Decides(s, t)'
      BY <2>b, <3>1, <3>2 DEF Decides
    <3> QED BY <2>a, <2>b, <2>1, <3>3 DEF KeepsToItsPart
  <2>2. ASSUME s \notin Approvers PROVE KeepsToItsPart(s)'
    <3>1. WorksOnStored(s)
      BY <2>a, <2>2 DEF KeepsToItsPart
    <3>2. WorksOnStored(s)'
      BY <2>a, <2>b, <3>1 DEF WorksOnStored, c
    <3> QED BY <2>a, <2>b, <2>2, <3>2 DEF KeepsToItsPart
  <2>3. \A r \in Sessions : r # s =>
                 /\ pc'[r] = pc[r] /\ todo'[r] = todo[r] /\ cur'[r] = cur[r]
                 /\ view'[r] = view[r] /\ wrote'[r] = wrote[r]
                 /\ txWrite'[r] = txWrite[r] /\ outcome'[r] = outcome[r]
    BY <1>10 DEF TypeOK, WriteCommitted
  <2>4. \A r \in Sessions \ {s}, t \in Txns :
                 txWrite[r][t] # "clean" => txn'[t] = txn[t] /\ txWrite'[s][t] = "clean"
    BY <2>b DEF JobsComeTogether, OneWriter
  <2> QED BY <2>b, <2>1, <2>2, <2>3, <2>4, OneMoves
<1>b. ASSUME NEW s \in Sessions, CloseSession(s)
      PROVE  KeepsToItsPart(s)' /\ \A t \in Txns : txWrite'[s][t] = "clean"
  <2>1. /\ pc'[s] = "idle" /\ \A j \in Jobs : view'[s][j] = Unread
        /\ \A t \in Txns : txWrite'[s][t] = "clean"
    BY <1>b, ClosedSession
  <2> QED BY <2>1, RowFacts DEF KeepsToItsPart, WorksOnStored
<1>11. ASSUME NEW s \in Sessions, Commit(s)
      PROVE  JobsComeTogether'
  <2>1. CloseSession(s)
    BY <1>11 DEF Commit
  <2>2. \A j \in Jobs : job'[j].status = "absent" => job[j].status = "absent"
    BY <1>11 DEF Commit, Merged, JobsComeTogether, KeepsToItsPart
  <2>3. \A r \in Sessions \ {s}, t \in Txns :
                 txWrite[r][t] # "clean" => txn'[t] = txn[t] /\ txWrite'[s][t] = "clean"
    <3>1. \A r \in Sessions \ {s}, t \in Txns :
                 txWrite[r][t] # "clean" => txWrite[s][t] = "clean"
      BY DEF JobsComeTogether, OneWriter
    <3> QED BY <1>11, <1>b, <2>1, <3>1 DEF Commit, SeesTxn
  <2> QED BY SMTT(30), <1>b, <2>1, <2>2, <2>3, ClosedSession, OneMoves
<1>12. ASSUME NEW s \in Sessions, Rollback(s) \/ DeadlockVictim(s)
      PROVE  JobsComeTogether'
  <2>1. CloseSession(s) /\ UNCHANGED stored
    BY <1>12 DEF Rollback, DeadlockVictim
  <2> QED BY SMTT(30), <1>a, <1>b, <2>1, ClosedSession
<1>c. ASSUME UNCHANGED <<session, job>>,
             \A r \in Sessions, t \in Txns : txWrite[r][t] # "clean" => txn'[t] = txn[t]
      PROVE  JobsComeTogether'
  <2>1. OneWriter'
    BY <1>c DEF JobsComeTogether, OneWriter
  <2>2. ASSUME NEW r \in Sessions PROVE KeepsToItsPart(r)'
    <3>1. pc[r] = "committing" => TxnOf(cur[r]) \in Txns
      BY JobFacts DEF SessionShape, Shape
    <3>2. KeepsToItsPart(r)
      BY DEF JobsComeTogether
    <3> QED BY <1>c, <3>1, <3>2, OtherParts
  <2> QED BY <2>1, <2>2 DEF JobsComeTogether
<1>13. ASSUME NEW j \in Jobs, BackoffElapses(j)
      PROVE  JobsComeTogether'
  BY <1>13, <1>c DEF BackoffElapses
<1>14. ASSUME NEW t \in Txns, RevalidateDecided(t) \/ Resubmit(t)
      PROVE  JobsComeTogether'
  <2>1. /\ \A s \in Sessions : txWrite[s][t] = "clean"
        /\ \A u \in Txns : u # t => txn'[u] = txn[u]
        /\ UNCHANGED <<session, job>>
    BY <1>14 DEF RevalidateDecided, Resubmit, TypeOK
  <2> QED BY <1>c, <2>1
<1>15. ASSUME UNCHANGED vars
      PROVE  JobsComeTogether'
  BY <1>15, <1>c DEF vars
<1> QED
  BY <1>1, <1>2, <1>3, <1>4, <1>5, <1>6, <1>7, <1>8, <1>9, <1>10,
     <1>11, <1>12, <1>13, <1>14, <1>15 DEF Next, Begin, Proceed

\* What a commit does to the rows: an approver turns one undecided trade into
\* a decided one with all its jobs, anyone else keeps the decision of every
\* trade or commits it, and no job comes or goes.
LEMMA CommitEffect ==
    ASSUME TypeOK, SessionShape, JobsComeTogether, NEW s \in Sessions, Commit(s)
    PROVE  /\ UNCHANGED posts
           /\ \A j \in Jobs : job[j].byHand => job'[j].byHand
           /\ s \in Approvers => \E t \in Txns :
                 /\ txn[t] = "approval_pending"
                 /\ txn'[t] \in {"integration_pending", "committed"}
                 /\ \A u \in Txns \ {t} : txn'[u] = txn[u]
                 /\ \A j \in JobsOf(t) : job'[j].status # "absent"
                 /\ \A j \in Jobs \ JobsOf(t) : job'[j] = job[j]
                 /\ \A j \in Jobs : job'[j].byHand = job[j].byHand
           /\ s \notin Approvers =>
                 /\ \A j \in Jobs : job[j].status = "absent" <=> job'[j].status = "absent"
                 /\ \A t \in Txns : \/ txn'[t] = txn[t]
                                    \/ /\ txn'[t] = "committed"
                                       /\ \A j \in JobsOf(t) : job[j].status # "absent"
<1>1. /\ pc[s] = "ready"
      /\ \A j \in Jobs : job'[j] = IF j \in wrote[s] THEN Merged(s, j) ELSE job[j]
      /\ \A t \in Txns : txn'[t] = IF txWrite[s][t] = "clean" THEN txn[t] ELSE txWrite[s][t]
      /\ UNCHANGED posts
  BY DEF Commit, SeesTxn
<1>2. KeepsToItsPart(s) /\ wrote[s] \subseteq Jobs
  BY DEF JobsComeTogether, TypeOK
<1>3. \A j \in Jobs : /\ Merged(s, j).status = view[s][j].status
                      /\ Merged(s, j).byHand = (job[j].byHand \/ outcome[s] = "confirmed")
  BY DEF Merged
<1>4. \A j \in Jobs : job[j].byHand => job'[j].byHand
  BY <1>1, <1>3
<1>5. ASSUME s \in Approvers
      PROVE  \E t \in Txns :
                 /\ txn[t] = "approval_pending"
                 /\ txn'[t] \in {"integration_pending", "committed"}
                 /\ \A u \in Txns \ {t} : txn'[u] = txn[u]
                 /\ \A j \in JobsOf(t) : job'[j].status # "absent"
                 /\ \A j \in Jobs \ JobsOf(t) : job'[j] = job[j]
                 /\ \A j \in Jobs : job'[j].byHand = job[j].byHand
  <2>1. PICK t \in Txns : Decides(s, t)
    BY <1>1, <1>2, <1>5 DEF KeepsToItsPart
  <2>2. outcome[s] # "confirmed"
    BY <1>1, <1>2, <1>5 DEF KeepsToItsPart
  <2>3. \A j \in JobsOf(t) : job'[j].status # "absent"
    BY <1>1, <1>2, <1>3, <2>1, JobFacts DEF Decides, KeepsToItsPart
  <2>4. \A j \in Jobs : job'[j].byHand = job[j].byHand
    <3>1. \A j \in Jobs : job[j].byHand \in BOOLEAN
      BY DEF TypeOK, JobRow
    <3> QED BY <1>1, <1>3, <2>2, <3>1
  <2> QED BY <1>1, <2>1, <2>3, <2>4 DEF Decides
<1>6. ASSUME s \notin Approvers
      PROVE  /\ \A j \in Jobs : job[j].status = "absent" <=> job'[j].status = "absent"
             /\ \A t \in Txns : \/ txn'[t] = txn[t]
                                \/ /\ txn'[t] = "committed"
                                   /\ \A j \in JobsOf(t) : job[j].status # "absent"
  <2>1. WorksOnStored(s)
    BY <1>2, <1>6 DEF KeepsToItsPart
  <2>2. \A j \in wrote[s] : view[s][j] # Unread /\ view[s][j].status # "absent"
    BY <1>2, RowFacts DEF SessionShape, Shape, KeepsToItsPart
  <2> QED BY <1>1, <1>2, <1>3, <2>1, <2>2 DEF WorksOnStored
<1> QED BY <1>1, <1>4, <1>5, <1>6

\* The steps that change no committed row.
RowsStay ==
    \/ \E s \in Sessions :
          Begin(s) \/ Requeue(s) \/ TakeJob(s) \/ StartAttempt(s) \/ CallAdapter(s)
             \/ Settle(s) \/ ConfirmByHand(s) \/ WriteCommitted(s)
             \/ DeadlockVictim(s) \/ Rollback(s)
    \/ \E j \in Jobs : BackoffElapses(j)
    \/ UNCHANGED vars

LEMMA RowsStayStill == RowsStay => UNCHANGED <<txn, job>>
BY ZenonT(60) DEF RowsStay, Begin, DecideAndCreateJobs, BeginSweep, BeginRetry, BeginConfirm, BeginAdmin,
       Requeue, TakeJob, StartAttempt, CallAdapter, Settle, ConfirmByHand, WriteCommitted,
       DeadlockVictim, Rollback, BackoffElapses, vars, stored, session, bounds

\* Every step is one of four kinds.
LEMMA StepKinds ==
    [Next]_vars =>
        \/ RowsStay
        \/ \E s \in Sessions : Commit(s)
        \/ \E t \in Txns : RevalidateDecided(t) \/ Resubmit(t)
BY DEF Next, Proceed, RowsStay

LEMMA StepDecided ==
    TypeOK /\ SessionShape /\ JobsComeTogether /\ DecidedTradeHasItsJobs /\ [Next]_vars
        => DecidedTradeHasItsJobs'
<1> SUFFICES ASSUME TypeOK, SessionShape, JobsComeTogether, DecidedTradeHasItsJobs, [Next]_vars
             PROVE  DecidedTradeHasItsJobs'
  OBVIOUS
<1>1. CASE RowsStay
  BY <1>1, RowsStayStill DEF DecidedTradeHasItsJobs
<1>2. ASSUME NEW s \in Sessions, Commit(s) PROVE DecidedTradeHasItsJobs'
  <2>1. CASE s \in Approvers
    BY <1>2, <2>1, CommitEffect, JobFacts DEF DecidedTradeHasItsJobs
  <2>2. CASE s \notin Approvers
    BY <1>2, <2>2, CommitEffect, JobFacts DEF DecidedTradeHasItsJobs
  <2> QED BY <2>1, <2>2
<1>3. ASSUME NEW t \in Txns, RevalidateDecided(t) \/ Resubmit(t)
      PROVE  DecidedTradeHasItsJobs'
  BY SMTT(30), <1>3 DEF RevalidateDecided, Resubmit, DecidedTradeHasItsJobs, TypeOK
<1> QED BY <1>1, <1>2, <1>3, StepKinds

-----------------------------------------------------------------------------
(* The refinement of PostingPromise.                                       *)

\* The refinement mapping reads the committed rows and what was accepted.
LEMMA MappedStill ==
    UNCHANGED <<txn, job, posts>> => UNCHANGED Promise!promised
BY DEF Promise!promised, StageOf, PostingOf, Evidenced

\* After a step, a claim in the rows has a posting or a person behind it.
LEMMA MappedHonest ==
    SucceededIsEvidenced' /\ CommittedIsEvidenced' => Promise!Honest'
<1> SUFFICES ASSUME SucceededIsEvidenced', CommittedIsEvidenced' PROVE Promise!Honest'
  OBVIOUS
<1>1. \A st : StageOf(st) = "committed" => st = "committed"
  BY DEF StageOf
<1>2. \A st : PostingOf(st) = "resolved" => st = "succeeded"
  BY DEF PostingOf
<1> QED BY <1>1, <1>2, JobFacts DEF Promise!Honest, Promise!Jobs, Promise!JobsOf, Jobs, JobsOf,
      SucceededIsEvidenced, CommittedIsEvidenced

\* What the mapped variables are, job by job and trade by trade.
LEMMA Mapped ==
    /\ StageOf("approval_pending") = "undecided"
    /\ StageOf("validation_pending") = "undecided"
    /\ StageOf("integration_pending") = "decided"
    /\ StageOf("committed") = "committed"
    /\ \A st \in JobStatus :
          /\ PostingOf(st) = "absent" <=> st = "absent"
          /\ st # "absent" => PostingOf(st) \in {"open", "resolved"}
BY DEF StageOf, PostingOf, JobStatus

\* An accepted posting is behind its job from then on.
LEMMA CallAccepts ==
    ASSUME TypeOK, SessionShape, NEW s \in Sessions, CallAdapter(s)
    PROVE  [Promise!Next]_(Promise!promised)
<1>1. PICK answer \in Answers(cur[s]) :
            posts' = IF answer.accepted /\ posts[cur[s]] < 2
                     THEN [posts EXCEPT ![cur[s]] = @ + 1] ELSE posts
  BY DEF CallAdapter
<1>2. UNCHANGED <<txn, job>> /\ cur[s] \in Jobs
  BY DEF CallAdapter, stored, SessionShape, Shape
<1>3. CASE answer.accepted /\ posts[cur[s]] < 2
  <2>1. /\ posts'[cur[s]] > 0
        /\ \A j \in Jobs : j # cur[s] => posts'[j] = posts[j]
    <3>1. posts \in [Jobs -> 0..2]
      BY DEF TypeOK
    <3>2. posts' = [posts EXCEPT ![cur[s]] = posts[cur[s]] + 1]
      BY <1>1, <1>3
    <3> QED BY <1>2, <3>1, <3>2
  <2>2. {j \in Jobs : Evidenced(j)'} = {j \in Jobs : Evidenced(j)} \cup {cur[s]}
    BY <1>2, <2>1 DEF Evidenced
  <2>3. Promise!Accept(cur[s])
    BY <1>2, <2>2 DEF Promise!Accept
  <2> QED BY <1>2, <2>3 DEF Promise!Next, Promise!Jobs, Jobs
<1>4. CASE ~(answer.accepted /\ posts[cur[s]] < 2)
  BY <1>1, <1>2, <1>4, MappedStill
<1> QED BY <1>3, <1>4

\* An approver's commit is the decision of one trade, any other one is work
\* on jobs that are there.
LEMMA CommitKeepsPromise ==
    ASSUME TypeOK, SessionShape, JobsComeTogether, NEW s \in Sessions, Commit(s),
           TypeOK', SucceededIsEvidenced', CommittedIsEvidenced'
    PROVE  Promise!Next
<1>0. Promise!Honest'
  BY MappedHonest
<1>1. \A j \in Jobs : job[j].status \in JobStatus /\ job'[j].status \in JobStatus
  BY DEF TypeOK, JobRow
<1>2. CASE s \in Approvers
  <2>1. PICK t \in Txns :
                 /\ txn[t] = "approval_pending"
                 /\ txn'[t] \in {"integration_pending", "committed"}
                 /\ \A u \in Txns \ {t} : txn'[u] = txn[u]
                 /\ \A j \in JobsOf(t) : job'[j].status # "absent"
                 /\ \A j \in Jobs \ JobsOf(t) : job'[j] = job[j]
                 /\ \A j \in Jobs : job'[j].byHand = job[j].byHand
    BY <1>2, CommitEffect
  <2>2. {j \in Jobs : Evidenced(j)'} = {j \in Jobs : Evidenced(j)}
    BY <2>1, CommitEffect DEF Evidenced
  <2>3. Promise!Decide(t)
    BY <1>0, <1>1, <2>1, <2>2, Mapped, JobFacts
       DEF Promise!Decide, Promise!Jobs, Promise!JobsOf, Jobs, JobsOf
  <2> QED BY <2>3 DEF Promise!Next
<1>3. CASE s \notin Approvers
  <2>1. {j \in Jobs : Evidenced(j)} \subseteq {j \in Jobs : Evidenced(j)'}
    BY CommitEffect DEF Evidenced
  <2>2. Promise!Work
    BY <1>0, <1>1, <1>3, <2>1, CommitEffect, Mapped DEF Promise!Work, Promise!Jobs, Jobs
  <2> QED BY <2>2 DEF Promise!Next
<1> QED BY <1>2, <1>3

\* Sending a trade round again reopens it, or changes nothing that is promised.
LEMMA ReopenKeepsPromise ==
    ASSUME TypeOK, NEW t \in Txns, RevalidateDecided(t) \/ Resubmit(t)
    PROVE  [Promise!Next]_(Promise!promised)
<1>1. UNCHANGED <<job, posts>>
  BY DEF RevalidateDecided, Resubmit, bounds
<1>2. {j \in Jobs : Evidenced(j)'} = {j \in Jobs : Evidenced(j)}
  BY <1>1 DEF Evidenced
<1>3. CASE RevalidateDecided(t)
  <2>1. /\ txn[t] \in {"integration_pending", "committed"}
        /\ txn' = [txn EXCEPT ![t] = "validation_pending"]
    BY <1>3 DEF RevalidateDecided
  <2>2. [u \in Txns |-> StageOf(txn'[u])]
          = [[u \in Txns |-> StageOf(txn[u])] EXCEPT ![t] = "undecided"]
    BY <2>1, Mapped DEF TypeOK
  <2>3. Promise!Reopen(t)
    BY <1>1, <1>2, <2>1, <2>2, Mapped DEF Promise!Reopen
  <2> QED BY <2>3 DEF Promise!Next
<1>4. CASE Resubmit(t)
  <2>1. \A u \in Txns : StageOf(txn'[u]) = StageOf(txn[u])
    BY <1>4, Mapped DEF Resubmit, TypeOK
  <2> QED BY <1>1, <1>2, <2>1 DEF Promise!promised
<1> QED BY <1>3, <1>4

LEMMA FullInvariant == Spec => []HubInv
<1>1. Init => JobsComeTogether /\ DecidedTradeHasItsJobs
  <2> SUFFICES ASSUME Init PROVE JobsComeTogether /\ DecidedTradeHasItsJobs
    OBVIOUS
  <2>1. /\ \A s \in Sessions : pc[s] = "idle" /\ \A j \in Jobs : view[s][j] = Unread
        /\ \A s \in Sessions, t \in Txns : txWrite[s][t] = "clean"
        /\ \A t \in Txns : txn[t] = "approval_pending"
        /\ \A j \in Jobs : job[j].status = "absent"
    BY DEF Init, AbsentJob
  <2>2. OneWriter
    BY <2>1 DEF OneWriter
  <2>3. ASSUME NEW s \in Sessions PROVE KeepsToItsPart(s)
    BY <2>1, RowFacts DEF KeepsToItsPart, WorksOnStored
  <2>4. DecidedTradeHasItsJobs
    BY <2>1, JobFacts DEF DecidedTradeHasItsJobs
  <2> QED BY <2>2, <2>3, <2>4 DEF JobsComeTogether
<1>2. HubCore /\ JobsComeTogether /\ DecidedTradeHasItsJobs /\ [Next]_vars
        => JobsComeTogether' /\ DecidedTradeHasItsJobs'
  BY StepTogether, StepDecided DEF HubCore
<1>3. HubCore /\ JobsComeTogether /\ DecidedTradeHasItsJobs => HubInv
  BY DEF HubCore, HubInv
<1> QED BY <1>1, <1>2, <1>3, CoreInvariant, PTL DEF Spec

\* A decided trade has all of its jobs and an undecided one all or none: an
\* approval that dies half-way leaves nothing behind.
THEOREM JobsArriveWithTheDecision == Spec => []DecidedTradeHasItsJobs
BY FullInvariant, PTL DEF HubInv

\* The hub keeps its promise: every step of every replica, approver and
\* administrator is a step of PostingPromise on the committed rows, or none.
THEOREM HubKeepsPromise == Spec => KeepsPromise
<1>1. Init => Promise!Init
  <2> SUFFICES ASSUME Init PROVE Promise!Init
    OBVIOUS
  <2>1. /\ \A t \in Txns : StageOf(txn[t]) = "undecided"
        /\ \A j \in Jobs : PostingOf(job[j].status) = "absent" /\ ~Evidenced(j)
    BY Mapped DEF Init, AbsentJob, PostingOf, Evidenced
  <2> QED BY <2>1 DEF Promise!Init, Promise!Jobs, Jobs
<1>2. HubInv /\ HubInv' /\ [Next]_vars => [Promise!Next]_(Promise!promised)
  <2> SUFFICES ASSUME HubInv, HubInv', [Next]_vars
               PROVE  [Promise!Next]_(Promise!promised)
    OBVIOUS
  <2>0. /\ TypeOK /\ SessionShape /\ JobsComeTogether
        /\ TypeOK' /\ SucceededIsEvidenced' /\ CommittedIsEvidenced'
    BY DEF HubInv
  <2>1. ASSUME NEW s \in Sessions, CallAdapter(s)
        PROVE  [Promise!Next]_(Promise!promised)
    BY <2>0, <2>1, CallAccepts
  <2>2. ASSUME NEW s \in Sessions, Commit(s)
        PROVE  [Promise!Next]_(Promise!promised)
    BY <2>0, <2>2, CommitKeepsPromise
  <2>3. ASSUME NEW t \in Txns, RevalidateDecided(t) \/ Resubmit(t)
        PROVE  [Promise!Next]_(Promise!promised)
    BY <2>0, <2>3, ReopenKeepsPromise
  <2>4. ASSUME RowsStay, ~\E s \in Sessions : CallAdapter(s)
        PROVE  [Promise!Next]_(Promise!promised)
    <3>1. UNCHANGED posts
      BY ZenonT(60), <2>4 DEF RowsStay, Begin, DecideAndCreateJobs, BeginSweep, BeginRetry, BeginConfirm,
         BeginAdmin, Requeue, TakeJob, StartAttempt, Settle, ConfirmByHand, WriteCommitted,
         DeadlockVictim, Rollback, BackoffElapses, vars, stored, session, bounds
    <3> QED BY <2>4, <3>1, RowsStayStill, MappedStill
  <2> QED BY <2>1, <2>2, <2>3, <2>4, StepKinds
<1>3. QED
  BY <1>1, <1>2, FullInvariant, PTL DEF Spec, KeepsPromise, Promise!Spec

-----------------------------------------------------------------------------
(* The rules at the head of the service, without rivals.                   *)

\* Whoever has loaded a row is alone with it.
LEMMA LoadedOnce ==
    ASSUME SessionShape, JobsComeTogether, AloneInv, NoRivals, NEW r \in Sessions, NEW s \in Sessions,
           NEW j \in Jobs, view[r][j] # Unread, view[s][j] # Unread
    PROVE  r = s
<1>1. Stands(r) /\ Stands(s) /\ OneWriter /\ TxnOf(j) \in Txns
  BY JobFacts DEF AloneInv, JobsComeTogether
<1>2. /\ (r \in Sweepers => job[j].status = "queued")
      /\ (s \in Sweepers => job[j].status = "queued")
      /\ (r \in Approvers => job[j].status = "absent" /\ txWrite[r][TxnOf(j)] # "clean")
      /\ (s \in Approvers => job[j].status = "absent" /\ txWrite[s][TxnOf(j)] # "clean")
      /\ (r \in Admins => job[j].status \in {"failed", "awaiting_manual_action"})
      /\ (s \in Admins => job[j].status \in {"failed", "awaiting_manual_action"})
  BY <1>1 DEF Stands
<1>3. r \in Approvers /\ s \in Approvers => r = s
  BY <1>1, <1>2 DEF OneWriter
<1> QED BY <1>2, <1>3 DEF Sessions, NoRivals

\* A row a session writes is one it has loaded, and a resolved row is in
\* nobody's hands.
LEMMA WrittenIsLoaded ==
    ASSUME TypeOK, SessionShape, AloneInv, NEW s \in Sessions
    PROVE  /\ \A j \in wrote[s] : j \in Jobs /\ view[s][j] # Unread
           /\ \A j \in Jobs : job[j].status = "succeeded" => view[s][j] = Unread
<1>1. \A j \in wrote[s] : j \in Jobs /\ view[s][j] # Unread
  BY RowFacts DEF TypeOK, SessionShape, Shape
<1>2. Stands(s)
  BY DEF AloneInv
<1>3. \A j \in Jobs : job[j].status = "succeeded" => view[s][j] = Unread
  BY <1>2 DEF Stands, Sessions
<1> QED BY <1>1, <1>3

\* While the committed rows stand, only the session that moves has to be looked at.
LEMMA OnlyOneMoves ==
    ASSUME AloneInv, NEW s \in Sessions, UNCHANGED <<txn, job>>,
           \A r \in Sessions : r # s =>
                 /\ pc'[r] = pc[r] /\ todo'[r] = todo[r] /\ cur'[r] = cur[r]
                 /\ view'[r] = view[r] /\ wrote'[r] = wrote[r]
                 /\ txWrite'[r] = txWrite[r] /\ outcome'[r] = outcome[r],
           Stands(s)', Sure(s)'
    PROVE  AloneInv'
<1>1. ASSUME NEW r \in Sessions, r # s PROVE Stands(r)' /\ Sure(r)'
  <2>1. Stands(r) /\ Sure(r)
    BY DEF AloneInv
  <2>2. /\ pc'[r] = pc[r] /\ cur'[r] = cur[r] /\ view'[r] = view[r] /\ wrote'[r] = wrote[r]
        /\ txWrite'[r] = txWrite[r] /\ outcome'[r] = outcome[r]
    BY <1>1
  <2>3. Stands(r)'
    BY <2>1, <2>2 DEF Stands
  <2>4. Sure(r)'
    BY <2>1, <2>2 DEF Sure, Resolved
  <2> QED BY <2>3, <2>4
<1>2. DecidedOnce' /\ CommittedMeansResolved'
  BY DEF AloneInv, DecidedOnce, CommittedMeansResolved
<1> QED BY <1>1, <1>2 DEF AloneInv

\* A closed session has nothing to answer for.
LEMMA ClosedStands ==
    ASSUME TypeOK, NEW s \in Sessions, CloseSession(s)
    PROVE  Stands(s)' /\ Sure(s)'
<1>1. /\ pc'[s] = "idle" /\ \A j \in Jobs : view'[s][j] = Unread
      /\ \A t \in Txns : txWrite'[s][t] = "clean"
  BY ClosedSession
<1> QED BY <1>1 DEF Stands, Sure

\* A session between two states of its work: it writes no trade, and what
\* changes in its copies is the row at hand, which is not resolved before.
LEMMA WorkStands ==
    ASSUME NEW s \in Sessions, Stands(s), Sure(s), UNCHANGED job, cur[s] \in Jobs,
           txWrite'[s] = txWrite[s], pc'[s] \notin {"committing", "retrying", "confirming"},
           \A j \in Jobs : j # cur[s] => view'[s][j] = view[s][j],
           view[s][cur[s]] # Unread, view[s][cur[s]].status # "succeeded",
           view'[s][cur[s]].status = "succeeded" => cur[s] \in wrote'[s],
           wrote[s] \subseteq wrote'[s],
           pc'[s] \in {"calling", "answered"} =>
              cur'[s] \in wrote'[s] /\ view'[s][cur'[s]].status = "processing",
           s \in Admins =>
              (pc'[s] = "confirming" \/ outcome'[s] = "confirmed")
                 <=> (pc[s] = "confirming" \/ outcome[s] = "confirmed")
    PROVE  Stands(s)' /\ Sure(s)'
<1>1. \A t \in Txns : txWrite[s][t] = "committed" => cur[s] \notin JobsOf(t)
  BY DEF Sure, Resolved
<1>2. Sure(s)'
  BY <1>1, JobFacts DEF Sure, Resolved
<1>3. Stands(s)'
  BY JobFacts DEF Stands
<1> QED BY <1>2, <1>3

LEMMA AloneBegins ==
    ASSUME TypeOK, SessionShape, AloneInv, NEW s \in Sessions, Begin(s)
    PROVE  Stands(s)' /\ Sure(s)'
<1>0. s \in Sweepers \/ s \in Approvers \/ s \in Admins
  BY DEF Sessions
<1>1. ASSUME s \in Approvers, NEW t \in Txns, DecideAndCreateJobs(s, t)
      PROVE  Stands(s)' /\ Sure(s)'
  <2> DEFINE made == {j \in JobsOf(t) : job[j].status = "absent"}
             row(j) == IF j \in JobsOf(t)
                       THEN IF j \in made THEN NewJob ELSE job[j]
                       ELSE Unread
  <2>1. s \notin Sweepers /\ s \notin Admins /\ JobsOf(t) \subseteq Jobs
    BY <1>1, HubRoles, JobFacts
  <2>2. \A j \in JobsOf(t) : job[j].status = "absent"
    BY <1>1 DEF DecideAndCreateJobs, AloneInv, DecidedOnce
  <2>3. \A j \in Jobs : row(j) = IF j \in JobsOf(t) THEN NewJob ELSE Unread
    BY <2>2
  <2>4. /\ view' = [view EXCEPT ![s] = [j \in Jobs |-> row(j)]]
        /\ pc[s] = "idle" /\ pc' = [pc EXCEPT ![s] = "ready"]
        /\ txWrite' = [txWrite EXCEPT ![s][t] = "integration_pending"]
        /\ UNCHANGED <<stored, outcome>>
    BY <1>1, <2>1 DEF DecideAndCreateJobs
  <2> HIDE DEF row
  <2>5. \A u \in Txns : txWrite[s][u] = "clean"
    BY <2>4 DEF SessionShape, Shape
  <2>6. /\ pc'[s] = "ready" /\ job' = job
        /\ \A j \in Jobs : view'[s][j] = IF j \in JobsOf(t) THEN NewJob ELSE Unread
        /\ txWrite'[s][t] = "integration_pending"
        /\ \A u \in Txns \ {t} : txWrite'[s][u] = "clean"
    BY <2>3, <2>4, <2>5 DEF TypeOK, stored
  <2>7. Stands(s)'
    BY <2>1, <2>2, <2>6, JobFacts, RowFacts DEF Stands, NewJob
  <2>8. Sure(s)'
    BY <2>6 DEF Sure
  <2> QED BY <2>7, <2>8
<1>2. ASSUME s \in Sweepers, BeginSweep(s)
      PROVE  Stands(s)' /\ Sure(s)'
  <2>1. s \notin Approvers /\ s \notin Admins
    BY <1>2, HubRoles
  <2>2. /\ pc'[s] = "ready" /\ job' = job
        /\ \A j \in Jobs : view'[s][j] \in {Unread, job[j]}
        /\ \A j \in Jobs : view'[s][j] # Unread => job[j].status = "queued"
        /\ \A u \in Txns : txWrite'[s][u] = "clean"
    BY <1>2 DEF BeginSweep, TypeOK, SessionShape, Shape, stored
  <2>3. Stands(s)'
    BY <1>2, <2>1, <2>2 DEF Stands
  <2>4. Sure(s)'
    BY <2>2 DEF Sure
  <2> QED BY <2>3, <2>4
<1>3. ASSUME s \in Admins, NEW j \in Jobs, NEW status \in {"failed", "awaiting_manual_action"},
             NEW at, at = (IF status = "failed" THEN "retrying" ELSE "confirming"),
             BeginAdmin(s, j, status, at)
      PROVE  Stands(s)' /\ Sure(s)'
  <2>1. s \notin Approvers /\ s \notin Sweepers
    BY <1>3, HubRoles
  <2>2. /\ pc'[s] = at /\ job' = job /\ job[j].status = status /\ outcome'[s] = "none"
        /\ \A k \in Jobs : view'[s][k] = IF k = j THEN job[j] ELSE Unread
        /\ \A u \in Txns : txWrite'[s][u] = "clean"
    BY <1>3 DEF BeginAdmin, TypeOK, SessionShape, Shape, stored
  <2>3. Stands(s)'
    BY <1>3, <2>1, <2>2 DEF Stands
  <2>4. Sure(s)'
    BY <1>3, <2>2 DEF Sure
  <2> QED BY <2>3, <2>4
<1> QED BY <1>0, <1>1, <1>2, <1>3 DEF Begin, BeginRetry, BeginConfirm

\* A session that settles a row, by the target's answer or by hand, goes on to
\* the trade only when every job of it is resolved.
LEMMA SettledStands ==
    ASSUME NEW s \in Sessions, Stands(s), Sure(s), UNCHANGED <<job, cur>>,
           cur[s] \in Jobs, txWrite'[s] = txWrite[s],
           \A j \in Jobs : j # cur[s] => view'[s][j] = view[s][j],
           view[s][cur[s]] # Unread, view'[s][cur[s]] # Unread, cur[s] \in wrote'[s], wrote[s] \subseteq wrote'[s],
           view'[s][cur[s]].status = "succeeded"
              \/ (view[s][cur[s]].status # "succeeded" /\ view'[s][cur[s]].status # "succeeded"),
           pc'[s] = IF AllResolved(s, TxnOf(cur[s]), view'[s]) /\ seen[s] # "committed"
                    THEN "committing" ELSE "ready",
           s \in Admins =>
              outcome'[s] = "confirmed" <=> (pc[s] = "confirming" \/ outcome[s] = "confirmed")
    PROVE  Stands(s)' /\ Sure(s)'
<1>1. TxnOf(cur[s]) \in Txns
  BY JobFacts
<1>2. pc'[s] = "committing" => Resolved(s, TxnOf(cur[s]))'
  BY <1>1, JobFacts DEF AllResolved, Resolved
<1>3. ASSUME NEW t \in Txns, txWrite'[s][t] = "committed" PROVE Resolved(s, t)'
  BY <1>3, JobFacts DEF Sure, Resolved
<1>4. pc'[s] \in {"ready", "committing"}
  OBVIOUS
<1>5. Sure(s)'
  BY <1>2, <1>3, <1>4 DEF Sure
<1>6. Stands(s)'
  BY <1>4, JobFacts DEF Stands
<1> QED BY <1>5, <1>6

LEMMA AloneProceeds ==
    ASSUME TypeOK, SessionShape, AloneInv, NEW s \in Sessions,
           Requeue(s) \/ TakeJob(s) \/ StartAttempt(s) \/ CallAdapter(s) \/ Settle(s)
              \/ ConfirmByHand(s) \/ WriteCommitted(s)
    PROVE  Stands(s)' /\ Sure(s)'
<1>0. Stands(s) /\ Sure(s)
  BY DEF AloneInv
<1> USE DEF stored
<1>1. CASE Requeue(s)
  <2> DEFINE row == [view[s][cur[s]] EXCEPT !.status = "queued", !.attempts = 0]
  <2>1. /\ cur[s] \in Jobs /\ view[s][cur[s]] \in JobRow /\ pc[s] = "retrying"
        /\ outcome[s] # "confirmed"
    BY <1>1 DEF Requeue, SessionShape, Shape
  <2>2. row.status = "queued" /\ view[s][cur[s]] # Unread
    BY <2>1, RowFacts DEF JobRow
  <2>3. /\ view' = [view EXCEPT ![s] = [view[s] EXCEPT ![cur[s]] = row]]
    BY <1>1, <2>1 DEF Requeue, TypeOK
  <2> HIDE DEF row
  <2>4. /\ \A j \in Jobs : j # cur[s] => view'[s][j] = view[s][j]
        /\ view'[s][cur[s]].status = "queued"
    BY <2>1, <2>2, <2>3 DEF TypeOK
  <2>5. /\ pc'[s] = "ready" /\ outcome'[s] = outcome[s] /\ txWrite'[s] = txWrite[s]
        /\ wrote'[s] = wrote[s] \cup {cur[s]} /\ job' = job
    BY <1>1 DEF Requeue, TypeOK
  <2>6. \A t \in Txns : txWrite'[s][t] = "clean"
    BY <1>0, <2>1, <2>5 DEF Sure
  <2>7. Sure(s)'
    BY <2>5, <2>6 DEF Sure
  <2>8. Stands(s)'
    BY <1>0, <2>1, <2>2, <2>4, <2>5 DEF Stands
  <2> QED BY <2>7, <2>8
<1>2. CASE TakeJob(s)
  <2>1. /\ pc[s] = "ready" /\ pc'[s] = "loaded" /\ view'[s] = view[s] /\ wrote'[s] = wrote[s]
        /\ txWrite'[s] = txWrite[s] /\ outcome'[s] = outcome[s] /\ job' = job
    BY <1>2 DEF TakeJob, TypeOK
  <2>2. Stands(s)'
    BY <1>0, <2>1 DEF Stands
  <2>3. Sure(s)'
    BY <1>0, <2>1 DEF Sure, Resolved
  <2> QED BY <2>2, <2>3
<1>3. CASE StartAttempt(s)
  <2> DEFINE row == [view[s][cur[s]] EXCEPT
                      !.status = "processing", !.attempts = view[s][cur[s]].attempts + 1]
  <2>1. /\ cur[s] \in Jobs /\ view[s][cur[s]] \in JobRow /\ pc[s] = "loaded"
        /\ view[s][cur[s]].status = "queued"
    BY <1>3 DEF StartAttempt, SessionShape, Shape
  <2>2. row.status = "processing" /\ view[s][cur[s]] # Unread
    BY <2>1, RowFacts DEF JobRow
  <2>3. view' = [view EXCEPT ![s] = [view[s] EXCEPT ![cur[s]] = row]]
    BY <1>3, <2>1 DEF StartAttempt, TypeOK
  <2> HIDE DEF row
  <2>4. /\ \A j \in Jobs : j # cur[s] => view'[s][j] = view[s][j]
        /\ view'[s][cur[s]].status = "processing"
    BY <2>1, <2>2, <2>3 DEF TypeOK
  <2>5. /\ pc'[s] = "calling" /\ cur'[s] = cur[s] /\ outcome'[s] = outcome[s]
        /\ txWrite'[s] = txWrite[s] /\ wrote'[s] = wrote[s] \cup {cur[s]} /\ job' = job
    BY <1>3 DEF StartAttempt, TypeOK
  <2> QED BY <1>0, <2>1, <2>2, <2>4, <2>5, WorkStands
<1>4. CASE CallAdapter(s)
  <2>1. /\ cur[s] \in Jobs /\ view[s][cur[s]] \in JobRow /\ pc[s] = "calling"
        /\ outcome[s] # "confirmed"
    BY <1>4 DEF CallAdapter, SessionShape, Shape
  <2>2. PICK answer \in Answers(cur[s]) : outcome' = [outcome EXCEPT ![s] = answer.outcome]
    BY <1>4 DEF CallAdapter
  <2>3. outcome'[s] # "confirmed"
    BY <2>1, <2>2, AnswerFacts DEF TypeOK
  <2>4. /\ pc'[s] = "answered" /\ cur'[s] = cur[s] /\ view'[s] = view[s]
        /\ txWrite'[s] = txWrite[s] /\ wrote'[s] = wrote[s] /\ job' = job
    BY <1>4 DEF CallAdapter, TypeOK
  <2>5. cur[s] \in wrote[s] /\ view[s][cur[s]].status = "processing" /\ view[s][cur[s]] # Unread
    BY <1>0, <2>1, RowFacts DEF Stands
  <2> QED BY <1>0, <2>1, <2>3, <2>4, <2>5, WorkStands
<1>5. CASE Settle(s)
  <2> DEFINE status == StatusAfter(outcome[s], view[s][cur[s]].attempts)
             row == [view[s][cur[s]] EXCEPT !.status = status]
  <2>1. /\ cur[s] \in Jobs /\ view[s][cur[s]] \in JobRow /\ pc[s] = "answered"
        /\ outcome[s] # "confirmed"
    BY <1>5 DEF Settle, SessionShape, Shape
  <2>2. row \in JobRow
    <3>1. outcome[s] \in Outcomes /\ view[s][cur[s]].attempts \in 0..MaxAttempts
      BY <2>1 DEF TypeOK, JobRow
    <3>2. status \in JobStatus
      BY <3>1, AnswerFacts
    <3> HIDE DEF status
    <3> QED BY <2>1, <3>1, <3>2, RowUpdate
  <2>3. /\ view' = [view EXCEPT ![s] = [view[s] EXCEPT ![cur[s]] = row]]
        /\ pc' = [pc EXCEPT ![s] =
                      IF AllResolved(s, TxnOf(cur[s]), [view[s] EXCEPT ![cur[s]] = row])
                            /\ seen[s] # "committed"
                      THEN "committing" ELSE "ready"]
        /\ UNCHANGED <<job, cur, wrote, txWrite, outcome>>
    BY <1>5 DEF Settle
  <2> HIDE DEF row, status
  <2>4. /\ \A j \in Jobs : j # cur[s] => view'[s][j] = view[s][j]
        /\ view'[s][cur[s]] = row
        /\ view'[s] = [view[s] EXCEPT ![cur[s]] = row]
    BY <2>1, <2>3 DEF TypeOK
  <2>5. pc'[s] = IF AllResolved(s, TxnOf(cur[s]), view'[s]) /\ seen[s] # "committed"
                 THEN "committing" ELSE "ready"
    BY <2>3, <2>4 DEF TypeOK
  <2>6. cur[s] \in wrote[s] /\ view[s][cur[s]].status = "processing"
    BY <1>0, <2>1 DEF Stands
  <2>7. view[s][cur[s]] # Unread /\ view'[s][cur[s]] # Unread
    BY <2>1, <2>2, <2>4, RowFacts
  <2>8. cur'[s] = cur[s] /\ wrote'[s] = wrote[s] /\ txWrite'[s] = txWrite[s]
        /\ outcome'[s] = outcome[s] /\ UNCHANGED <<job, cur>>
    BY <2>3
  <2> QED BY <1>0, <2>1, <2>4, <2>5, <2>6, <2>7, <2>8, SettledStands
<1>6. CASE ConfirmByHand(s)
  <2> DEFINE row == [view[s][cur[s]] EXCEPT !.status = "succeeded", !.byHand = TRUE]
  <2>1. /\ cur[s] \in Jobs /\ view[s][cur[s]] \in JobRow /\ pc[s] = "confirming"
    BY <1>6 DEF ConfirmByHand, SessionShape, Shape
  <2>2. row \in JobRow /\ row.status = "succeeded"
    <3>1. "succeeded" \in JobStatus /\ 0 \in 0..MaxAttempts
      BY HubConstants DEF JobStatus
    <3>2. row \in JobRow
      BY <2>1, <3>1, RowUpdate
    <3> QED BY <2>1, <3>2 DEF JobRow
  <2>3. /\ view' = [view EXCEPT ![s] = [view[s] EXCEPT ![cur[s]] = row]]
        /\ wrote' = [wrote EXCEPT ![s] = wrote[s] \cup {cur[s]}]
        /\ pc' = [pc EXCEPT ![s] =
                      IF AllResolved(s, TxnOf(cur[s]), [view[s] EXCEPT ![cur[s]] = row])
                            /\ seen[s] # "committed"
                      THEN "committing" ELSE "ready"]
        /\ outcome' = [outcome EXCEPT ![s] = "confirmed"]
        /\ UNCHANGED <<job, cur, txWrite>>
    BY <1>6 DEF ConfirmByHand
  <2> HIDE DEF row
  <2>4. /\ \A j \in Jobs : j # cur[s] => view'[s][j] = view[s][j]
        /\ view'[s][cur[s]] = row
        /\ view'[s] = [view[s] EXCEPT ![cur[s]] = row]
    BY <2>1, <2>3 DEF TypeOK
  <2>5. pc'[s] = IF AllResolved(s, TxnOf(cur[s]), view'[s]) /\ seen[s] # "committed"
                 THEN "committing" ELSE "ready"
    BY <2>3, <2>4 DEF TypeOK
  <2>7. view[s][cur[s]] # Unread /\ view'[s][cur[s]] # Unread
        /\ view'[s][cur[s]].status = "succeeded"
    BY <2>1, <2>2, <2>4, RowFacts
  <2>8. /\ wrote'[s] = wrote[s] \cup {cur[s]} /\ txWrite'[s] = txWrite[s]
        /\ outcome'[s] = "confirmed" /\ UNCHANGED <<job, cur>>
    BY <2>3 DEF TypeOK
  <2> QED BY <1>0, <2>1, <2>4, <2>5, <2>7, <2>8, SettledStands
<1>7. CASE WriteCommitted(s)
  <2>1. /\ pc[s] = "committing" /\ cur[s] \in Jobs /\ TxnOf(cur[s]) \in Txns
    BY <1>7, JobFacts DEF WriteCommitted, SessionShape, Shape
  <2>2. /\ pc'[s] = "ready" /\ view'[s] = view[s] /\ wrote'[s] = wrote[s]
        /\ txWrite'[s] = [txWrite[s] EXCEPT ![TxnOf(cur[s])] = "committed"]
        /\ outcome'[s] = outcome[s] /\ job' = job
    BY <1>7 DEF WriteCommitted, TypeOK
  <2>3. /\ \A t \in Txns : txWrite[s][t] # "clean" => txWrite'[s][t] # "clean"
        /\ \A t \in Txns : txWrite'[s][t] = "committed" => txWrite[s][t] = "committed" \/ t = TxnOf(cur[s])
    BY <2>1, <2>2 DEF TypeOK
  <2>4. Stands(s)'
    BY <1>0, <2>1, <2>2, <2>3, JobFacts DEF Stands
  <2>5. Sure(s)'
    BY <1>0, <2>1, <2>2, <2>3 DEF Sure, Resolved
  <2> QED BY <2>4, <2>5
<1> QED BY <1>1, <1>2, <1>3, <1>4, <1>5, <1>6, <1>7

\* A commit changes the rows that are in its own hands only.
LEMMA AloneCommits ==
    ASSUME TypeOK, SessionShape, JobsComeTogether, AloneInv, NoRivals,
           NEW s \in Sessions, Commit(s)
    PROVE  AloneInv'
<1>1. /\ pc[s] = "ready" /\ CloseSession(s)
      /\ \A j \in Jobs : job'[j] = IF j \in wrote[s] THEN Merged(s, j) ELSE job[j]
      /\ \A t \in Txns : txn'[t] = IF txWrite[s][t] = "clean" THEN txn[t] ELSE txWrite[s][t]
  BY DEF Commit, SeesTxn
<1>2. \A j \in Jobs : Merged(s, j).status = view[s][j].status
  BY DEF Merged
<1>3. Stands(s) /\ Sure(s) /\ KeepsToItsPart(s)
  BY DEF AloneInv, JobsComeTogether
<1>4. \A j \in wrote[s] : j \in Jobs /\ view[s][j] # Unread
  BY WrittenIsLoaded
<1>5. \A j \in Jobs : job[j].status = "succeeded" => job'[j] = job[j]
  BY <1>1, <1>4, WrittenIsLoaded
<1>6. ASSUME NEW r \in Sessions, r # s
      PROVE  Stands(r)' /\ Sure(r)'
  <2>1. /\ pc'[r] = pc[r] /\ cur'[r] = cur[r] /\ view'[r] = view[r] /\ wrote'[r] = wrote[r]
        /\ txWrite'[r] = txWrite[r] /\ outcome'[r] = outcome[r]
    BY <1>1, <1>6, ClosedSession
  <2>2. \A j \in Jobs : view[r][j] # Unread => job'[j] = job[j]
    BY <1>1, <1>4, <1>6, LoadedOnce
  <2>3. Stands(r) /\ Sure(r)
    BY DEF AloneInv
  <2>4. Stands(r)'
    BY <2>1, <2>2, <2>3 DEF Stands
  <2>5. ASSUME NEW t \in Txns, Resolved(r, t) PROVE Resolved(r, t)'
    BY <1>5, <2>1, <2>5, JobFacts DEF Resolved
  <2>6. pc[r] = "committing" => TxnOf(cur[r]) \in Txns
    BY JobFacts DEF SessionShape, Shape
  <2>7. Sure(r)'
    BY <2>1, <2>3, <2>5, <2>6 DEF Sure
  <2> QED BY <2>4, <2>7
<1>7. \A t \in Txns : txWrite[s][t] \in {"clean", "integration_pending", "committed"}
  <2>1. CASE s \in Approvers
    <3>1. PICK t \in Txns : Decides(s, t)
      BY <1>1, <1>3, <2>1 DEF KeepsToItsPart
    <3> QED BY <3>1 DEF Decides
  <2>2. CASE s \notin Approvers
    BY <1>3, <2>2 DEF KeepsToItsPart, WorksOnStored
  <2> QED BY <2>1, <2>2
<1>8. DecidedOnce'
  <2>1. \A t \in Txns : txn'[t] # "validation_pending"
    BY <1>1, <1>7 DEF AloneInv, DecidedOnce
  <2>2. ASSUME NEW t \in Txns, txn'[t] = "approval_pending", NEW j \in JobsOf(t)
        PROVE  job'[j].status = "absent"
    <3>1. txn[t] = "approval_pending" /\ txWrite[s][t] = "clean"
      BY <1>1, <1>7, <2>2
    <3>2. job[j].status = "absent" /\ j \in Jobs /\ TxnOf(j) = t
      BY <3>1, <2>2, JobFacts DEF AloneInv, DecidedOnce
    <3>3. j \notin wrote[s]
      BY <1>3, <1>4, <3>1, <3>2 DEF Stands, Sessions
    <3> QED BY <1>1, <3>2, <3>3
  <2> QED BY <2>1, <2>2 DEF DecidedOnce
<1>9. CommittedMeansResolved'
  <2> SUFFICES ASSUME NEW t \in Txns, txn'[t] = "committed", NEW j \in JobsOf(t)
               PROVE  job'[j].status = "succeeded"
    BY DEF CommittedMeansResolved
  <2>0. j \in Jobs
    BY JobFacts
  <2>1. CASE txWrite[s][t] = "clean"
    <3>1. txn[t] = "committed"
      BY <1>1, <2>1
    <3>2. job[j].status = "succeeded"
      BY <3>1 DEF AloneInv, CommittedMeansResolved
    <3> QED BY <1>5, <2>0, <3>2
  <2>2. CASE txWrite[s][t] # "clean"
    <3>1. Resolved(s, t)
      BY <1>1, <1>3, <2>2 DEF Sure
    <3>2. CASE view[s][j].status = "succeeded"
      <4>1. view[s][j] # Unread
        BY <3>2, RowFacts
      <4>2. j \in wrote[s]
        BY <1>3, <2>0, <3>2, <4>1 DEF Stands
      <4> QED BY <1>1, <1>2, <2>0, <3>2, <4>2
    <3>3. CASE job[j].status = "succeeded"
      BY <1>5, <2>0, <3>3
    <3> QED BY <3>1, <3>2, <3>3 DEF Resolved
  <2> QED BY <2>1, <2>2
<1>10. Stands(s)' /\ Sure(s)'
  BY <1>1, ClosedStands
<1> QED BY <1>6, <1>8, <1>9, <1>10 DEF AloneInv

\* Without rivals the reasons for the rules survive every step.
LEMMA AloneStep ==
    HubInv /\ AloneInv /\ NoRivals /\ [Next]_vars => AloneInv'
<1> SUFFICES ASSUME HubInv, AloneInv, NoRivals, [Next]_vars PROVE AloneInv'
  OBVIOUS
<1>0. TypeOK /\ SessionShape /\ JobsComeTogether
  BY DEF HubInv
<1>1. ASSUME NEW s \in Sessions,
             Begin(s) \/ Requeue(s) \/ TakeJob(s) \/ StartAttempt(s) \/ CallAdapter(s)
                \/ Settle(s) \/ ConfirmByHand(s) \/ WriteCommitted(s)
                \/ DeadlockVictim(s) \/ Rollback(s)
      PROVE  AloneInv'
  <2>1. UNCHANGED <<txn, job>>
    BY <1>1, RowsStayStill DEF RowsStay
  <2>2. Stands(s)' /\ Sure(s)'
    BY <1>0, <1>1, AloneBegins, AloneProceeds, ClosedStands DEF DeadlockVictim, Rollback
  <2>3. \A r \in Sessions : r # s =>
                 /\ pc'[r] = pc[r] /\ todo'[r] = todo[r] /\ cur'[r] = cur[r]
                 /\ view'[r] = view[r] /\ wrote'[r] = wrote[r]
                 /\ txWrite'[r] = txWrite[r] /\ outcome'[r] = outcome[r]
    <3>1. CASE Begin(s)
      <4>1. ASSUME NEW t \in Txns, DecideAndCreateJobs(s, t)
            PROVE  \A r \in Sessions : r # s =>
                     /\ pc'[r] = pc[r] /\ todo'[r] = todo[r] /\ cur'[r] = cur[r]
                     /\ view'[r] = view[r] /\ wrote'[r] = wrote[r]
                     /\ txWrite'[r] = txWrite[r] /\ outcome'[r] = outcome[r]
        BY <1>0, <4>1 DEF DecideAndCreateJobs, TypeOK
      <4>2. ASSUME BeginSweep(s)
            PROVE  \A r \in Sessions : r # s =>
                     /\ pc'[r] = pc[r] /\ todo'[r] = todo[r] /\ cur'[r] = cur[r]
                     /\ view'[r] = view[r] /\ wrote'[r] = wrote[r]
                     /\ txWrite'[r] = txWrite[r] /\ outcome'[r] = outcome[r]
        BY <1>0, <4>2 DEF BeginSweep, TypeOK
      <4>3. ASSUME NEW j \in Jobs, NEW status, NEW at, BeginAdmin(s, j, status, at)
            PROVE  \A r \in Sessions : r # s =>
                     /\ pc'[r] = pc[r] /\ todo'[r] = todo[r] /\ cur'[r] = cur[r]
                     /\ view'[r] = view[r] /\ wrote'[r] = wrote[r]
                     /\ txWrite'[r] = txWrite[r] /\ outcome'[r] = outcome[r]
        BY <1>0, <4>3 DEF BeginAdmin, TypeOK
      <4> QED BY <3>1, <4>1, <4>2, <4>3 DEF Begin, BeginRetry, BeginConfirm
    <3>2. CASE Requeue(s) \/ TakeJob(s) \/ StartAttempt(s)
      BY <1>0, <3>2 DEF Requeue, TakeJob, StartAttempt, TypeOK
    <3>3. CASE CallAdapter(s) \/ Settle(s)
      BY <1>0, <3>3 DEF CallAdapter, Settle, TypeOK
    <3>4. CASE ConfirmByHand(s) \/ WriteCommitted(s)
      BY <1>0, <3>4 DEF ConfirmByHand, WriteCommitted, TypeOK
    <3>5. CASE DeadlockVictim(s) \/ Rollback(s)
      BY <1>0, <3>5, ClosedSession DEF DeadlockVictim, Rollback
    <3> QED BY <1>1, <3>1, <3>2, <3>3, <3>4, <3>5
  <2> QED BY <2>1, <2>2, <2>3, OnlyOneMoves
<1>2. ASSUME NEW s \in Sessions, Commit(s) PROVE AloneInv'
  BY <1>0, <1>2, AloneCommits
<1>3. ASSUME NEW t \in Txns, RevalidateDecided(t) \/ Resubmit(t) PROVE AloneInv'
  <2>1. reopens = 0 /\ MaxReopens = 0
    BY <1>0 DEF TypeOK, NoRivals
  <2> QED BY <1>3, <2>1 DEF RevalidateDecided, Resubmit, AloneInv, DecidedOnce
<1>4. ASSUME UNCHANGED <<txn, job, session>> PROVE AloneInv'
  BY <1>4 DEF AloneInv, Stands, Sure, Resolved, DecidedOnce, CommittedMeansResolved, session
<1>5. CASE \E j \in Jobs : BackoffElapses(j)
  BY <1>4, <1>5 DEF BackoffElapses
<1>6. CASE UNCHANGED vars
  BY <1>4, <1>6 DEF vars, stored
<1> QED BY <1>1, <1>2, <1>3, <1>5, <1>6, StepKinds DEF RowsStay

\* With one replica, one administrator and no trade sent round again, however
\* many approve: a committed trade is resolved, a job that waits on a person
\* leaves only by their confirmation, and a resolved one is never touched
\* again.  HubStaleSweep shows the first broken by a second replica.
THEOREM RulesHoldAlone ==
    ASSUME NoRivals PROVE Spec => HubRulesHold
<1>1. Init => AloneInv
  <2> SUFFICES ASSUME Init PROVE AloneInv
    OBVIOUS
  <2>1. /\ \A s \in Sessions : pc[s] = "idle" /\ \A j \in Jobs : view[s][j] = Unread
        /\ \A s \in Sessions, t \in Txns : txWrite[s][t] = "clean"
        /\ \A t \in Txns : txn[t] = "approval_pending"
        /\ \A j \in Jobs : job[j].status = "absent"
    BY DEF Init, AbsentJob
  <2>2. \A s \in Sessions : Stands(s) /\ Sure(s)
    BY <2>1 DEF Stands, Sure
  <2>3. DecidedOnce /\ CommittedMeansResolved
    BY <2>1, JobFacts DEF DecidedOnce, CommittedMeansResolved
  <2> QED BY <2>2, <2>3 DEF AloneInv
<1>2. HubInv /\ AloneInv /\ [Next]_vars => AloneInv'
  BY AloneStep
<1>3. HubInv /\ AloneInv /\ [Next]_vars
        => [\A j \in Jobs : job[j].status = "awaiting_manual_action"
                => \/ job'[j].status = "awaiting_manual_action"
                   \/ job'[j].byHand /\ job'[j].status = "succeeded"]_vars
           /\ [\A j \in Jobs : job[j].status = "succeeded" => job'[j] = job[j]]_vars
  <2> SUFFICES ASSUME HubInv, AloneInv, [Next]_vars, NEW j \in Jobs
               PROVE  /\ job[j].status = "awaiting_manual_action"
                            => \/ job'[j].status = "awaiting_manual_action"
                               \/ job'[j].byHand /\ job'[j].status = "succeeded"
                      /\ job[j].status = "succeeded" => job'[j] = job[j]
    OBVIOUS
  <2>0. TypeOK /\ SessionShape
    BY DEF HubInv
  <2>1. CASE job'[j] = job[j]
    BY <2>1
  <2>2. ASSUME NEW s \in Sessions, Commit(s), job'[j] # job[j]
        PROVE  /\ job[j].status = "awaiting_manual_action"
                     => job'[j].byHand /\ job'[j].status = "succeeded"
               /\ job[j].status # "succeeded"
    <3>1. /\ pc[s] = "ready" /\ j \in wrote[s] /\ job'[j] = Merged(s, j)
      BY <2>2 DEF Commit
    <3>2. view[s][j] # Unread /\ job[j].status # "succeeded"
      BY <2>0, <3>1, WrittenIsLoaded
    <3>3. Stands(s)
      BY DEF AloneInv
    <3>4. job[j].status = "awaiting_manual_action" => outcome[s] = "confirmed"
      BY <3>1, <3>2, <3>3 DEF Stands, Sessions
    <3>5. outcome[s] = "confirmed" => view[s][j].status = "succeeded"
      BY <2>0, <3>1 DEF SessionShape, Shape
    <3>6. /\ job'[j].status = view[s][j].status
          /\ job'[j].byHand = (job[j].byHand \/ outcome[s] = "confirmed")
      BY <3>1 DEF Merged
    <3>7. outcome[s] = "confirmed" => job'[j].byHand
      BY ONLY <3>6
    <3> QED BY <3>2, <3>4, <3>5, <3>6, <3>7
  <2>3. CASE UNCHANGED job
    BY <2>3
  <2>4. RowsStay \/ (\E t \in Txns : RevalidateDecided(t) \/ Resubmit(t)) => UNCHANGED job
    BY RowsStayStill DEF RevalidateDecided, Resubmit
  <2> QED BY <2>1, <2>2, <2>3, <2>4, StepKinds
<1>4. AloneInv => CommittedMeansResolved
  BY DEF AloneInv
<1> QED BY <1>1, <1>2, <1>3, <1>4, FullInvariant, PTL
        DEF Spec, HubRulesHold, WaitingLeavesOnlyByHand, SucceededIsFinal
=============================================================================
