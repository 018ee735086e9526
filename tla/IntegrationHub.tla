--------------------------- MODULE IntegrationHub ---------------------------
(***************************************************************************)
(* The three postings an approved trade owes the outside world, one job    *)
(* per target system, and everyone who works on them: the approval that    *)
(* raises the jobs and dispatches them, the periodic sweep of every backend*)
(* replica, and the administrators who retry a failed job or confirm that  *)
(* they finished one by hand                                               *)
(* (backend/app/services/integration/integration_service.py).              *)
(*                                                                         *)
(* Every worker is one database session: PostgreSQL under READ COMMITTED   *)
(* behind SQLAlchemy's identity map.  A session keeps its own copy of each *)
(* job row it has loaded and never refreshes it, a flushed row is locked   *)
(* until the session ends, the columns it wrote replace the stored ones    *)
(* when it commits, and a rollback forgets them.  What an external system  *)
(* accepted is outside the database and is not rolled back.                *)
(***************************************************************************)
EXTENDS Integers, FiniteSets

CONSTANTS
    Txns,          \* trade transactions
    Targets,       \* TARGET_SYSTEMS: tracker, sap, dms
    Configured,    \* targets this deployment can post to
    MayDefer,      \* configured targets that may still hand the job to a person:
                   \* the DMS with no pack to file, an incomplete tracker
    Sweepers,      \* backend replicas, each running the periodic sweep
    Approvers,     \* sessions deciding an approval
    Admins,        \* sessions of administrators on the integration monitor
    MaxAttempts,   \* INTEGRATION_MAX_ATTEMPTS
    BatchSize,     \* INTEGRATION_SWEEP_BATCH_SIZE
    MaxRollbacks,  \* bound on crashes and rolled-back sessions
    MaxReopens     \* bound on decided trades sent round the approval again

ASSUME HubConstants ==
    /\ IsFiniteSet(Txns)
    /\ IsFiniteSet(Targets) /\ Targets # {}
    /\ Configured \subseteq Targets
    /\ MayDefer \subseteq Targets
    /\ MaxAttempts \in Nat \ {0}
    /\ BatchSize \in Nat \ {0}
    /\ MaxRollbacks \in Nat
    /\ MaxReopens \in Nat

ASSUME HubRoles ==
    /\ Sweepers \cap Approvers = {}
    /\ Sweepers \cap Admins = {}
    /\ Approvers \cap Admins = {}

Sessions == Sweepers \cup Approvers \cup Admins

Jobs == Txns \X Targets
JobsOf(t) == {t} \X Targets
TxnOf(j) == j[1]
TargetOf(j) == j[2]

\* IntegrationJobStatus, "absent" while the row does not exist.
JobStatus == {"absent", "queued", "processing", "succeeded", "failed",
              "awaiting_manual_action"}
Retryable == {"queued", "processing"}

\* The part of TransactionStatus this module tells apart.
TxnStatus == {"approval_pending", "integration_pending", "committed",
              "validation_pending"}

JobRow == [status : JobStatus, attempts : 0..MaxAttempts, byHand : BOOLEAN]
AbsentJob == [status |-> "absent", attempts |-> 0, byHand |-> FALSE]
NewJob == [status |-> "queued", attempts |-> 0, byHand |-> FALSE]
\* A row the session has not loaded into its identity map.
Unread == [status |-> "unread", attempts |-> 0, byHand |-> FALSE]
NoJob == <<"none", "none">>

Outcomes == {"none", "succeeded", "retryable", "rejected",
             "awaiting_manual_action", "confirmed"}

VARIABLES
    \* committed rows
    txn,       \* trade_transactions.status
    job,       \* integration_jobs
    due,       \* the backoff of a queued job has elapsed
    \* the world outside the database
    posts,     \* postings each target accepted: 0, 1, or 2 for more than one
    \* each session
    pc, todo, cur, view, wrote, txWrite, seen, outcome,
    \* bounds
    rollbacks, reopens

stored == <<txn, job, due>>
session == <<pc, todo, cur, view, wrote, txWrite, seen, outcome>>
bounds == <<rollbacks, reopens>>
vars == <<stored, posts, session, bounds>>

-----------------------------------------------------------------------------
(* What a session can see, and the row locks.                              *)

\* A row already in the identity map keeps its loaded attributes.
Sees(s, j) == IF view[s][j] = Unread THEN job[j] ELSE view[s][j]
SeesTxn(s, t) == IF txWrite[s][t] = "clean" THEN txn[t] ELSE txWrite[s][t]

JobLockedByOther(s, j) == \E r \in Sessions \ {s} : j \in wrote[r]
TxnLockedByOther(s, t) == \E r \in Sessions \ {s} : txWrite[r][t] # "clean"

\* s cannot proceed before r ends.
WaitsFor(s, r) ==
    /\ r # s
    /\ \/ pc[s] \in {"loaded", "retrying", "confirming"} /\ cur[s] \in wrote[r]
       \/ pc[s] = "committing" /\ txWrite[r][TxnOf(cur[s])] # "clean"

\* s is in a set of sessions that all wait for one another.
Deadlocked(s) ==
    \E C \in SUBSET Sessions :
        s \in C /\ \A r \in C : \E q \in C : WaitsFor(r, q)

Init ==
    /\ txn = [t \in Txns |-> "approval_pending"]
    /\ job = [j \in Jobs |-> AbsentJob]
    /\ due = [j \in Jobs |-> FALSE]
    /\ posts = [j \in Jobs |-> 0]
    /\ pc = [s \in Sessions |-> "idle"]
    /\ todo = [s \in Sessions |-> {}]
    /\ cur = [s \in Sessions |-> NoJob]
    /\ view = [s \in Sessions |-> [j \in Jobs |-> Unread]]
    /\ wrote = [s \in Sessions |-> {}]
    /\ txWrite = [s \in Sessions |-> [t \in Txns |-> "clean"]]
    /\ seen = [s \in Sessions |-> "none"]
    /\ outcome = [s \in Sessions |-> "none"]
    /\ rollbacks = 0
    /\ reopens = 0

-----------------------------------------------------------------------------
(* Where a session starts.                                                 *)

\* decide + create_jobs + the head of dispatch: the approval task's row lock
\* admits one decider, the missing jobs are inserted, the trade moves to
\* integration_pending, and every queued job is taken up.  Nothing of it is
\* visible to anyone before the commit.
DecideAndCreateJobs(a, t) ==
    /\ pc[a] = "idle"
    /\ txn[t] = "approval_pending"
    /\ ~TxnLockedByOther(a, t)
    /\ LET made == {j \in JobsOf(t) : job[j].status = "absent"}
           rows == [j \in JobsOf(t) |-> IF j \in made THEN NewJob ELSE job[j]]
       IN /\ view' = [view EXCEPT ![a] =
                        [j \in Jobs |-> IF j \in JobsOf(t) THEN rows[j] ELSE Unread]]
          /\ wrote' = [wrote EXCEPT ![a] = made]
          /\ todo' = [todo EXCEPT ![a] =
                        {j \in JobsOf(t) : rows[j].status = "queued"}]
    /\ txWrite' = [txWrite EXCEPT ![a][t] = "integration_pending"]
    /\ pc' = [pc EXCEPT ![a] = "ready"]
    /\ UNCHANGED <<stored, posts, cur, seen, outcome, bounds>>

\* due_jobs: one page of queued rows, read without a lock, then cut down to
\* those whose backoff has elapsed.
BeginSweep(w) ==
    /\ pc[w] = "idle"
    /\ LET queued == {j \in Jobs : job[j].status = "queued"}
       IN \E page \in SUBSET queued :
            /\ Cardinality(page) = IF Cardinality(queued) < BatchSize
                                   THEN Cardinality(queued) ELSE BatchSize
            /\ LET taken == {j \in page : due[j]}
               IN /\ taken # {}
                  /\ view' = [view EXCEPT ![w] =
                        [j \in Jobs |-> IF j \in taken THEN job[j] ELSE Unread]]
                  /\ todo' = [todo EXCEPT ![w] = taken]
    /\ pc' = [pc EXCEPT ![w] = "ready"]
    /\ UNCHANGED <<stored, posts, cur, wrote, txWrite, seen, outcome, bounds>>

\* get_job for an administrator's request, and the guard each of the two
\* actions puts on the status it read.
BeginAdmin(a, j, status, at) ==
    /\ pc[a] = "idle"
    /\ job[j].status = status
    /\ view' = [view EXCEPT ![a] = [k \in Jobs |-> IF k = j THEN job[j] ELSE Unread]]
    /\ cur' = [cur EXCEPT ![a] = j]
    /\ seen' = [seen EXCEPT ![a] = txn[TxnOf(j)]]
    /\ pc' = [pc EXCEPT ![a] = at]
    /\ UNCHANGED <<stored, posts, todo, wrote, txWrite, outcome, bounds>>

\* Slip: retry without its guard on `failed`.
BeginRetryUnguarded(a, j) ==
    \E status \in JobStatus \ {"absent"} : BeginAdmin(a, j, status, "retrying")

BeginRetry(a, j) == BeginAdmin(a, j, "failed", "retrying")
BeginConfirm(a, j) == BeginAdmin(a, j, "awaiting_manual_action", "confirming")

\* retry: the counter starts again and the row is re-queued, then run_job.
Requeue(a) ==
    /\ pc[a] = "retrying"
    /\ ~JobLockedByOther(a, cur[a])
    /\ view' = [view EXCEPT ![a][cur[a]] =
                    [@ EXCEPT !.status = "queued", !.attempts = 0]]
    /\ wrote' = [wrote EXCEPT ![a] = @ \cup {cur[a]}]
    /\ todo' = [todo EXCEPT ![a] = {cur[a]}]
    /\ pc' = [pc EXCEPT ![a] = "ready"]
    /\ UNCHANGED <<stored, posts, cur, txWrite, seen, outcome, bounds>>

-----------------------------------------------------------------------------
(* run_job: one attempt at one posting.                                    *)

\* load_transaction, before anything is flushed.
TakeJob(s) ==
    /\ pc[s] = "ready"
    /\ \E j \in todo[s] :
        /\ cur' = [cur EXCEPT ![s] = j]
        /\ todo' = [todo EXCEPT ![s] = @ \ {j}]
        /\ seen' = [seen EXCEPT ![s] = SeesTxn(s, TxnOf(j))]
    /\ pc' = [pc EXCEPT ![s] = "loaded"]
    /\ UNCHANGED <<stored, posts, view, wrote, txWrite, outcome, bounds>>

\* The flush of `processing`: the row is locked from here on.
StartAttempt(s) ==
    /\ pc[s] = "loaded"
    /\ view[s][cur[s]].status \in Retryable
    /\ ~JobLockedByOther(s, cur[s])
    /\ LET row == view[s][cur[s]]
       IN view' = [view EXCEPT ![s][cur[s]] =
                     [row EXCEPT !.status = "processing", !.attempts = row.attempts + 1]]
    /\ wrote' = [wrote EXCEPT ![s] = @ \cup {cur[s]}]
    /\ pc' = [pc EXCEPT ![s] = "calling"]
    /\ UNCHANGED <<stored, posts, todo, cur, txWrite, seen, outcome, bounds>>

\* An adapter may hand the posting to a person instead of making it.
HandedOver(j) == TargetOf(j) \notin Configured \/ TargetOf(j) \in MayDefer

\* The adapter's answer, and whether the target accepted the posting.  An
\* unconfigured target is never called, though its adapter may raise; a lost
\* or unreadable answer may hide a posting that was accepted.
Answers(j) ==
    {answer \in [outcome : {"awaiting_manual_action", "succeeded",
                            "retryable", "rejected"},
                 accepted : BOOLEAN] :
        /\ answer.outcome = "awaiting_manual_action" =>
              ~answer.accepted /\ HandedOver(j)
        /\ answer.outcome \in {"succeeded", "rejected"} \/ answer.accepted =>
              TargetOf(j) \in Configured
        /\ answer.outcome = "succeeded" => answer.accepted}

CallAdapter(s) ==
    /\ pc[s] = "calling"
    /\ \E answer \in Answers(cur[s]) :
        /\ outcome' = [outcome EXCEPT ![s] = answer.outcome]
        /\ posts' = IF answer.accepted /\ posts[cur[s]] < 2
                    THEN [posts EXCEPT ![cur[s]] = @ + 1] ELSE posts
    /\ pc' = [pc EXCEPT ![s] = "answered"]
    /\ UNCHANGED <<stored, todo, cur, view, wrote, txWrite, seen, bounds>>

\* Slip: the ceiling compared with `>` instead of `>=`.
StatusAfterOneMore(answer, attempts) ==
    CASE answer = "succeeded" -> "succeeded"
      [] answer = "awaiting_manual_action" -> "awaiting_manual_action"
      [] answer = "retryable" /\ attempts <= MaxAttempts -> "queued"
      [] OTHER -> "failed"

\* Slip: a 2xx answer without a document number taken for a posting.
StatusAfterAnyAnswer(answer, attempts) ==
    CASE answer \in {"succeeded", "rejected"} -> "succeeded"
      [] answer = "awaiting_manual_action" -> "awaiting_manual_action"
      [] answer = "retryable" /\ attempts < MaxAttempts -> "queued"
      [] OTHER -> "failed"

\* _apply_success, _apply_awaiting_manual and _apply_failure.
StatusAfter(answer, attempts) ==
    CASE answer = "succeeded" -> "succeeded"
      [] answer = "awaiting_manual_action" -> "awaiting_manual_action"
      [] answer = "retryable" /\ attempts < MaxAttempts -> "queued"
      [] OTHER -> "failed"

\* Slip: a job waiting on a person counted as resolved.
AllHandedOver(s, t, rows) ==
    \A j \in JobsOf(t) :
        (IF rows[j] = Unread THEN job[j] ELSE rows[j]).status
            \in {"succeeded", "awaiting_manual_action"}

\* Slip: the stored rows read before the session's own write is flushed.
AllResolvedBefore(s, t, rows) == \A j \in JobsOf(t) : job[j].status = "succeeded"

\* maybe_commit's decision: every job of the trade reads as succeeded and the
\* trade did not already read as committed.
AllResolved(s, t, rows) ==
    \A j \in JobsOf(t) :
        (IF rows[j] = Unread THEN job[j] ELSE rows[j]).status = "succeeded"

Settle(s) ==
    /\ pc[s] = "answered"
    /\ LET j == cur[s]
           status == StatusAfter(outcome[s], view[s][j].attempts)
           rows == [view[s] EXCEPT ![j] = [@ EXCEPT !.status = status]]
       IN /\ view' = [view EXCEPT ![s] = rows]
          /\ pc' = [pc EXCEPT ![s] =
                      IF AllResolved(s, TxnOf(j), rows) /\ seen[s] # "committed"
                      THEN "committing" ELSE "ready"]
    /\ UNCHANGED <<stored, posts, todo, cur, wrote, txWrite, seen, outcome, bounds>>

\* complete_manually, then the same maybe_commit.
ConfirmByHand(a) ==
    /\ pc[a] = "confirming"
    /\ ~JobLockedByOther(a, cur[a])
    /\ LET j == cur[a]
           rows == [view[a] EXCEPT ![j] =
                      [@ EXCEPT !.status = "succeeded", !.byHand = TRUE]]
       IN /\ view' = [view EXCEPT ![a] = rows]
          /\ wrote' = [wrote EXCEPT ![a] = @ \cup {j}]
          /\ pc' = [pc EXCEPT ![a] =
                      IF AllResolved(a, TxnOf(j), rows) /\ seen[a] # "committed"
                      THEN "committing" ELSE "ready"]
    /\ outcome' = [outcome EXCEPT ![a] = "confirmed"]
    /\ UNCHANGED <<stored, posts, todo, cur, txWrite, seen, bounds>>

\* The flush of `committed`, which needs the trade's row lock.
WriteCommitted(s) ==
    /\ pc[s] = "committing"
    /\ ~TxnLockedByOther(s, TxnOf(cur[s]))
    /\ txWrite' = [txWrite EXCEPT ![s][TxnOf(cur[s])] = "committed"]
    /\ pc' = [pc EXCEPT ![s] = "ready"]
    /\ UNCHANGED <<stored, posts, todo, cur, view, wrote, seen, outcome, bounds>>

-----------------------------------------------------------------------------
(* How a session ends.                                                     *)

CloseSession(s) ==
    /\ pc' = [pc EXCEPT ![s] = "idle"]
    /\ todo' = [todo EXCEPT ![s] = {}]
    /\ cur' = [cur EXCEPT ![s] = NoJob]
    /\ view' = [view EXCEPT ![s] = [j \in Jobs |-> Unread]]
    /\ wrote' = [wrote EXCEPT ![s] = {}]
    /\ txWrite' = [txWrite EXCEPT ![s] = [t \in Txns |-> "clean"]]
    /\ seen' = [seen EXCEPT ![s] = "none"]
    /\ outcome' = [outcome EXCEPT ![s] = "none"]

\* Slip: the whole loaded row written back instead of the changed columns.
WholeRow(s, j) == view[s][j]

\* The columns of j that s wrote, over the stored row: an attempt writes the
\* status and the counter, a confirmation the status and completed_manually.
Merged(s, j) ==
    [status   |-> view[s][j].status,
     attempts |-> IF outcome[s] = "confirmed" THEN job[j].attempts
                  ELSE view[s][j].attempts,
     byHand   |-> job[j].byHand \/ outcome[s] = "confirmed"]

\* Slip: the status of the trade written back as it was read.
CommitWholeTrade(s) ==
    /\ pc[s] = "ready" /\ todo[s] = {}
    /\ job' = [j \in Jobs |-> IF j \in wrote[s] THEN Merged(s, j) ELSE job[j]]
    /\ due' = [j \in Jobs |-> due[j] /\ j \notin wrote[s]]
    /\ txn' = [t \in Txns |-> IF txWrite[s][t] = "clean" /\ cur[s] # NoJob
                                  /\ TxnOf(cur[s]) = t
                               THEN seen[s] ELSE SeesTxn(s, t)]
    /\ CloseSession(s)
    /\ UNCHANGED <<posts, bounds>>

\* session.commit(): a job that is queued again starts its backoff.
Commit(s) ==
    /\ pc[s] = "ready" /\ todo[s] = {}
    /\ job' = [j \in Jobs |-> IF j \in wrote[s] THEN Merged(s, j) ELSE job[j]]
    /\ due' = [j \in Jobs |-> due[j] /\ j \notin wrote[s]]
    /\ txn' = [t \in Txns |-> SeesTxn(s, t)]
    /\ CloseSession(s)
    /\ UNCHANGED <<posts, bounds>>

\* The replica dies, the request is cancelled or a statement fails: the
\* whole session is undone, what was posted stays posted.
Rollback(s) ==
    /\ pc[s] # "idle"
    /\ rollbacks < MaxRollbacks
    /\ rollbacks' = rollbacks + 1
    /\ CloseSession(s)
    /\ UNCHANGED <<stored, posts, reopens>>

\* PostgreSQL aborts one session of a lock cycle.
DeadlockVictim(s) ==
    /\ Deadlocked(s)
    /\ CloseSession(s)
    /\ UNCHANGED <<stored, posts, bounds>>

-----------------------------------------------------------------------------
(* What happens around the jobs.                                           *)

\* is_due: the wait after the last attempt is over.
BackoffElapses(j) ==
    /\ job[j].status = "queued" /\ ~due[j]
    /\ due' = [due EXCEPT ![j] = TRUE]
    /\ UNCHANGED <<txn, job, posts, session, bounds>>

\* run_validation on a trade that is already decided (the engine's
\* TERMINAL_STATUSES do not name integration_pending or committed).
RevalidateDecided(t) ==
    /\ reopens < MaxReopens
    /\ txn[t] \in {"integration_pending", "committed"}
    /\ \A s \in Sessions : txWrite[s][t] = "clean"
    /\ txn' = [txn EXCEPT ![t] = "validation_pending"]
    /\ reopens' = reopens + 1
    /\ UNCHANGED <<job, due, posts, session, rollbacks>>

\* submit_transaction on the trade that went back to the desk.
Resubmit(t) ==
    /\ txn[t] = "validation_pending"
    /\ \A s \in Sessions : txWrite[s][t] = "clean"
    /\ txn' = [txn EXCEPT ![t] = "approval_pending"]
    /\ UNCHANGED <<job, due, posts, session, bounds>>

Begin(s) ==
    \/ s \in Approvers /\ \E t \in Txns : DecideAndCreateJobs(s, t)
    \/ s \in Sweepers /\ BeginSweep(s)
    \/ s \in Admins /\ \E j \in Jobs : BeginRetry(s, j) \/ BeginConfirm(s, j)

\* A session that has started runs to its commit.
Proceed(s) ==
    \/ Requeue(s) \/ TakeJob(s) \/ StartAttempt(s) \/ CallAdapter(s)
    \/ Settle(s) \/ ConfirmByHand(s) \/ WriteCommitted(s) \/ Commit(s)
    \/ DeadlockVictim(s)

Next ==
    \/ \E s \in Sessions : Begin(s) \/ Proceed(s) \/ Rollback(s)
    \/ \E j \in Jobs : BackoffElapses(j)
    \/ \E t \in Txns : RevalidateDecided(t) \/ Resubmit(t)

Spec == Init /\ [][Next]_vars

-----------------------------------------------------------------------------
TypeOK ==
    /\ txn \in [Txns -> TxnStatus]
    /\ job \in [Jobs -> JobRow]
    /\ due \in [Jobs -> BOOLEAN]
    /\ posts \in [Jobs -> 0..2]
    /\ pc \in [Sessions -> {"idle", "ready", "retrying", "confirming", "loaded",
                            "calling", "answered", "committing"}]
    /\ todo \in [Sessions -> SUBSET Jobs]
    /\ cur \in [Sessions -> Jobs \cup {NoJob}]
    /\ view \in [Sessions -> [Jobs -> JobRow \cup {Unread}]]
    /\ wrote \in [Sessions -> SUBSET Jobs]
    /\ txWrite \in [Sessions -> [Txns -> TxnStatus \cup {"clean"}]]
    /\ seen \in [Sessions -> TxnStatus \cup {"none"}]
    /\ outcome \in [Sessions -> Outcomes]
    /\ rollbacks \in 0..MaxRollbacks
    /\ reopens \in 0..MaxReopens

-----------------------------------------------------------------------------
(* Safety.                                                                 *)

\* The posting behind j happened: the target accepted it at least once, or an
\* administrator confirmed in writing that they made it.
Evidenced(j) == posts[j] > 0 \/ job[j].byHand

\* A job's status is what genuinely happened (rule 1 of the service): however
\* stale the sessions that wrote it, `succeeded` has a posting behind it.
SucceededIsEvidenced ==
    \A j \in Jobs : job[j].status = "succeeded" => Evidenced(j)

\* A committed trade was posted to, or filed by hand in, every target system,
\* even where its jobs were attempted twice or the trade was reopened.
CommittedIsEvidenced ==
    \A t \in Txns : txn[t] = "committed" => \A j \in JobsOf(t) : Evidenced(j)

\* However attempts overlap and counters are overwritten, a job that has used
\* its attempts is out of the queue, so no job is retried for ever.
AttemptCeiling ==
    \A j \in Jobs : job[j].status = "queued" => job[j].attempts < MaxAttempts

\* An approval never leaves a decided trade with nothing behind it, nor with
\* part of its jobs: the decision, the jobs and their first attempts are one
\* database transaction (the decision endpoint's comment).
DecidedTradeHasItsJobs ==
    \A t \in Txns :
        /\ txn[t] \in {"integration_pending", "committed"}
              => \A j \in JobsOf(t) : job[j].status # "absent"
        /\ \A j, k \in JobsOf(t) :
              job[j].status = "absent" <=> job[k].status = "absent"

\* `processing` belongs to one uncommitted attempt: no crash leaves a job in it,
\* where no sweep would ever find it again.
NoJobLeftProcessing == \A j \in Jobs : job[j].status # "processing"

\* Committed means all three jobs are resolved (rule 4 of the service).
CommittedMeansResolved ==
    \A t \in Txns :
        txn[t] = "committed" => \A j \in JobsOf(t) : job[j].status = "succeeded"

\* Once every job of a decided trade is resolved and nobody is working on it,
\* the trade is committed.
AllResolvedIsCommitted ==
    \A t \in Txns :
        /\ \A j \in JobsOf(t) : job[j].status = "succeeded"
        /\ \A s \in Sessions : pc[s] = "idle"
        => txn[t] # "integration_pending"

-----------------------------------------------------------------------------
(* What a step may never do.                                               *)

\* The mark of a manual completion is for the rest of the job's life.
HandMarkIsPermanent ==
    [][\A j \in Jobs : job[j].byHand => job'[j].byHand]_vars

\* Only an administrator's confirmation moves a job out of
\* awaiting_manual_action (due_jobs' comment, rule 3 of the service).
WaitingLeavesOnlyByHand ==
    [][\A j \in Jobs : job[j].status = "awaiting_manual_action"
                            => \/ job'[j].status = "awaiting_manual_action"
                               \/ job'[j].byHand /\ job'[j].status = "succeeded"]_vars

\* A resolved job is never attempted again.
SucceededIsFinal ==
    [][\A j \in Jobs : job[j].status = "succeeded" => job'[j] = job[j]]_vars

\* The rules at the head of integration_service.py, as it states them.
HubRulesHold == []CommittedMeansResolved /\ WaitingLeavesOnlyByHand /\ SucceededIsFinal

-----------------------------------------------------------------------------
(* The hub implements its promise.                                         *)

StageOf(status) ==
    CASE status = "committed" -> "committed"
      [] status = "integration_pending" -> "decided"
      [] OTHER -> "undecided"

PostingOf(status) ==
    CASE status = "absent" -> "absent"
      [] status = "succeeded" -> "resolved"
      [] OTHER -> "open"

Promise == INSTANCE PostingPromise
    WITH stage <- [t \in Txns |-> StageOf(txn[t])],
         posting <- [j \in Jobs |-> PostingOf(job[j].status)],
         behind <- {j \in Jobs : Evidenced(j)}

\* However many replicas, approvers and administrators there are, whatever they
\* read before and whatever is undone: the committed rows move as the promise
\* of the hub says (integration_service.py, the four rules of its head).
KeepsPromise == Promise!Spec

-----------------------------------------------------------------------------
(* Liveness.  The sweep loop runs for as long as a replica does, a started *)
(* session reaches its end, and waiting is bounded; nobody is obliged to   *)
(* approve, retry or confirm anything.                                     *)

Fairness ==
    /\ \A s \in Sessions : WF_vars(Proceed(s))
    /\ \A w \in Sweepers : SF_vars(BeginSweep(w))
    /\ \A j \in Jobs : WF_vars(BackoffElapses(j))

FairSpec == Spec /\ Fairness

\* A queued posting does not stay queued: it is attempted until it succeeds,
\* waits on a person, or has failed for good.
QueuedJobSettles ==
    \A j \in Jobs : job[j].status = "queued" ~> job[j].status # "queued"

\* With nobody else writing, a trade whose jobs all succeed is committed.
ResolvedTradeCommits ==
    \A t \in Txns :
        (\A j \in JobsOf(t) : job[j].status = "succeeded")
            ~> txn[t] # "integration_pending"

-----------------------------------------------------------------------------
(* The inductive invariant behind the safety properties (proved in         *)
(* IntegrationHubProofs).                                                  *)

\* How far a session can be, and what it has loaded by then.
Shape(s) ==
    /\ pc[s] = "idle" =>
          /\ todo[s] = {} /\ wrote[s] = {} /\ outcome[s] = "none"
          /\ \A j \in Jobs : view[s][j] = Unread
          /\ \A t \in Txns : txWrite[s][t] = "clean"
    /\ pc[s] \notin {"idle", "ready"} =>
          cur[s] \in Jobs /\ view[s][cur[s]] \in JobRow
    /\ pc[s] \in {"loaded", "calling", "answered"} => cur[s] \notin todo[s]
    /\ pc[s] = "loaded" => view[s][cur[s]].status = "queued"
    /\ pc[s] = "confirming" => todo[s] = {} /\ wrote[s] = {}
    /\ outcome[s] = "confirmed" =>
          /\ todo[s] = {} /\ pc[s] \in {"ready", "committing"}
          /\ \A j \in wrote[s] : view[s][j].status = "succeeded"
    /\ \A j \in todo[s] : view[s][j].status = "queued"
    /\ \A j \in wrote[s] : view[s][j] \in JobRow
    /\ \A j \in Jobs : view[s][j].status = "processing" =>
          j = cur[s] /\ pc[s] \in {"calling", "answered"}

SessionShape == \A s \in Sessions : Shape(s)

\* A queued row has attempts left, stored or in a session's copy.
QueuedHasAttempts ==
    /\ \A j \in Jobs : job[j].status = "queued" => job[j].attempts < MaxAttempts
    /\ \A s \in Sessions, j \in Jobs :
          view[s][j].status = "queued" => view[s][j].attempts < MaxAttempts

\* j's posting happened, or s is about to commit the confirmation that it did.
Backed(s, j) == Evidenced(j) \/ (outcome[s] = "confirmed" /\ j \in wrote[s])

\* Every claim of success a session holds is backed, not only the stored ones.
Claims(s) ==
    /\ \A j \in Jobs : view[s][j].status = "succeeded" => Backed(s, j)
    /\ pc[s] = "answered" /\ outcome[s] = "succeeded" => posts[cur[s]] > 0
    /\ pc[s] = "committing" => \A j \in JobsOf(TxnOf(cur[s])) : Backed(s, j)
    /\ \A t \in Txns : txWrite[s][t] = "committed" =>
          \A j \in JobsOf(t) : Backed(s, j)

ClaimsAreBacked == \A s \in Sessions : Claims(s)

\* Approver s holds the undecided trade t, and nothing but it: whatever job t
\* still lacks is in what s is about to commit.
Decides(s, t) ==
    /\ txn[t] = "approval_pending"
    /\ txWrite[s][t] \in {"integration_pending", "committed"}
    /\ \A u \in Txns \ {t} : txWrite[s][u] = "clean"
    /\ todo[s] \cup wrote[s] \subseteq JobsOf(t)
    /\ pc[s] # "ready" => cur[s] \in JobsOf(t)
    /\ \A j \in JobsOf(t) : job[j].status = "absent" => j \in wrote[s]

\* Everyone else works on stored jobs, and commits trades that have them all.
WorksOnStored(s) ==
    /\ \A j \in Jobs : view[s][j] # Unread => job[j].status # "absent"
    /\ pc[s] = "committing" =>
          \A j \in JobsOf(TxnOf(cur[s])) : job[j].status # "absent"
    /\ \A t \in Txns : txWrite[s][t] # "clean" =>
          /\ txWrite[s][t] = "committed"
          /\ \A j \in JobsOf(t) : job[j].status # "absent"

\* An approver brings the jobs of the trade it decides; nobody else makes one.
KeepsToItsPart(s) ==
    /\ \A j \in Jobs : view[s][j].status # "absent"
    /\ s \in Approvers /\ pc[s] # "idle" =>
          /\ pc[s] \notin {"retrying", "confirming"}
          /\ outcome[s] # "confirmed"
          /\ \E t \in Txns : Decides(s, t)
    /\ s \notin Approvers => WorksOnStored(s)

OneWriter ==
    \A s, r \in Sessions, t \in Txns :
        txWrite[s][t] # "clean" /\ txWrite[r][t] # "clean" => s = r

\* One session at a time writes a trade, and the one that decides it brings
\* every job that is missing.
JobsComeTogether == OneWriter /\ \A s \in Sessions : KeepsToItsPart(s)

HubInv ==
    /\ TypeOK
    /\ SessionShape
    /\ QueuedHasAttempts
    /\ SucceededIsEvidenced
    /\ CommittedIsEvidenced
    /\ ClaimsAreBacked
    /\ DecidedTradeHasItsJobs
    /\ JobsComeTogether
    /\ NoJobLeftProcessing

-----------------------------------------------------------------------------
(* The rules hold where one replica sweeps, one administrator is at the      *)
(* monitor and no decided trade goes round again: a job is then in the hands *)
(* of one session, and its row stands as that session has read it.           *)

NoRivals ==
    /\ \A r, s \in Sweepers : r = s
    /\ \A r, s \in Admins : r = s
    /\ MaxReopens = 0

\* The rows s has loaded are the stored ones, and nobody else's to change.
Stands(s) ==
    /\ \A j \in Jobs : view[s][j] # Unread =>
          /\ s \in Sweepers => job[j].status = "queued"
          /\ s \in Approvers => job[j].status = "absent" /\ txWrite[s][TxnOf(j)] # "clean"
          /\ s \in Admins =>
                IF pc[s] = "confirming" \/ outcome[s] = "confirmed"
                THEN job[j].status = "awaiting_manual_action"
                ELSE job[j].status = "failed"
          /\ view[s][j].status = "succeeded" => j \in wrote[s]
    /\ pc[s] \in {"calling", "answered"} =>
          cur[s] \in wrote[s] /\ view[s][cur[s]].status = "processing"

\* What s is about to commit of t is resolved, by itself or before.
Resolved(s, t) ==
    \A j \in JobsOf(t) :
        view[s][j].status = "succeeded" \/ (view[s][j] = Unread /\ job[j].status = "succeeded")

Sure(s) ==
    /\ pc[s] \in {"retrying", "confirming"} => \A t \in Txns : txWrite[s][t] = "clean"
    /\ pc[s] = "committing" => Resolved(s, TxnOf(cur[s]))
    /\ \A t \in Txns : txWrite[s][t] = "committed" => Resolved(s, t)

DecidedOnce ==
    \A t \in Txns :
        /\ txn[t] # "validation_pending"
        /\ txn[t] = "approval_pending" => \A j \in JobsOf(t) : job[j].status = "absent"

AloneInv ==
    /\ \A s \in Sessions : Stands(s) /\ Sure(s)
    /\ DecidedOnce
    /\ CommittedMeansResolved
=============================================================================
