# Verification of the AGFZE Command Centre

TLA+ specifications of the AGFZE Command Centre (`backend/`, a FastAPI and SQLAlchemy service on
PostgreSQL with a Next.js frontend), the TLC configurations that check them on small instances, and
TLAPS proofs of the properties that matter most. Paths below are relative to the repository;
`services/`, `api/` and `models/` are under `backend/app/`.

## 1. The system

A trade starts as a *request* and a *transaction* with a batch number. Documents arrive by e-mail
or upload, are classified, extracted and matched to transactions; the rule engine validates the
figures; the preparing desk corrects, acknowledges tolerances, generates drafts and submits; a
second person approves; three postings (Excel tracker, SAP, document-management system) are made;
when all three are resolved the trade is committed. Shipments are tracked beside it, problems are
queued as exception cases, and everything is audited, notified and reported.

### Inventory

| Component (source) | State it keeps | Operations | What is hard about it | What makes it correct |
|---|---|---|---|---|
| Integration hub (`services/integration/*`, `api/v1/integrations.py`, `services/integration_worker.py`) | `integration_jobs`, `trade_transactions.status`, what each target accepted | create jobs, dispatch, sweep, retry, complete manually, maybe commit | every replica sweeps; sessions are stale; external calls are not rolled back | success is genuine; attempts are bounded; committed means posted; queued jobs settle |
| Approval desk (`api/v1/transactions.py`, `api/v1/approvals.py`, `services/governance/approval_service.py`) | transaction status, submitted_by, `approval_tasks` | submit, decide, bulk decide, AI summary | unlocked reads before submit, one commit per batch | one decision per task; the approver is not the submitter; what is approved was validated |
| Rule engine (`services/rules/*`) | `rule_evaluations`, acknowledgements | run validation, latest evaluations, carry acknowledgement | re-evaluation drops or carries acknowledgements, moves status | only a passing trade is submitted; an acknowledgement covers only what was acknowledged |
| Corrections (`services/transaction_fields.py`) | leg fields | apply corrections, revalidate | locked statuses, concurrent submit | frozen after approval |
| Exceptions (`services/governance/exception_service.py`, `hooks.py`, `api/v1/exceptions.py`) | `exception_cases` | open, escalate, resolve, close | check-then-insert without an index; ageing cases opened by whoever reads the queue | the queue shows one problem once |
| Matching and document intake (`services/matching_service.py`, `document_service.py`, `classification_service.py`, `extraction_service.py`, `file_intake.py`) | documents, links, containers, supersession | upload, classify, extract, match, relink | models answer late, duplicates, supersession | one current document per kind; nothing behind the approver's back |
| Purchase and sales legs (`services/sales_service.py`, `purchase_intake.py`, `purchase_completion.py`) | legs, coverage | attach sales leg, coverage | several trades share one contract | the coverage shown is that of the contract |
| Batch and request numbers (`services/transaction_service.py`, `request_service.py`, `counterparty_codes.py`) | sequences | next number | concurrent creation, retry bound | unique numbers |
| E-mail intake (`services/email_ingestion.py`, `mailbox_worker.py`, `api/v1/graph_notifications.py`) | captured messages, delta link, subscription | webhook, poll, renew | duplicate and lost notifications | each message once |
| Knowledge graph projection (`services/graph_sync_worker.py`, `neo4j_service.py`) | watermark in memory, the graph | sync, rebuild | one watermark over several paged kinds of rows | every changed row is projected; a rebuild is complete |
| Shipments and tracking (`services/logistics/*`, `shipment_worker.py`, `api/v1/shipments.py`) | shipments, milestones, failure counts | record, track, sweep | stale carrier data, repeated sweeps | a silent shipment has one case |
| Loading sheet and document packs (`services/integration/loading_sheet.py`, `document_packs.py`) | pending rows, packs | queue, drain, compile | workbook unavailable | each row written |
| Notifications and delivery (`services/notification_service.py`, `services/delivery/*`) | notifications, subscriptions | notify, push, e-mail | delivery failures | in-app record never lost |
| Replies to counterparties (`services/email_reply_service.py`) | reply drafts, drafts in the mailbox | compose, send, withdraw | the provider is asked outside the database; nothing locks the row | a row that says sent was accepted, once |
| Mailbox subscription (`services/mailbox_worker.py`) | a handle in memory, the subscription at the provider | create, renew | failed calls and restarts near the end | the mailbox stays watched |
| Roles of an account (`services/keycloak_admin.py`, `core/dependencies.py`) | mapping at the provider, token, mirrored row | override, sign in, refresh from the token | two calls that fail apart; old tokens | the provider decides, the row catches up |
| KPIs and dashboards (`services/analytics/kpis.py`, `scope.py`, `cache.py`, `api/v1/dashboards.py`) | a cache per process | count, cache, serve | many queries over changing tables, scope in the key | shown is one's own, and adds up |
| Reports and retention (`services/analytics/*`) | report runs, retention flags | schedule, generate, flag | two processes at a boundary | each period once |
| Drafts, templates (`services/draft_service.py`, `services/templates/*`) | drafts | generate | layout | formatting, not modelled |
| Security, sessions, rate limits (`core/*`) | JWKS cache, buckets | verify, limit | cache refresh | limits hold |
| Frontend (`frontend/src`) | client state | screens | - | presentation |

## 2. Modules and their correspondence to the code

| Module | What it is |
|---|---|
| `IntegrationHub` | the jobs of an approved trade and everyone who works on them |
| `PostingPromise` | what the hub promises about postings; `IntegrationHub` implements it |
| `ApprovalDesk` | from the preparing desk to the signature |
| `ExceptionQueue` | how cases are opened and closed |
| `MailIntake` | from a message or an upload to a numbered request with a job |
| `DocumentReading` | the pipeline of a request and the people who correct it meanwhile |
| `DocumentMatching` | which trade a document belongs to, and the numbers of trades |
| `SalesContract` | sales legs and the coverage of the contract they share |
| `PurchaseBundle` | the drafts of a complete purchase and the line in the Loading Sheet |
| `Shipments` | where cargo is: carrier, sweep, desk, bills of lading |
| `RuleChecks` | what the checks of a validation say of a trade |
| `GraphProjection` | the knowledge graph beside the relational store |
| `Notices` | telling people: rows, mail, push |
| `Reporting` | scheduled and requested reports, distribution, retention; uses `Notices` |
| `KpiFigures` | the figures of dashboards and reports, and their cache |
| `MailReplies`, `MailboxWatch`, `RoleMirror` | what is asked of the mailbox and of the identity provider |
| `SigningKeys`, `MailboxToken` | the keys requests are checked with, and the token calls to the mailbox carry |
| `MCIntegrationHub`, `MCApprovalDesk`, `MCExceptionQueue` | small instances of the first three |
| `MCOutward`, `MCAccess`, `MCIntake`, `MCTrade` | from a message to a trade; each extends the one before |
| `MCOffice`, `MCPlatform` | shipments, rules, graph, notices, reports, figures, and the hub with one sweep |
| `MCDelivery`, `MCProgress` | what must happen in the end, on instances small enough for it |
| `IntegrationHubProofs`, `ApprovalDeskProofs`, `ExceptionQueueProofs`, `DocumentMatchingProofs` | theorems of the module each is named for, and their TLAPS proofs |
| `IntakeProofs` | the same for `MailIntake` and `DocumentReading` |
| `TradeProofs` | the same for `PurchaseBundle`, `SalesContract` and `Shipments` |
| `OfficeProofs` | the same for `GraphProjection`, `Notices` and `Reporting` |
| `AccessProofs` | the same for `SigningKeys`, `MailboxToken`, `MailReplies`, `MailboxWatch`, `RoleMirror` |

**How the modules are put together.** A composition over one database would multiply state spaces
that hardly touch. `MCTrade`, `MCPlatform` and `MCProgress` therefore instantiate several modules, each
possibly with several sets of constants, and a behaviour runs the *part* chosen at its start: the state
spaces add up. A property says of which parts it speaks. Where components interact for real they are composed:
`Reporting` runs `Notices` in the transaction of its report (`Post == INSTANCE Notices`),
`RevalidateDecided` and `Resubmit` of `IntegrationHub` are what the desk and the rules do to a decided
trade, `AskApproval` of `ExceptionQueue` is the desk's submission, and a job and its task are one
thing in `MailIntake`, `PurchaseBundle` and `Reporting`.

**How a session is modelled.** Most modules describe SQLAlchemy sessions on PostgreSQL under
READ COMMITTED, and the interesting part is always the same. A row is loaded without a lock and the
session keeps working on that copy; a flush takes the row lock and keeps it until the session ends;
what the commit writes are the columns that differ from the *copy*, not from the stored row. An
action is one such step: a load, a flush, an external call, a commit. Steps between which nothing
can interleave are one action. Every session may also be abandoned (error, cancelled request,
replica killed, victim of a lock cycle), which forgets its writes and frees its locks.

### IntegrationHub

| State | Code |
|---|---|
| `txn`, `job`, `due` | `trade_transactions.status`, `integration_jobs`, `is_due` |
| `posts` | what the external systems accepted, which no rollback undoes |
| `view`, `wrote`, `txWrite`, `seen`, `outcome` | a session's identity map, the rows it flushed and so locked, the trade status it read, the adapter's answer |
| `rollbacks`, `reopens` | bounds |

`DecideAndCreateJobs` is `decide` with `create_jobs` and the head of `dispatch`; `BeginSweep` is
`due_jobs`; `BeginRetry`/`Requeue` and `BeginConfirm`/`ConfirmByHand` are the two administrator
requests; `TakeJob`, `StartAttempt`, `CallAdapter`, `Settle` are `run_job`; `Settle` and
`WriteCommitted` hold `maybe_commit`; `Commit`, `Rollback` and `DeadlockVictim` end a session.
`RevalidateDecided` and `Resubmit` are what validation does to a decided trade, in two steps.

*Refinement.* `PostingPromise` knows of a trade only whether it is undecided, decided or committed, of a
posting whether it is absent, open or resolved, and which postings have something behind them. `StageOf`,
`PostingOf` and `Evidenced` map the hub's state to it, and `KeepsPromise` is its specification under that mapping: the
jobs come with the decision, none disappears, nothing is called resolved or committed with nothing behind it,
in every interleaving of replicas, administrators, crashes and reopened trades.

### ApprovalDesk

`BeginCorrection`..`SaveCorrection`, `BeginAcknowledgement`..`SaveAcknowledgement`,
`BeginSubmission`..`SaveSubmission` or `RefuseSubmission` are the requests of `api/v1/transactions.py`;
`BeginMatch`..`SaveMatch` is the write of `apply_match`; `BeginDecisions`, `TakeTask`, `LoadTrade`,
`Decide`, `Refuse`, `SaveDecisions` are a single or a bulk decision. `Judge` is the evaluation of
`run_validation`, `Validated` its effect on the status, `Newest` the order of `rule_evaluations` by
`evaluated_at`, which is taken before the lock, so an older run may commit last.

Abstractions: one check per trade, which passes, is a tolerance breach, or fails; an account has
one request in flight; the trade's status after an approval is `integration_pending`, which stands
for `committed` as well. A refusal by risk tier or for a missing confirmation is a free choice.

### ExceptionQueue

`BeginValidation`, `BeginCorrection`, `RecordFailures`, `SaveRun` are a run with
`record_hard_failures`; `BeginCoverage` is `propagate_coverage` for one sibling; `BeginReport` stands
for `open_failure_case` and `open_stale_case`; `ReadQueue` is `ensure_overdue_approval_cases` for one
approval; `OpenForWork`, `CheckCase`, `CloseCase` are `resolve_exception` and `resolve_case`;
`BeginDecision`, `SaveDecision` close the ageing cases of a decided trade. `AskApproval` and `Ages`
are the environment: a submission (see `ApprovalDesk`) and the passing of the overdue limit.

Abstractions: any session may do any operation; the figures are the result of each check; several
openers that look and insert without a lock are over-approximated by one. `passed` is history: it
records that a check passed after its case was opened. Escalation and cases about a document with no
trade are not modelled.

### The intake: MailIntake, DocumentReading, DocumentMatching

`MailIntake`: `Notify` is the webhook, `StartPoll`, `NextMessage` and `SaveLink` are `poll_once`, and both run
`Look`, `InsertEmail`, `ReadSequence`, `InsertRequest`, `Commit` (`ingest_message`, `create_request`); `Upload`
shares the numbering. Unique indexes are modelled as PostgreSQL keeps them: a flush waits for an open
transaction with the key and fails on a committed one. `tasks` is what runs in a process, `requests[..].job` what is
stored; `Restart` loses the first. Messages are numbered as the mailbox received them, so a delta link is a
number.

`DocumentReading`: the pipeline (`StartPipeline`, `Begin`, `ReadField`, `Completed`, `Failed`, `Doubts`, `Reconcile`,
`Break`), a re-extraction (`StartRerun`) and people (`CorrectField`, `Reclassify`, `Confirm`, `OverrideCategory`), each over
the copy its session keeps. What the reading model answers is a free choice; one field stands for a document's.

`DocumentMatching`: `SearchConfirmed`, `SearchDecided` and `Search` read what is committed and decide; `Link`, `Adopt`,
`Number`, `Index`, `Commit` write, each under the lock or the unique index it needs. A score is how many references
agree. `Register` and `Upload` are the other ways to a trade.

### The trade: SalesContract, PurchaseBundle, RuleChecks

`SalesContract`: `Attach`, `Sale`, `Correct`, `Validate` begin a request, `Flush`, `Evaluate` and `Commit` write the leg and
what SL-01 shows on each trade of the contract (`propagate_coverage`).

`PurchaseBundle`: `Confirm` and `Check` are `on_purchase_confirmed`, `Begin`, `Produce`, `Reject` a generation, `StartDrain`,
`Find`, `WriteLine`, `Stamp`, `EndDrain` a drain; the workbook is a sequence of lines that people edit (`EditBook`) between
two calls.

`RuleChecks` is arithmetic more than control: each check is an operator named for it (`References`, `Pack`, `Quantity`,
`Amount`, `Rate`, `Copies`, `Boxes`, `Weight`, `Dating`, `Bundle`) over whole numbers (money in cents, weights in thousandths,
ratios in ten-thousandths), with the rounding of `values.py`, the configuration resolved by `Threshold`, and the carried
acknowledgement (`Carried`, `Persisted`). The actions edit trades, papers and configuration, and the clock moves.

### Around the trade: Shipments, GraphProjection, Notices, Reporting, KpiFigures

`Shipments`: `BeginSweep`, `Ask`, `Pass`, `CommitSweep` are `run_sweep` in one transaction with one copy; `Load`, `Write`,
`WriteBill`, `Create`, `CommitDesk` are the desk. `Plausible` and `Said` are `check_plausibility` and `apply_update`.

`GraphProjection`: `Flush` stamps a row and `Commit` shows it; `ReadTable`, `UpsertNodes`, `UpsertEdges` are `sync_once` with its
one watermark, `Failed` and `Restart` what ends a pass, `BeginRebuild` with `Cleared` the script.

`Notices`: `Open`, `Tell`, `Deliver` (with `Mail` and `Push`), `Commit` or `Undo`: one transaction that contains the event, the
rows and the delivery. `Reporting`: `Begin`, `Ask`, `Make`, `Distribute`, `Commit`, `Fail` are a tick of `schedule.py`; `Request`,
`RunJob`, `CompleteJob`, `FailJob` the requested report; `Retain` the retention sweep.

`KpiFigures`: `Begin` or `Hit`, then one `Query` after the other, each over what is stored by then, then `Serve`; `Key`, `Fresh`,
`Stored` are the cache.

### Outward: MailReplies, MailboxWatch, RoleMirror, SigningKeys, MailboxToken

Each is a row here, a state at the provider, and requests that go to and fro without a lock. `MailReplies`: `Compose`, `OpenSend`,
`Create`, `Post`, `RecordSent` or `RecordFailure`, `OpenWithdraw`, `Discard`, `Withdraw`; a fault may lose the answer of a call that was
carried out. `MailboxWatch`: `Ensure` (`Create`, `Renew`, `KeepAsItIs`, `Forget`), and time as what is left of a subscription.
`RoleMirror`: `Ask`, `Look`, `Add`, `Remove`, `Mirror` are an override, `SignIn` gives a token, `Find`, `Provision`, `Refresh`
are what every request does with it.

The other two are caches of one process in front of a provider, filled by whoever holds an `asyncio` lock while the rest queue for it;
`Resume` is what the first in the queue does when it gets the lock. `SigningKeys`: `Arrive` (`Cached` or in the queue), `Serve`, `Receive`, `Fail`;
`Publish` and `Withdraw` are the provider's. `MailboxToken`: `Begin` and `Need`, `Issue`, `Take`, `Judge`, `Receive` (which drops what is in
hand on a refusal and tries once more), `Revoke`. Both take `Flight` as the longest a call may last and let a coroutine that got the lock go on
before time does.

## 3. What is checked

All runs use TLC to exhaustion. `CHECK_DEADLOCK FALSE` appears only where the system may rest: the hub is done when its jobs
are, a day of the office when its tick is over.

| Run | Question | Properties |
|---|---|---|
| `HubHand` (166 thousand states) | two replicas, an administrator, a crash and a reopened trade, one job that may be handed to a person | success and commitment are evidenced, attempts are bounded, the mark of a manual completion stays, `KeepsPromise` (the refinement) |
| `DeskTeam` (2.4 million) | two preparers, one of whom may approve, and an approver | one open task; a waiting trade has one; nobody approves what they last submitted |
| `DeskOrderly` (2.5 million) | one preparer, no late document, two approvers with overlapping bulks | what is submitted passes or was acknowledged as it stands; signed as validated; decided once |
| `QueueCases` (1.7 million) | two sessions do anything to one trade | one open case per category; no case closed on a note; no ageing case closed while its approval waits |
| `Trade` (1.8 million) | from a message to a trade, and what is asked of mailbox and identity provider | table below |
| `Platform` (1.2 million) | shipments, rules, graph, notices, reports, figures, the hub with one sweep | table below |
| `Progress` (31 thousand) | what must happen in the end | table below |
| `HubStaleSweep` (violation) | two replicas sweep one job | committed means all succeeded: refuted |
| `HubLostCommit` (violation) | the last two jobs are resolved by concurrent sessions | all resolved means committed: refuted |
| `DeskLateDocument` (violation) | a document matched to a waiting trade | signed as validated: refuted |
| `QueueHiddenFailure` (violation) | amount and rate fail under one category | every failing check has a case: refuted |
| `ReportMonth` (violation) | the shipped day of the monthly report | it covers the month that has just ended: refuted |

Each property of the three large runs is the conjunction of named parts, which are defined beside it in its MC module with a comment
each, and in the component's module.

| Run | Property | Parts |
|---|---|---|
| `Trade` | `NumberedOnce` | `OneRequestPerMessage`, `CodesAreUnique`, `NumbersAreUnique` |
| | `NothingIsLeftBehind` | `StaysWatched`, `NothingSkipped`, `UnsettledIsInHand`, `NoReadingLeftBehind` |
| | `ReadingIsFaithful` | `OriginalIsKept`, `SeenCorrectionIsKept`, `DoubtsReachTheRequest` |
| | `DocumentsAreAccountedFor` | `UnlinkedIsAccountedFor`, `BoxesFollowDocuments`, `NoTradeWithoutDocument`\* |
| | `FirstStatementStands` | `StatedNumberStands`\*, `FiguresStand`\*, `CopyOpensNothing`\*, `FirstSaleStands` |
| | `CoverageIsShown` | `CoverageAgrees`\*, `OverIsNoticed`\* |
| | `PurchaseWritesOnce` | `ContractIsNotStacked`, `DraftsHaveTheirJobs`, `SyncedIsInTheBook`, `OneLinePerBatch`\*, `LinesKeepTheirKey` |
| | `RepliesAreHonest` | `SaidSentWasAccepted`, `OneMessageLeaves`\*, `WithdrawnWasNotSent`\* |
| | `AccessIsTheProviders` | `MirrorWasGranted`, `ForeignStays`, `ConfirmedIsHeld`\*, `WithdrawnKeyEnds`, `UnknownIsNotPublished`, `RefusedWasTakenBack`, `RefusalIsNew`, `RefusedTwiceWasRevokedTwice`\* |
| `Platform` | `HubRulesHold` | `CommittedMeansResolved`\*, `WaitingLeavesOnlyByHand`\*, `SucceededIsFinal`\* |
| | `CargoIsFollowed` | `OneReminder`\*, `VerdictKnowsTheBill`\*, `RegressionIsFlagged`\*, `CheckEndsTheCount`\* |
| | `ChecksAgree` | `AcceptedFiguresStand`, `AmountTiersAgree`, `OneBoxOneCargo`, `BundleImpliesPack` |
| | `ChecksDecide` | `StreamsAreApart`, `WindowNeverReopens`, `FinalWeightDecides` |
| | `ProjectionIsComplete` | `FirstPassIsComplete`, `RebuildIsExact` |
| | `DeliveryIsOnRecord` | `StampMeansSent`, `SentOrOnRecord` |
| | `ReportsAgree` | `ReportAndNoticeAgree`, `JobSaysWhatHappened`, `OneReportPerPeriod`\*, `PeriodIsOver`, `MonthlyCoversTheMonthThatEnded` |
| | `FiguresAddUp` | `ShownIsOnesOwn`, `EveryApprovalIsCounted`, `NotPastItsTime`, `PartsMakeTheWhole` |
| `Progress` | `PostingsSettle` | `QueuedJobSettles`, `ResolvedTradeCommits` |
| | `IntakeSettles` | `MailIsCaptured`, `JobSettles`, `PipelineSettles` |
| | `DeliverySettles` | `GenerationSettles`, `RowIsWritten`, `SilenceIsReported`, `LastReportIsMade`, `AgedIsFlagged` |
| | `OutsideCatchesUp` | `WatchedAgain`, `MirrorCatchesUp` |

**Parts marked \*** hold of one person, administrator, replica or sweep at a time and are checked of parts with one; the parts with two
(`crowd`, `sellers`, `sheets`, `writers`, `mirrors`, `keys`, `tokens`, `board`, `graph`, `bundle`) check what holds of any number. `SignedAsValidated` of
`DeskOrderly` is of the same kind. This is deliberate: the pair says which promise rests on which assumption. Where a comment promises such
a property without the assumption and the run without it is small, a violation run shows it; the others are in section 5.
`MonthlyCoversTheMonthThatEnded` passes in `Platform` with a `MonthlyDay` other than the shipped one.

The five violations are disagreements between the code and its own comments; `PROJECT.json` quotes the line for each. In short: (1)
`due_jobs` reads rows without a lock and `run_job` trusts the copy, so a late failure overwrites a success, of a trade already committed;
(2) two sessions that each resolve one of the last two jobs do not see each other and nobody commits the trade; no later sweep looks at a
trade without queued jobs; (3) `apply_match` does not look at the status; (4) a category with an open case hides a second failing check of that
category, and closing the case for the first leaves the second with none; (5) with the shipped day of 1 the monthly report is one month
behind.

**Bounds and why they are enough.** One trade suffices where trades meet only in the scope of a session (the row locks are per trade; a bulk
covers two *tasks* of the trade). Two sessions of a kind give every race of a check and a write; the third kind of actor is in each run.
`MaxAttempts` 2 or 3 lets a job be retried, exhausted, and retried again by hand. `BatchSize` 1 with two jobs makes the page shorter than the
queue. `MaxRollbacks`, `MaxReopens`, `MaxFaults`, `MaxSlips`, `MaxCrashes` and `MaxDrops` bound crashes, reopenings, failed calls, lost answers and
dropped subscriptions, each of which may happen at any point. Two tasks allow a rejection and a resubmission. Two cases and two rounds let
a case be closed and opened again and an approval be asked for a second time. In the intake two messages let a poll
overtake a webhook; an upload beside them, restarts beside them, and restarts beside one message and an upload are three parts
(`mail`, `failing`, `portal`). `MaxVisits` lets a person come back to a document that was read, corrected and read again; two trades are the fewest that can want one number
or one document. Two sales and one contract exceed its cover. Two figures and two jobs let a generation fail and be asked for again. Days, ticks and
moments (`MaxDay`, `LastTick`, `LastMoment`) reach past every limit they are compared with: the silence of a shipment, the end of a month, the age of
a document, the life of a cache entry. `MaxEdits`, `MaxChanges` and `MaxWrites` allow a change before, between and after two looks. The amounts of
`RuleChecks` are chosen on both sides of a rounding. Symmetry is used only over interchangeable replicas, approvers, cases and sessions, and in no
liveness run.

**Fairness.** A started session, a task in a process and a request go on (weak fairness of `Proceed`, `Settle`, `Pipe`, `Handle`, `Generate`,
`Serve`, `Override`, `Work`, `Retain`): their awaits have timeouts, and a deadlock is broken by PostgreSQL. Periodic workers look again at
every tick for as long as their replica runs (`Poll`, `Sweep`, `Ensure`). It is strong where a step may be refused at one
tick and possible at the next: `BeginSweep` (a due job may be taken, or behind the page), `Ingest` and `Read` (a unique key or a row held by another
session), `Drain` (the lock on a row of the sheet). `BackoffElapses` and `Tick` are time. `SignIn` is the one person who must act: a person who
never signs in again never shows the new roles. No fairness is assumed of anybody who approves, retries, confirms or corrects. Failures are bounded, as
an endless series of crashes settles nothing.

## 4. What is proved

Eight modules hold 85 theorems and 474 lemmas; `PROJECT.json` lists the theorems that promise something, not those that state a type or an
inductive invariant. They hold for every value of the constants that satisfies the named assumptions
(`HubConstants`, `HubRoles`, `DeskConstants`, `QueueConstants`, `QueueRuns`, `IntakeConstants`, `ReadingConstants`, `MatchConstants`, `NoticeAssumption`,
`EventAssumption`, `ReportAssumption`, `GraphAssumption`, `PagesHold`, `ShipConstants`, `KeyBounds`, `TokenBounds`, `ReplyBounds`, `WatchBounds`, `MirrorBounds`, `PurchaseBounds`, `SalesConstants`), which TLC evaluates in the runs. They ask for non-empty or finite sets, disjoint roles, limits that are
numbers, people of an event who have accounts, times of a day and a month that are within them, people who are not the schedule, a margin within the life of a subscription, readings of a carrier in the words of the enumerations, rows whose trade is there,
tables no longer than a page of the graph's worker (`PagesHold`; section 5 says what happens otherwise), and of the token that `TOKEN_REFRESH_MARGIN_SECONDS` and its life cover two requests (`TokenBounds`). Nothing
is asked about how many trades, sessions, messages, documents, people, requests or events there are, nor how many faults.

Each proof has one inductive invariant (`HubInv`, `DeskInv`, `QueueInv`, `IntakeInv`, `ReadingInv`, `MatchInv`, `NoticeInv`, `KeyInv`, `TokenInv`, `ReplyInv`,
`WatchInv`, `MirrorInv`, `PurchaseInv`, `SalesInv`, `ShipInv`, `GraphInv`, `ReportInv`), which TLC checked on small
instances before it was proved, one lemma or step per action, and a theorem for each promise.

- **`IntegrationHubProofs`**: `HubTypeCorrect`, `SuccessIsGenuine`, `CommittedIsGenuine`, `AttemptsAreBounded`, `NeverStuckProcessing`,
  `ManualMarkIsPermanent`, `JobsArriveWithTheDecision`, and the refinement `HubKeepsPromise`,
  and with one replica, one administrator and no trade reopened (`NoRivals`) `RulesHoldAlone`: the three rules `integration_service.py` opens with.
  *Argument.* A stored `succeeded` is not inductive: a stale session may still write one. `HubInv` therefore
  speaks of every *claim* a session holds: whatever it has in its identity map as succeeded is backed by a
  posting or by the confirmation it is about to commit (`ClaimsAreBacked`), and postings are never undone.
  In the same way `QueuedHasAttempts` bounds the copies and not only the rows, and `SessionShape` says
  that `processing` exists only in a session that has not committed. `JobsComeTogether` says that one session at a time writes a trade, and that
  the one which decides it brings every job that is missing; so a trade and its jobs are committed at once, wherever an approval dies.
  *Refinement.* The initial states map to the promise's, and every action but a commit, an answer of a target and a reopening changes nothing the promise
  knows of. A commit maps to a decision, to a step of the postings and the trades, or to a stutter, by what its session is about; that it may
  call nothing resolved without evidence is `ClaimsAreBacked`, that it takes no job away is the map of absent rows to written ones.
  *Alone.* `AloneInv`: with no rival `Stands`, what a session loaded is what is stored, and `Sure`, its copy of a resolved job is one it resolved
  itself. `HubStaleSweep` shows the first of the three refuted with two replicas.
- **`ApprovalDeskProofs`**: `DeskTypeCorrect`, `OneTaskAtATime`, `WaitingTradeHasTask`, `SubmissionsAreClean`, `DecisionsAreFinal`,
  `MakerIsNotChecker`, `WaitingKeepsItsFigures`. *Argument.* `TaskLocks`: a decider
  holds the lock of the task from reading it to writing it, so what it read is still so. `Evaluations`: an acknowledged
  evaluation, stored or in hand, is of figures somebody acknowledged; these only grow. `MakerChecker`: who
  has decided to approve is not the submitter, and a resubmission cannot come in between because the
  trade is locked or its status refuses it. `WaitingKeepsItsFigures` has two hypotheses, at most one preparer and no late documents, without
  which the property is false (section 5 and `DeskLateDocument`); under them `LoneDesk` is inductive: what the preparer has loaded is what is stored.
- **`ExceptionQueueProofs`**: `QueueTypeCorrect`, `ProblemsShownOnce`, `NoCaseClosedOnANote`,
  `WaitingApprovalKeepsItsCase`. *Argument.* `StillMissing`: a run that is about to open a case holds the
  trade's lock, so what it did not find is still not there. `Passes`: a passing result is never older than an open case of
  its check. `StillCleared`: what a session checked about a case stays true until it commits.
- **`IntakeProofs`**, two components. *`MailIntake`*: `IntakeTypes`, `MessageHasOneRequest`, `RequestCodesAreUnique`, `LinkSkipsNothing`, `RequestIsInHand`.
  `KeysAreHeldOnce` and the last conjunct of `CodeInHand`: a key that is flushed is in one open transaction and in no committed row, which is what a
  unique index is. `RowsAreMail`: captured messages and the requests that name one are the same thing. `PollInHand`: what a poller has turned from
  is captured or raised, so the link it saves passes nothing else, however old its page is. `CountsFromOne`: the counting of text codes always
  finds one to count from.
  *`DocumentReading`*: `ReadingsEnd`, `OriginalStays`, `SeenCorrectionStays`, `DoubtsAreShown`. `Sound`: a row that is not there is blank, and one
  nobody has touched still reads as it was inserted; writing back the columns of an older copy keeps both, as the original is never among them.
  `NobodySeesAReading`: the status `processing` exists in an open transaction only, so a rollback leaves no document in it. `DoubtStands`:
  overrides only grow, and a doubt the pipeline has turned into an exception is still shown or was overridden by a person.
- **`DocumentMatchingProofs`**, for any number of people: `MatchingTypes`, `TradeNumbersAreUnique`, `ConfirmedIsAccountedFor`, `ContainersFollow`. *Argument.*
  `NumbersAreHeldOnce`, as above; `DocumentsAreInHand`: a document confirmed and not linked, offered or raised is in the hands of a request that will
  do one of these; `BoxesComeAlong`: whoever changes a link behind a request's back adds the containers too, so the request may trust its copy. For
  one person at a time (`\A p, q \in People : p = q`): `TradesKeepDocuments`, `StatedNumbersStand`, `EstablishedFiguresStand`, `CopiesOpenNothing`, from
  `LonePerson`: the copy of a row is the row, and nobody links what the person searched for. With two people TLC refutes each of the four.
  `DocumentsAreKept` is the conjunction that `Trade` checks.
- **`OfficeProofs`**, three components. *`GraphProjection`*: `ProjectionsAreComplete`, that is `FirstPassIsComplete` and `RebuildIsExact`, for any number of
  replicas, scripts, sessions, tables, refusals and restarts. `CalmIsComplete` says what is so of a reader since whose start nothing has changed: nobody
  has found what is not stored, its first page of a table is the table (`PageIsTheTable`, which counts: the rows older than one of a table's are
  fewer than its ids), and what it has written stays, since a key names one node of a store (`KeysNameOneNode`) and whoever else
  writes meanwhile writes what is stored. With all nodes there no edge lacks an end (`EndsAreThere`, from the foreign keys). Any change of the
  store, and a rebuild that clears the graph, ends the calm of everybody else.
  *`Notices`*: `NoticeTypes`, `StampsAreEvidence`, `MissedMailIsOnRecord`, and both as `DeliveriesAreOnRecord`. `OwnRow`: a row is known by its event,
  its call and its reader, and a call that is yet to be told has none. `Once`: one session tells of an event, and once, so that what a commit adds to
  the table and to the audit trail concerns nothing that is there. `Sincere`: the rows of an open transaction are as true as committed ones, but for
  those not mailed yet.
  *`Reporting`*: `ReportsAreToldOf` for any number of replicas, people, rules, lengths of a day and a month, refusals and restarts, and with one replica
  (`OneReplica`) `ReportsAgreeAlone`. `OwnFiles`: a file is of one report, in the hands of one replica, of one person or on record, since every file takes
  the next number. `TellsOfItsReport`: an open transaction tells of the report its replica has in hand, and once the standing call is told each
  holder of the two desks has a row in it, however the deliveries end; so report and rows are committed together or not at all. `DuesAreDue`: what is
  due was due when the replica looked, from the arithmetic of days and months (`DailyIsDue`, `MonthlyIsDue`): a period ends before the moment it is
  due at, and the day before a run after the first of a month is in the month of that run (`MonthIs`), which is what `ReportMonth` refutes for a run
  on the first. `StillWanted`: where nobody else makes it, a report that was missing when the replica asked is missing when it commits.
- **`TradeProofs`**, for any number of people, jobs, trades and replicas: `PurchaseIsWrittenOnce`, `FirstSaleIsKept`, `CoverageShows`;
  and for any ships, readings and thresholds `ShipTypes`, `OneReminderStays`, `VerdictsKnowTheBills`, `RegressionsAreFlagged`, `ChecksEndTheCount`.
  *Argument for the purchase.* `Owes` and `OneHolder`: only a request that holds the row of the sheet owes the contract, and a row has one holder, so
  contracts and requests about to make one together are at most one more than people asked for (`NotStacked`). `DrainKnows`: the line a drain
  found, wrote or stamped is still in the book, under its key, as lines are only added and their keys stand while nobody else edits. With one drain
  `OneLineKept`: the line it did not find is still missing when it writes.
  *Argument for the sale.* `SalesInv`: the leg of a trade is flushed by one session, which holds its row until it ends; so a second finds a leg and is
  refused. `ShownInv`, for one person at a time: what a session is about to record of its contract (`Current`) is the coverage of the legs as they
  will be, and a correction in the workspace is spread to all of the contract's trades. The sum itself is not unfolded: `OtherCoverage` says that the
  coverage of a contract depends on its own legs only, and that is all the argument needs.
  *Argument for the cargo.* `ShipInv`: the copies of a sweep and of a request are rows, what they make of a copy is noted as the code notes it (`Noted`:
  a check that is written begins its count anew, a stage that went back carries the flag), and a shipment that was loaded is open. What is written of
  a copy is a mixture of columns of two sessions, so the rest needs to know who else writes: with one sweep (`OneSweep`) a case about to be opened is
  missing (`OpensWhatIsMissing`); with one person (`OneDesk`) the bills a request judged by are the bills in hand when it commits (`VerdictInHand`),
  whatever sweeps run; with one writer (`OneWriter`) a copy is the row (`CopiesAreCurrent`), and what was noted of it is what happens to it. With
  two of them TLC refutes each (section 5).
- **`AccessProofs`**, five components and as many inductive invariants.
  *`SigningKeys`*: `WithdrawnKeysOpenNothing`, `UnknownKeysAreNew`. `ReadsAreRecent`: what is cached was published at a time at most
  one call before the read arrived, and is all that was. `SharedAtOnce`: those who share a read stand in front of the queue and go on before
  time does, so they are not older than it. `Dates` bounds the rest.
  *`MailboxToken`*: `TokensAreNotRefusedForAge`, `SecondAttemptSurvives`, for any number of calls. `InTime`: a token is given up
  a margin before it ends, which covers the request that brought it and the one that carries it. `Renewed`: as long as a token is asked for
  none is in hand, so the token that comes was given after every call began whose first attempt it is to replace. With one call at a time
  `TwoRefusalsAreTwoRevocations`, from `LoneCall`.
  *`MailReplies`*: `SaidSentIsSent`, `OneMessageIsSent`, `WithdrawnHasNotLeft`, together `RepliesStayHonest`. `OwnDrafts` and `RecordedWasSent`: a
  draft in the mailbox is of one reply, and whoever records a reply as sent has seen that draft accepted. One person whose process does not stop:
  `SentIsRemembered`, what has left is the draft the row names or the one request holds; no answer lost: `SentIsSaid`.
  *`MailboxWatch`*: `SubscriptionStays`, if failures are fewer than the ticks of the margin. `FaultsCostTurns`: each failed call or lost
  handle (`lapses`) costs the best subscription one turn of its margin at most.
  *`RoleMirror`*: `RolesWereGranted`, `ForeignRolesStay`, `ConfirmedRolesAreHeld`. `Granted`: whatever a token, a request, the row or an override holds of roles was
  at the provider before, and what is asked for once it was added. `MappingIsKnown`, for one administrator at a time: the mapping is what the override has made of it.

**How theorems and runs meet.** The properties of the hub, desk and queue runs are named in the theorems that state them. Those of `Trade` and `Platform` are
conjunctions over the instances of several modules, each under the part that runs it, so a theorem speaks of the component's formula and the run of its
instance: `RepliesAreHonest` is `RepliesStayHonest`, `DocumentsAreAccountedFor` `DocumentsAreKept`, `DeliveryIsOnRecord` `DeliveriesAreOnRecord`,
`HubRulesHold` `RulesHoldAlone`, `CoverageIsShown` `CoverageShows`, `PurchaseWritesOnce` `PurchaseIsWrittenOnce`; `NumberedOnce` is `MessageHasOneRequest`,
`RequestCodesAreUnique` and `TradeNumbersAreUnique`; `AccessIsTheProviders` the theorems on keys, tokens and roles; `FirstStatementStands`
`StatedNumbersStand`, `EstablishedFiguresStand`, `CopiesOpenNothing` and `FirstSaleIsKept`; `ReadingIsFaithful` `OriginalStays`, `SeenCorrectionStays` and
`DoubtsAreShown`; `CargoIsFollowed` `OneReminderStays`, `VerdictsKnowTheBills`, `RegressionsAreFlagged` and `ChecksEndTheCount`;
`ProjectionIsComplete` `ProjectionsAreComplete`; `ReportsAgree` `ReportsAgreeAlone`; `NothingIsLeftBehind` `SubscriptionStays`, `LinkSkipsNothing`, `RequestIsInHand` and `ReadingsEnd`. So of `Trade` every property is
stated by theorems.

**Only model-checked.** Liveness (`Progress`), which is out of the prover's reach, and the violations. Of `Platform`,
`ChecksAgree`, `ChecksDecide` and `FiguresAddUp`, which count and round over finite data: what a check computes is compared with a reference on both sides of
each rounding, and a proof would be one of arithmetic the provers do not find. `DeliveryIsOnRecord` is proved of `Notices`; of the rows `Reporting` writes through
it, whose events are its own, TLC checks it.

## 5. Known and without a run

*Of hub, desk and queue.* A decided trade that is validated again goes back to the desk, as `TERMINAL_STATUSES` name `approved`, which it has
already left (`DecidedIsNotDraggedBack`). A stale correction may land after a submission by somebody else (why `SignedAsValidated`
needs one preparer); a task may be left open on a trade that was dragged back; bulks may lock the same tasks in opposite orders; two administrators
may retry one job; two ageing cases may be opened for one approval by concurrent readers of the queue. A case about a document with no trade has no
evaluation to pass and cannot be resolved with a correction (`exception_service.py:307`).

*Of the intake.* A message whose capture raises is passed by the delta link and left to its webhook (`PollCatchesUp`). A correction made while a
re-extraction is reading is overwritten, if the reader looked at the row before (`HumanValueStands`; `document_service.py:157` says that a human decision
outranks a re-run). Request codes are compared as text, so `REQ-...-9999` stays above `-10000` and the next request of that day fails.

*Of the trade.* The Loading Sheet's row may be stamped for figures that changed while it was written (`SyncedDescribesBatch`), a generation queued before a
submission may add a draft the approver was not shown (`PacketIsFrozen`), and a second draft of a row may be made by a second trade of one batch
(`OneRowPerTrade`). A sale that opens its trade may go unacknowledged (`SaleIsAcknowledged`). Recording one of a bill's two fields writes a default
over the other (`api/v1/shipments.py:416`), although an omitted field is said to be left alone (`schemas/logistics.py:158`). With a sweep
*and* a person `RegressionIsFlagged` and `CheckEndsTheCount` fail, with two people `VerdictKnowsTheBill`, and with two replicas `OneReminder`. A sweep with a limit shorter than the list of carriers that never answer starves the rest.

*Of the office.* With a page of one row a rebuild stops at the first page of a table whose rows share a stamp, although the script says that it is
always safe (`RebuildIsExact` with `PageLimit` 1), and a sweep skips a row committed after a younger one. Nor is it safe when a table is
longer than a page (`GRAPH_SYNC_BATCH_SIZE`): the nine tables share one watermark, which a younger row of another table moves past the rest of the
long one (`graph_sync_worker.py:328`), so the first sweep of a worker leaves it out as well. `PagesHold` excludes this in the theorem. A browser that unsubscribes while it is being
pushed to rolls back the event, although delivery must not harm it (`DeliveryHarmsNothing`, `notification_service.py:31`); mail that left before a
rollback has left. Two distribution rules tell one person twice; two replicas make a report twice; a requested daily report keeps the scheduled one of
that day from being made; days on which no replica ran are not made up; beyond 500 aged rows the retention sweep starves. A tile shows 0 where the
comment says None, a slower computation overwrites a newer cache entry, the age shown counts from the storing, a trade approved twice is
counted twice.

*Outward.* An override of roles may stay half applied at the provider, although the route says "never a half-applied state"; an old token writes the old roles back
until the next sign-in. Two people, or one whose process stopped, may send one reply twice; "Nothing was sent" is false after a lost answer; such a
reply says failed for ever. A request that waits for a read of the signing keys which the provider answered before it published the
request's key is told that the provider does not publish it (`UnknownIsNotPublished` leaves that window open). With two calls at once one
revocation can refuse a call twice: its second token may be one that another call had been given before it.

The kinds of race behind them are listed under `hazards`, with the properties that bound their consequences.

## 6. Not modelled, and the plan

Every component without a module is listed in `PROJECT.json` with its reason: the audit trail is appended in the transaction of each event, storage is input
and output, administration is edits of single rows (those that race something are actions of the module they race), the frontend repeats no guard that the
service lacks, migrations are declarative. Of the modelled components these parts are left out: texts, templates, rendering and
layout; prompts and the parsing of a model's answers; reads and lists; the compiling of document packs; escalation of cases; `log_issue` and the timeline of a
shipment; leap years and a second territory's checklist; the sales side and the traversals of the graph; attempts within one mail; the emphasis of
a role on the dashboard; the claims of a token, re-bound identities, inactive accounts and rate limits.

What is left to do is proof: `SentOrOnRecord` of the transactions that `Reporting` runs through `Notices`, by an invariant of the kind of `Sincere`.
