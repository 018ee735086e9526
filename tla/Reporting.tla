------------------------------ MODULE Reporting ------------------------------
(***************************************************************************)
(* Reports: services/analytics/schedule.py on the tick of every replica's  *)
(* integration worker, report_service.py behind it and behind the tracked  *)
(* jobs of api/v1/reports.py, distribution.py, and the sweep of            *)
(* retention.py.  Telling people is Notices, in the report's transaction.  *)
(*                                                                         *)
(* The clock counts ticks; months are of one length.  Not modelled: the    *)
(* figures (KpiFigures), sections and rendering, the paragraph of the      *)
(* model (no outcome of it changes anything else), templates.              *)
(***************************************************************************)
EXTENDS Integers, FiniteSets, FiniteSetsExt, Sequences

CONSTANTS
    Replicas,
    People,             \* who ask for a report now
    Wishes,             \* what they may ask for: [type, period]
    DayLength, MonthLength,     \* in ticks, in days
    DailyAt, MonthlyAt,         \* ticks into the day
    MonthlyDay,                 \* days into the month
    LastTick,           \* bound
    MaxReports,         \* bound
    FirstRules,         \* of distribution: [name, type, roles, users, mail, active]
    Documents,          \* <<"document", number, the tick it came in>>
    RetentionDays, SweepLimit,
    Users, Roles, FirstAccounts, Admin, Hod,    \* of Notices
    MaxFaults

ReportAssumption ==
    /\ {DayLength, MonthLength, SweepLimit, MaxReports} \subseteq Nat \ {0}
    /\ DailyAt \in 0..DayLength - 1 /\ MonthlyAt \in 0..DayLength - 1
    /\ MonthlyDay \in 0..MonthLength - 1 /\ RetentionDays \in Nat
    /\ "schedule" \notin People

VARIABLES
    clock,
    report,     \* committed: [id, type, period, by, due: the moment it was due at, made]
    file,       \* ids whose file is stored
    rule,
    run,        \* per replica: [phase, dues, since, id]
    job,        \* per person: [status, wish, id]
    flagged,    \* what the retention sweep has put on the audit trail
    account, browser, notice, audit, sent, tx, faults, changes

noticeVars == <<account, browser, notice, audit, sent, tx, faults, changes>>
vars == <<clock, report, file, rule, run, job, flagged, noticeVars>>

Ids == 1..MaxReports
Browsers == {}
Post == INSTANCE Notices
    WITH Sessions <- Replicas, Events <- Ids, MaxChanges <- 0

-----------------------------------------------------------------------------
Day(t) == t \div DayLength
Month(t) == Day(t) \div MonthLength
DayPeriod(d) == <<DayLength * d, DayLength * (d + 1)>>
MonthPeriod(m) == <<DayLength * MonthLength * m, DayLength * MonthLength * (m + 1)>>

\* daily_due: the run that has come round last, and the day before it.
DailyDue ==
    LET today == DayLength * Day(clock) + DailyAt
        at == IF today > clock THEN today - DayLength ELSE today
    IN  [type |-> "daily", period |-> DayPeriod(Day(at) - 1)]

\* monthly_due: the run that has come round last, and the month before the day
\* before it.
MonthlyDue ==
    LET start == DayLength * MonthLength
        this == start * Month(clock) + DayLength * MonthlyDay + MonthlyAt
        at == IF this > clock THEN this - start ELSE this
    IN  [type |-> "monthly", period |-> MonthPeriod(Month(at - DayLength) - 1)]

\* The months a deployment has seen: none is asked for before its first day.
Seen(due) == IF due.period[1] >= 0 THEN <<due>> ELSE <<>>
Dues == Seen(DailyDue) \o Seen(MonthlyDue)

NextId == 1 + Cardinality(file)

\* already_generated: any report of that type over that period, whoever asked.
Covered(due) == \E r \in report : r.type = due.type /\ r.period = due.period

New(id, wish, by, due) ==
    [id |-> id, type |-> wish.type, period |-> wish.period, by |-> by, due |-> due, made |-> clock]

Standing == Post!CallOf([kinds |-> {"report.ready"}], "report.ready")
CallOf(r) == [name |-> r.name, users |-> r.users, roles |-> r.roles, exclude |-> {}, mail |-> r.mail]

-----------------------------------------------------------------------------
Idle == [phase |-> "idle", dues |-> <<>>, since |-> 0, id |-> 0]

\* run_due: what is due at this moment.
Begin(r) ==
    /\ run[r].phase = "idle"
    /\ \E due \in {Dues[i] : i \in DOMAIN Dues} : ~Covered(due)
    /\ run' = [run EXCEPT ![r] = [Idle EXCEPT !.phase = "asking", !.dues = Dues, !.since = clock]]
    /\ UNCHANGED <<clock, report, file, rule, job, flagged, noticeVars>>

Asked(r, phase) == [run EXCEPT ![r].phase = phase]
Passed(r) == [run EXCEPT ![r] = [run[r] EXCEPT !.phase = "asking", !.dues = Tail(@), !.id = 0]]

Ask(r) ==
    /\ run[r].phase = "asking" /\ run[r].dues # <<>>
    /\ run' = IF Covered(Head(run[r].dues)) THEN Passed(r) ELSE Asked(r, "making")
    /\ UNCHANGED <<clock, report, file, rule, job, flagged, noticeVars>>

Finish(r) ==
    /\ run[r].phase = "asking" /\ run[r].dues = <<>>
    /\ run' = [run EXCEPT ![r] = Idle]
    /\ UNCHANGED <<clock, report, file, rule, job, flagged, noticeVars>>

\* Slip: the report is committed before anybody is told.
MadeAtOnce(r) == report' = report \cup {New(NextId, Head(run[r].dues), "schedule", run[r].since)}

Made(r) == UNCHANGED report

\* generate: the file is stored before the row is flushed; then the standing notice.
Make(r) ==
    /\ run[r].phase = "making" /\ NextId \in Ids
    /\ file' = file \cup {NextId}
    /\ run' = [run EXCEPT ![r] = [run[r] EXCEPT !.phase = "made", !.id = NextId]]
    /\ Made(r)
    /\ Post!Open(r, NextId, Standing)
    /\ UNCHANGED <<clock, rule, job, flagged>>

\* distribute: a call for every active rule of the type.
Distribute(r) ==
    /\ run[r].phase = "made" /\ tx[r].phase = "open" /\ Post!Told(r)
    /\ run' = Asked(r, "distributed")
    /\ tx' = [tx EXCEPT ![r].calls =
           {CallOf(x) : x \in {y \in rule : y.active /\ y.type = Head(run[r].dues).type}}]
    /\ UNCHANGED <<clock, report, file, rule, job, flagged>>
    /\ UNCHANGED <<account, browser, notice, audit, sent, faults, changes>>

Tell(r) ==
    /\ (\E call \in tx[r].calls : Post!Tell(r, call)) \/ Post!Deliver(r)
    /\ UNCHANGED <<clock, report, file, rule, run, job, flagged>>

Commit(r) ==
    /\ run[r].phase = "distributed" /\ Post!Commit(r)
    /\ report' = report \cup {New(run[r].id, Head(run[r].dues), "schedule", run[r].since)}
    /\ run' = Passed(r)
    /\ UNCHANGED <<clock, file, rule, job, flagged>>

\* The rollback of one report; the loop goes on to the other.
Fail(r) ==
    /\ run[r].phase \in {"made", "distributed"} /\ Post!Undo(r)
    /\ run' = Passed(r)
    /\ UNCHANGED <<clock, report, file, rule, job, flagged>>

\* The replica stops and is started again.
Restart(r) ==
    /\ run[r].phase # "idle" /\ Post!Fault
    /\ run' = [run EXCEPT ![r] = Idle]
    /\ tx' = [tx EXCEPT ![r] = Post!Closed]
    /\ UNCHANGED <<clock, report, file, rule, job, flagged, account, browser, notice, audit, sent, changes>>

-----------------------------------------------------------------------------
NoJob == [status |-> "none", wish |-> "none", id |-> 0]

\* create_report, queue_generation: the job is committed before its task starts.
Request(p, wish) ==
    /\ job[p].status \in {"none", "completed", "failed"}
    /\ job' = [job EXCEPT ![p] = [status |-> "queued", wish |-> wish, id |-> 0]]
    /\ UNCHANGED <<clock, report, file, rule, run, flagged, noticeVars>>

\* _run: the progress is committed; then the file is stored.
RunJob(p) ==
    /\ job[p].status = "queued" /\ NextId \in Ids
    /\ file' = file \cup {NextId}
    /\ job' = [job EXCEPT ![p] = [job[p] EXCEPT !.status = "processing", !.id = NextId]]
    /\ UNCHANGED <<clock, report, rule, run, flagged, noticeVars>>

Completed(p) == report' = report \cup {New(job[p].id, job[p].wish, p, clock)}

CompleteJob(p) ==
    /\ job[p].status = "processing"
    /\ Completed(p)
    /\ job' = [job EXCEPT ![p].status = "completed"]
    /\ UNCHANGED <<clock, file, rule, run, flagged, noticeVars>>

\* The rollback, and _record_failure in a session of its own.
FailJob(p) ==
    /\ job[p].status \in {"queued", "processing"} /\ Post!Fault
    /\ job' = [job EXCEPT ![p].status = "failed"]
    /\ UNCHANGED <<clock, report, file, rule, run, flagged, account, browser, notice, audit, sent, tx, changes>>

-----------------------------------------------------------------------------
PastThePeriod(x) == x[3] + DayLength * RetentionDays < clock

\* The oldest documents and reports past the period, up to the limit of each.
Oldest(items) ==
    LET aged == {x \in items : PastThePeriod(x)}
    IN  {x \in aged : Cardinality({y \in aged : y[3] < x[3]}) < SweepLimit}

\* retention.run_due: an audit row for each; nothing is marked, nothing deleted.
Retain(r) ==
    LET found == Oldest(Documents) \cup Oldest({<<"report", x.id, x.made>> : x \in report})
    IN  /\ ~(found \subseteq flagged)
        /\ flagged' = flagged \cup found
        /\ UNCHANGED <<clock, report, file, rule, run, job, noticeVars>>

\* An administrator switches a rule on or off.
UpdateRule(x) ==
    /\ changes < 1 /\ changes' = changes + 1
    /\ rule' = (rule \ {x}) \cup {[x EXCEPT !.active = ~@]}
    /\ UNCHANGED <<clock, report, file, run, job, flagged>>
    /\ UNCHANGED <<account, browser, notice, audit, sent, tx, faults>>

Tick ==
    /\ clock < LastTick /\ clock' = clock + 1
    /\ UNCHANGED <<report, file, rule, run, job, flagged, noticeVars>>

Init ==
    /\ Post!Init
    /\ clock = DayLength * MonthLength * 2 - 1
    /\ report = {} /\ file = {} /\ flagged = {} /\ rule = FirstRules
    /\ run = [r \in Replicas |-> Idle]
    /\ job = [p \in People |-> NoJob]

Work(r) ==
    Begin(r) \/ Ask(r) \/ Finish(r) \/ Make(r) \/ Distribute(r) \/ Tell(r) \/ Commit(r) \/ Fail(r)

Next ==
    \/ \E r \in Replicas : Work(r) \/ Restart(r) \/ Retain(r)
    \/ \E p \in People : RunJob(p) \/ CompleteJob(p) \/ FailJob(p) \/ \E w \in Wishes : Request(p, w)
    \/ \E x \in rule : UpdateRule(x)
    \/ Tick

Spec == Init /\ [][Next]_vars

-----------------------------------------------------------------------------
Scheduled == {r \in report : r.by = "schedule"}

TypeOK ==
    /\ clock \in 0..LastTick /\ file \subseteq Ids
    /\ \A r \in report : r.id \in Ids /\ r.type \in {"daily", "monthly", "ad_hoc"}
    /\ \A r, o \in report : r.id = o.id => r = o
    /\ \A r \in Replicas : run[r].phase \in {"idle", "asking", "making", "made", "distributed"}
    /\ \A p \in People : job[p].status \in {"none", "queued", "processing", "completed", "failed"}

\* A scheduled report and the standing notice of it are committed together: no
\* notice leads to a report that is not there, whatever failed on the way.
ReportAndNoticeAgree ==
    /\ \A n \in notice : \E r \in Scheduled : r.id = n.event
    /\ \A r \in Scheduled, u \in Post!Holders({Admin, Hod}) :
           \E n \in notice : n.event = r.id /\ n.user = u

\* A job that is done has its report, one that failed has none, and a report
\* has its file.
JobSaysWhatHappened ==
    /\ \A p \in People : job[p].id # 0 =>
           (job[p].status = "completed" <=> \E r \in report : r.id = job[p].id)
    /\ \A r \in report : r.id \in file

\* A period has one scheduled report.
OneReportPerPeriod ==
    \A r, o \in Scheduled : r.type = o.type /\ r.period = o.period => r = o

\* A scheduled report is complete: its period was over when it was made.
PeriodIsOver == \A r \in Scheduled : r.period[2] <= r.due

\* The monthly report covers the month that has just ended.
MonthlyCoversTheMonthThatEnded ==
    \A r \in Scheduled : r.type = "monthly" =>
        LET began == Month(r.due - DayLength * MonthlyDay - MonthlyAt)
        IN  r.period = MonthPeriod(began - 1)

\* The report of the last day that is due is made.
LastReportIsMade ==
    (clock = LastTick) ~> (\E r \in report : r.type = "daily" /\ r.period = DailyDue.period)

\* What has aged past the period is put on the trail.
AgedIsFlagged ==
    \A d \in Documents : (clock = LastTick /\ clock - d[3] > DayLength * RetentionDays) ~> (d \in flagged)

-----------------------------------------------------------------------------
(* Why: what a replica and a person have in hand.                          *)

DueRow == [type : {"daily", "monthly"}, period : Int \X Int]
RunRow ==
    [phase : {"idle", "asking", "making", "made", "distributed"}, dues : Seq(DueRow), since : Int,
     id : Nat]
IsJob(j) ==
    /\ DOMAIN j = {"status", "wish", "id"} /\ j.id \in Nat
    /\ j.status \in {"none", "queued", "processing", "completed", "failed"}
Fields ==
    /\ run \in [Replicas -> RunRow]
    /\ DOMAIN job = People /\ \A p \in People : IsJob(job[p])
    /\ clock \in Nat /\ IsFiniteSet(file) /\ file = 1..Cardinality(file)

\* A report a replica has made and not committed.
InHand(q) == run[q].phase \in {"made", "distributed"}

\* A file is of one report, in the hands of one replica, of one person or on record.
OwnFiles ==
    /\ \A r \in report : r.id \in file
    /\ \A r, o \in report : r.id = o.id => r = o
    /\ \A q \in Replicas : InHand(q) => run[q].id \in file /\ \A r \in report : r.id # run[q].id
    /\ \A q, o \in Replicas : q # o /\ InHand(q) /\ InHand(o) => run[q].id # run[o].id
    /\ \A p \in People : \A q \in Replicas : InHand(q) => run[q].id # job[p].id
    /\ \A p, o \in People : p # o /\ job[p].id # 0 => job[p].id # job[o].id
    /\ \A p \in People :
           /\ job[p].id = 0 \/ job[p].id \in file
           /\ job[p].status = "processing" => job[p].id # 0
           /\ job[p].status = "queued" => job[p].id = 0

\* The transaction of a report tells of it, first of all to the standing desks.
RowColumns == {"event", "call", "user", "read", "mailed", "pushed", "wants"}
TellsOf(q, t) ==
    /\ t.event = run[q].id
    /\ \A n \in t.rows : DOMAIN n = RowColumns /\ n.event = run[q].id
    /\ t.todo \subseteq {Post!KeyOf(n) : n \in t.rows}
    /\ run[q].phase = "made" => t.calls \subseteq Standing
    /\ run[q].phase = "distributed" \/ t.calls = {} =>
           \A u \in Post!Holders({Admin, Hod}) : \E n \in t.rows : n.user = u

TellsOfItsReport ==
    /\ DOMAIN tx = Replicas /\ browser = {}
    /\ \A q \in Replicas :
           /\ DOMAIN tx[q] = DOMAIN Post!Closed /\ tx[q].subs = {}
           /\ tx[q].phase = (IF InHand(q) THEN "open" ELSE "closed")
           /\ InHand(q) => TellsOf(q, tx[q])

\* What is due was due at the moment the replica looked.
IsDue(due, at) ==
    /\ due.period[2] <= at
    /\ MonthlyDay > 0 /\ due.type = "monthly" =>
           due.period = MonthPeriod(Month(at - DayLength * MonthlyDay - MonthlyAt) - 1)
DuesAreDue ==
    /\ \A q \in Replicas : \A i \in 1..Len(run[q].dues) : IsDue(run[q].dues[i], run[q].since)
    /\ \A q \in Replicas :
           run[q].phase \in {"making", "made", "distributed"} => run[q].dues # <<>>
    /\ \A r \in Scheduled : IsDue(r, r.due)

ReportInv ==
    Fields /\ OwnFiles /\ TellsOfItsReport /\ DuesAreDue /\ ReportAndNoticeAgree
    /\ JobSaysWhatHappened

\* With one replica nobody else makes what it is about to make.
OneReplica == \A q, o \in Replicas : q = o
StillWanted ==
    \A q \in Replicas : run[q].phase \in {"making", "made", "distributed"} =>
        \A r \in Scheduled : ~(r.type = Head(run[q].dues).type /\ r.period = Head(run[q].dues).period)

\* What the reports promise together, where one replica makes them.
ReportsAgree ==
    /\ ReportAndNoticeAgree /\ JobSaysWhatHappened /\ OneReportPerPeriod /\ PeriodIsOver
    /\ MonthlyDay > 0 => MonthlyCoversTheMonthThatEnded
=============================================================================
