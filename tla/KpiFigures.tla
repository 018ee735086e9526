------------------------------ MODULE KpiFigures ------------------------------
(***************************************************************************)
(* The figures of the dashboard, of the analytics page and of a report:    *)
(* every one a count over the governed tables under the scope of the       *)
(* account that asks, one query after the other while the tables go on     *)
(* changing, and kept by the process for a short while                     *)
(* (backend/app/services/analytics/kpis.py, scope.py, cache.py,            *)
(* report_service.py and backend/app/api/v1/dashboards.py).                *)
(***************************************************************************)
EXTENDS Integers, FiniteSets, Sequences, FiniteSetsExt, Functions

CONSTANTS
    Accounts, RolesOf,
    Schedule,      \* who asks for the scheduled reports: no account at all
    Streams, StreamsOfRole,
    Categories, DesksOf, Oversight,
    Trades, StreamOf, RequestedAt,
    Cases, CaseOf, \* the trade, or Absent, and the category of a case
    Tasks, TaskOf,
    Fields, FieldOf,
    FirstBook,
    Asks,          \* what is asked for: the screen, a stream or "both", and days or Absent
    Bucket,        \* the width of a bucket of a series
    DefaultDays, MaxRange, StaleAfter, DetailLimit,
    Young, Old,    \* the two ages the bands are cut at: 24 and 72 hours
    Ttl, MaxEntries,
    Absent,
    LastMoment, MaxChanges   \* bounds

KpiConstants ==
    /\ Ttl \in Nat /\ MaxEntries \in Nat \ {0} /\ Bucket \in Nat \ {0}
    /\ 0 < Young /\ Young < Old /\ 0 < DefaultDays /\ DefaultDays <= MaxRange

Reportable == {"validation_pending", "approval_pending", "rejected", "approved", "committed"}
ApprovedOrLater == {"approved", "integration_pending", "committed"}

VARIABLES
    now, book,
    cache,     \* the entries, the one used longest ago first
    asking, shown,
    changes

vars == <<now, book, cache, asking, shown, changes>>

Idle == [ask |-> Absent, scope |-> Absent, moment |-> 0, window |-> Absent, got |-> <<>>, version |-> 0]
Nothing == [figures |-> Absent, ask |-> Absent, stored |-> 0, at |-> 0, version |-> Absent, moment |-> 0]

Init ==
    /\ now = 0
    /\ book = FirstBook
    /\ cache = <<>>
    /\ asking = [a \in Accounts |-> Idle]
    /\ shown = [a \in Accounts |-> Nothing]
    /\ changes = 0

-----------------------------------------------------------------------------
(* What an account may count.                                              *)

\* The scope of a report nobody asked for: everything.
SystemScope == [streams |-> Streams, categories |-> Categories, crossing |-> TRUE, explicit |-> FALSE]

ScopeOf(a) ==
    IF a = Schedule THEN SystemScope
    ELSE [streams    |-> UNION {StreamsOfRole[r] : r \in RolesOf[a]},
          categories |-> IF RolesOf[a] \cap Oversight # {} THEN Categories
                         ELSE {c \in Categories : DesksOf[c] \cap RolesOf[a] # {}},
          crossing   |-> RolesOf[a] \cap Oversight # {},
          explicit   |-> FALSE]

Narrowed(scope, stream) ==
    IF stream = "both" THEN scope
    ELSE [scope EXCEPT !.streams = @ \cap {stream}, !.explicit = TRUE]

\* Slip: accounts of the same streams share their entries.
KeyWithoutCategories(screen, scope, stream, window) ==
    <<screen, scope.streams, scope.crossing, scope.explicit, stream, window>>

\* The summary is kept by scope and stream, the trends by their window as well.
Key(screen, scope, stream, window) ==
    <<screen, scope.streams, scope.categories, scope.crossing, scope.explicit, stream,
      IF screen = "summary" THEN Absent ELSE window>>

Sees(scope, t) == StreamOf[t] \in scope.streams

\* A case of no trade is in no stream: it is counted until a stream is asked for.
Works(scope, c) ==
    /\ scope.streams # {}
    /\ CaseOf[c].category \in scope.categories
    /\ IF CaseOf[c].on = Absent THEN ~scope.explicit ELSE Sees(scope, CaseOf[c].on)

Reads(scope, f) ==
    /\ scope.streams # {}
    /\ IF FieldOf[f].stream = Absent THEN ~scope.explicit ELSE FieldOf[f].stream \in scope.streams

-----------------------------------------------------------------------------
(* The queries.                                                            *)

Within(m, window) == window.start <= m /\ m < window.end

\* transaction_status_counts: over all time for the summary, else by when opened.
Statuses(scope, window) ==
    [s \in Reportable |-> Cardinality({t \in Trades :
        Sees(scope, t) /\ book.status[t] = s
        /\ (window = Absent \/ Within(RequestedAt[t], window))})]

\* The ages of open cases, against the clock of the query.
Bands(open, m) ==
    [young  |-> Cardinality({c \in open : book.opened[c] >= m - Young}),
     middle |-> Cardinality({c \in open : book.opened[c] < m - Young /\ book.opened[c] >= m - Old}),
     old    |-> Cardinality({c \in open : book.opened[c] < m - Old})]

IsOpen(c) == book.opened[c] # Absent /\ c \notin book.resolved

OpenCases(scope, m) ==
    [k \in scope.categories |->
        LET open == {c \in Cases : IsOpen(c) /\ CaseOf[c].category = k /\ Works(scope, c)}
        IN [open |-> Cardinality(open), bands |-> Bands(open, m)]]

Queue(scope) ==
    Cardinality({k \in Tasks : book.decided[k].decision = "pending" /\ Sees(scope, TaskOf[k])})

DecidedIn(scope, window, decision) ==
    {k \in Tasks : /\ book.decided[k].decision = decision
                   /\ Within(book.decided[k].at, window)
                   /\ Sees(scope, TaskOf[k])}

Decisions(scope, window) ==
    [d \in {"approved", "rejected", "changes_requested"} |-> Cardinality(DecidedIn(scope, window, d))]

\* integration_counts: what failed and what waits on a person are two figures.
Postings(scope) ==
    [s \in {"queued", "succeeded", "failed", "awaiting_manual_action"} |->
        Cardinality({t \in Trades : Sees(scope, t) /\ book.posting[t] = s})]

\* shipment_summary: a shipment never checked is as stale as one checked long ago.
StaleCargo(scope, m) ==
    Cardinality({t \in Trades : Sees(scope, t)
        /\ (book.checked[t] = Absent \/ book.checked[t] < m - StaleAfter)})

\* Absent, not zero, when there is nothing to divide.
Percentage(part, whole) == IF whole = 0 THEN Absent ELSE (part * 10000) \div whole

Reading(scope, window) ==
    LET fields == {f \in Fields : Reads(scope, f) /\ Within(FieldOf[f].at, window)}
        changed == fields \cap book.overridden
    IN [read |-> Cardinality(fields), overridden |-> Cardinality(changed),
        untouched |-> Percentage(Cardinality(fields \ changed), Cardinality(fields))]

\* approved_rows: the approvals of the window, each with its trade's two facts.
Approvals(scope, window) ==
    {[task |-> k, at |-> book.decided[k].at,
      hours |-> Max({0, book.decided[k].at - RequestedAt[TaskOf[k]]}),
      hadCase |-> \E c \in Cases : CaseOf[c].on = TaskOf[k] /\ book.opened[c] # Absent] :
        k \in DecidedIn(scope, window, "approved")}

Turnaround(rows) ==
    [sample  |-> Cardinality(rows),
     fastest |-> IF rows = {} THEN Absent ELSE Min({r.hours : r \in rows}),
     slowest |-> IF rows = {} THEN Absent ELSE Max({r.hours : r \in rows})]

Automation(rows) ==
    LET free == Cardinality({r \in rows : ~r.hadCase})
    IN [approved |-> Cardinality(rows), free |-> free,
        intervened |-> Cardinality(rows) - free, rate |-> Percentage(free, Cardinality(rows))]

Floor(m) == m - (m % Bucket)
BucketOf(rows, c) == Automation({r \in rows : c <= r.at /\ r.at < c + Bucket})

\* bucket_series: from the bucket the window starts in to the one it ends in.
Series(rows, window) ==
    [c \in {c \in Floor(window.start)..window.end - 1 : c % Bucket = 0} |-> BucketOf(rows, c)]

\* Turnaround, automation and the series come from one query's rows.
Approved(scope, window) ==
    LET rows == Approvals(scope, window)
    IN [turnaround |-> Turnaround(rows), automation |-> Automation(rows),
        series |-> Series(rows, window)]

\* The trades of a report, up to a limit that is told.
Detail(scope, window) ==
    LET total == Cardinality({t \in Trades : Sees(scope, t) /\ Within(RequestedAt[t], window)})
    IN [total |-> total, rows |-> Min({total, DetailLimit}), truncated |-> total > DetailLimit]

Answer(screen, query, scope, m, window) ==
    CASE query = "statuses"  -> Statuses(scope, IF screen = "summary" THEN Absent ELSE window)
      [] query = "cases"     -> OpenCases(scope, m)
      [] query = "queue"     -> Queue(scope)
      [] query = "decisions" -> Decisions(scope, window)
      [] query = "postings"  -> Postings(scope)
      [] query = "cargo"     -> StaleCargo(scope, m)
      [] query = "reading"   -> Reading(scope, window)
      [] query = "approved"  -> Approved(scope, window)
      [] query = "detail"    -> Detail(scope, window)

\* build_summary, build_kpis and assemble, in the order they ask.
Queries(screen) ==
    CASE screen = "summary" ->
            <<"statuses", "cases", "queue", "postings", "cargo", "approved", "reading">>
      [] screen = "trends" -> <<"approved", "reading", "statuses", "decisions">>
      [] screen = "report" ->
            <<"statuses", "cases", "queue", "decisions", "postings", "cargo", "reading",
              "approved", "detail">>

-----------------------------------------------------------------------------
(* What is served.                                                         *)

Total(f) == FoldFunction(+, 0, f)
Each(field, f) == [x \in DOMAIN f |-> f[x][field]]
Open(cases) == Total(Each("open", cases))
InBand(band, cases) == Total([k \in DOMAIN cases |-> cases[k].bands[band]])
InFlight(statuses) == Total([s \in Reportable \ ApprovedOrLater |-> statuses[s]])

\* A tile has a number even where there is nothing to measure, a report a gap.
Tile(screen, figure) == IF screen = "summary" /\ figure = Absent THEN 0 ELSE figure

Headline(screen, got) ==
    [inFlight   |-> InFlight(got["statuses"]),
     openCases  |-> Open(got["cases"]),
     over72     |-> InBand("old", got["cases"]),
     queue      |-> got["queue"],
     failed     |-> got["postings"]["failed"],
     waiting    |-> got["postings"]["awaiting_manual_action"],
     stale      |-> got["cargo"],
     untouched  |-> Tile(screen, got["reading"].untouched),
     automation |-> Tile(screen, got["approved"].automation.rate)]

\* The printed trend leaves out the buckets in which nothing was approved.
Printed(series) == Restrict(series, {c \in DOMAIN series : series[c].approved > 0})

Payload(screen, got) ==
    CASE screen = "summary" -> [headline |-> Headline(screen, got), answers |-> got]
      [] screen = "trends"  -> [answers |-> got]
      [] screen = "report"  -> [headline |-> Headline(screen, got),
                                answers  |-> [got EXCEPT !["approved"].series = Printed(@)]]

-----------------------------------------------------------------------------
(* A request.                                                              *)

\* _window: the days asked for, put right where they are empty or too many.
Window(ask) ==
    LET end == IF ask.to = Absent THEN now ELSE ask.to
        start == IF ask.from = Absent THEN end - DefaultDays ELSE ask.from
        begun == IF end <= start THEN end - DefaultDays ELSE start
    IN [start |-> IF end - begun > MaxRange THEN end - MaxRange ELSE begun, end |-> end]

Without(key) == SelectSeq(cache, LAMBDA e : e.key # key)
EntryOf(key) == {i \in DOMAIN cache : cache[i].key = key}

\* get: an entry expires on the read that finds it.
Fresh(entry) == now < entry.expires

\* A fresh entry is served as it is and counts as used just now.
Hit(a, ask) ==
    LET scope == Narrowed(ScopeOf(a), ask.stream)
        key == Key(ask.screen, scope, ask.stream, Window(ask))
    IN /\ asking[a] = Idle /\ a # Schedule /\ ask.screen # "report"
       /\ \E i \in EntryOf(key) :
            /\ Fresh(cache[i])
            /\ cache' = Append(Without(key), cache[i])
            /\ shown' = [shown EXCEPT ![a] =
                 [figures |-> cache[i].figures, ask |-> ask, stored |-> cache[i].stored, at |-> now,
                  version |-> cache[i].version, moment |-> cache[i].moment]]
       /\ UNCHANGED <<now, book, asking, changes>>

\* Otherwise the figures are computed, as of the moment they are asked for.
Begin(a, ask) ==
    LET scope == Narrowed(ScopeOf(a), ask.stream)
        key == Key(ask.screen, scope, ask.stream, Window(ask))
    IN /\ asking[a] = Idle
       /\ a = Schedule => ask.screen = "report"
       /\ \/ ask.screen = "report" /\ UNCHANGED cache
          \/ /\ ask.screen # "report"
             /\ \A i \in EntryOf(key) : ~Fresh(cache[i])
             /\ cache' = Without(key)
       /\ asking' = [asking EXCEPT ![a] =
            [ask |-> ask, scope |-> scope, moment |-> now, window |-> Window(ask), got |-> <<>>,
             version |-> changes]]
       /\ UNCHANGED <<now, book, shown, changes>>

Remaining(r) == Len(Queries(r.ask.screen)) - Cardinality(DOMAIN r.got)

\* The next query of a request, each of which sees what is stored by then.
Query(a) ==
    /\ asking[a] # Idle
    /\ LET r == asking[a]
           query == Queries(r.ask.screen)[Cardinality(DOMAIN r.got) + 1]
       IN /\ Remaining(r) > 0
          /\ asking' = [asking EXCEPT ![a].got =
               [q \in DOMAIN @ \cup {query} |->
                   IF q = query THEN Answer(r.ask.screen, q, r.scope, r.moment, r.window) ELSE @[q]]]
    /\ UNCHANGED <<now, book, cache, shown, changes>>

\* set: the entry takes the place of any other of its key, and the entries used
\* longest ago make room.
Stored(entry) ==
    LET all == Append(Without(entry.key), entry)
    IN SubSeq(all, Max({1, Len(all) - MaxEntries + 1}), Len(all))

Serve(a) ==
    /\ asking[a] # Idle
    /\ LET r == asking[a]
           figures == Payload(r.ask.screen, r.got)
       IN /\ Remaining(r) = 0
          /\ shown' = [shown EXCEPT ![a] =
               [figures |-> figures, ask |-> r.ask, stored |-> now, at |-> now,
                version |-> IF r.version = changes THEN changes ELSE Absent, moment |-> r.moment]]
          /\ cache' = IF r.ask.screen = "report" THEN cache
                      ELSE Stored([key     |-> Key(r.ask.screen, r.scope, r.ask.stream, r.window),
                                   figures |-> figures, expires |-> now + Ttl, stored |-> now,
                                   version |-> IF r.version = changes THEN changes ELSE Absent,
                                   moment  |-> r.moment])
    /\ asking' = [asking EXCEPT ![a] = Idle]
    /\ UNCHANGED <<now, book, changes>>

\* The process is replaced: its requests and its cache are gone.
Restart ==
    /\ cache # <<>>
    /\ cache' = <<>>
    /\ asking' = [a \in Accounts |-> Idle]
    /\ UNCHANGED <<now, book, shown, changes>>

-----------------------------------------------------------------------------
(* What goes on meanwhile.                                                 *)

Changed(b) ==
    /\ changes < MaxChanges /\ changes' = changes + 1
    /\ book' = b
    /\ UNCHANGED <<now, cache, asking, shown>>

OpenCase(c) == book.opened[c] = Absent /\ Changed([book EXCEPT !.opened[c] = now])
ResolveCase(c) == IsOpen(c) /\ Changed([book EXCEPT !.resolved = @ \cup {c}])

Decide(k, decision) ==
    /\ book.decided[k].decision = "pending"
    /\ Changed([book EXCEPT
         !.decided[k] = [decision |-> decision, at |-> now],
         !.status[TaskOf[k]] = IF decision = "changes_requested" THEN "validation_pending"
                               ELSE decision])

Override(f) == f \notin book.overridden /\ Changed([book EXCEPT !.overridden = @ \cup {f}])

Business ==
    \/ \E c \in Cases : OpenCase(c) \/ ResolveCase(c)
    \/ \E k \in Tasks, d \in {"approved", "rejected", "changes_requested"} : Decide(k, d)
    \/ \E f \in Fields : Override(f)

Tick == now < LastMoment /\ now' = now + 1 /\ UNCHANGED <<book, cache, asking, shown, changes>>

Next ==
    \/ \E a \in Accounts : (\E ask \in Asks : Hit(a, ask) \/ Begin(a, ask)) \/ Query(a) \/ Serve(a)
    \/ Business \/ Restart \/ Tick

Spec == Init /\ [][Next]_vars

-----------------------------------------------------------------------------
TypeOK ==
    /\ now \in 0..LastMoment
    /\ book.status \in [Trades -> Reportable]
    /\ book.opened \in [Cases -> {Absent} \cup Int]
    /\ book.resolved \subseteq Cases /\ book.overridden \subseteq Fields
    /\ Len(cache) <= MaxEntries
    /\ \A i, j \in DOMAIN cache : cache[i].key = cache[j].key => i = j
    /\ DOMAIN asking = Accounts /\ DOMAIN shown = Accounts
    /\ changes \in 0..MaxChanges

-----------------------------------------------------------------------------
\* Nobody is shown figures counted under another's eyes: however the cache is
\* shared, a summary of a store that stood still meanwhile has exactly the
\* trades, tasks and cases the roles of its reader reach.
ShownIsOnesOwn ==
    \A a \in Accounts :
        LET s == shown[a]
            roles == RolesOf[a]
            streams == UNION {StreamsOfRole[r] : r \in roles}
                        \cap (IF s.ask.stream = "both" THEN Streams ELSE {s.ask.stream})
            worked == {c \in Cases :
                /\ streams # {} /\ IsOpen(c)
                /\ roles \cap (DesksOf[CaseOf[c].category] \cup Oversight) # {}
                /\ IF CaseOf[c].on = Absent THEN s.ask.stream = "both"
                   ELSE StreamOf[CaseOf[c].on] \in streams}
        IN s # Nothing /\ s.ask.screen = "summary" /\ s.version = changes =>
             /\ s.figures.headline.openCases = Cardinality(worked)
             /\ s.figures.headline.over72 =
                  Cardinality({c \in worked : s.moment - book.opened[c] > Old})
             /\ Total(s.figures.answers["statuses"]) =
                  Cardinality({t \in Trades : StreamOf[t] \in streams})

\* Every approval a screen or a report counts is in exactly one bucket of its
\* series and in its turnaround, whatever is decided between its queries.
EveryApprovalIsCounted ==
    \A a \in Accounts :
        shown[a] # Nothing =>
            LET approved == shown[a].figures.answers["approved"]
            IN /\ Total(Each("approved", approved.series)) = approved.automation.approved
               /\ Total(Each("free", approved.series)) = approved.automation.free
               /\ approved.turnaround.sample = approved.automation.approved

\* Nothing is served from the cache once its time is up.
NotPastItsTime ==
    \A a \in Accounts : shown[a].at # shown[a].stored => shown[a].at - shown[a].stored < Ttl

\* The streams, with the cases of no trade, make up the whole of what an account
\* may see, the ages make up its open cases, and a scheduled report misses none.
PartsMakeTheWhole ==
    \A a \in Accounts \cup {Schedule} :
        LET whole == ScopeOf(a)
            part(st) == Narrowed(whole, st)
            loose == {c \in Cases : IsOpen(c) /\ CaseOf[c].on = Absent /\ Works(whole, c)}
            cases == OpenCases(whole, now)
        IN /\ Open(cases) = Cardinality(loose) + Total([st \in Streams |-> Open(OpenCases(part(st), now))])
           /\ Open(cases) = InBand("young", cases) + InBand("middle", cases) + InBand("old", cases)
           /\ Queue(whole) = Total([st \in Streams |-> Queue(part(st))])
           /\ a = Schedule => Open(cases) = Cardinality({c \in Cases : IsOpen(c)})
=============================================================================
