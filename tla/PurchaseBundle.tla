----------------------------- MODULE PurchaseBundle -----------------------------
(***************************************************************************)
(* What the confirmation of a purchase sets off: the drafts of a complete  *)
(* bundle and the batch's line in the Loading Sheet, held in a table and   *)
(* written into the tracker workbook by the periodic worker of each        *)
(* replica (backend/app/services/purchase_completion.py, purchase_intake,  *)
(* draft_service, integration/loading_sheet, graph_service).               *)
(*                                                                         *)
(* One trade.  A request takes the row of the sheet with its first flush   *)
(* and gives it back with the commit of the first job it queues, so the    *)
(* sheet's row is what keeps two confirmations apart.                      *)
(***************************************************************************)
EXTENDS Integers, Sequences, FiniteSetsExt

CONSTANTS
    Items,         \* PURCHASE_BUNDLE_ITEMS
    Strays,        \* paperwork a purchase never carries
    DraftKinds,    \* how many PURCHASE_GENERATED_DOCUMENT_TYPES, the contract first
    Numbers,       \* the batch numbers it has in turn: it may adopt a stated one
    People, Drains,          \* those who confirm, and the replicas' drains
    MaxFigures, MaxJobs, MaxFaults, MaxManual, Edits    \* bounds

PurchaseBounds ==
    /\ {DraftKinds, Numbers, MaxFigures, MaxJobs, MaxFaults, MaxManual, Edits} \subseteq Nat
    /\ Numbers > 0 /\ IsFiniteSet(People)

Drafts == 1..DraftKinds
Contract == 1
Lines == 1..Numbers
NoRow == [state |-> "none", payload |-> 0]

VARIABLES
    docs,      \* what has arrived on the trade
    figures,   \* its figures by version; 0 lacks one the drafts need
    batch,     \* its batch number
    frozen,    \* awaiting approval or approved
    packet,    \* the drafts there were when it was submitted
    drafts,    \* how many documents of each kind
    jobs,      \* background_jobs of draft generations
    work,      \* each person's request
    rows,      \* loading_sheet_rows, by batch number
    book,      \* the workbook's table: the key and the figures of each line
    drain,     \* each replica's drain
    asked,     \* drafts a person has asked for by hand
    edits, faults

tradeVars == <<docs, figures, batch, frozen, packet>>
draftVars == <<drafts, jobs, asked>>
bookVars == <<book, drain, edits>>
vars == <<tradeVars, draftVars, work, rows, bookVars, faults>>

Idle == [pc |-> "idle", figures |-> 0, batch |-> 1, frozen |-> FALSE,
         seen |-> NoRow, holds |-> FALSE, todo |-> {}]
Asleep == [pc |-> "asleep", copies |-> <<>>, at |-> 0, done |-> <<>>]

RowStates == {"none", "pending", "synced", "failed"}
Rows == [state : RowStates, payload : 0..MaxFigures]

TypeOK ==
    /\ docs \subseteq Items \cup Strays /\ figures \in 0..MaxFigures
    /\ batch \in Lines /\ frozen \in BOOLEAN
    /\ drafts \in [Drafts -> 0..MaxJobs]
    /\ packet \in [Drafts -> 0..MaxJobs]
    /\ \A i \in DOMAIN jobs :
        /\ jobs[i].draft \in Drafts /\ jobs[i].task \in {"running", "ended", "stopped"}
        /\ jobs[i].status \in {"queued", "processing", "completed", "failed"}
    /\ \A p \in People : work[p].pc \in {"idle", "look", "flush", "check", "queue", "manual"}
    /\ rows \in [Lines -> Rows]
    /\ \A i \in DOMAIN book : book[i].key \in Lines /\ book[i].payload \in 0..MaxFigures
    /\ \A w \in Drains : drain[w].pc \in {"asleep", "find", "write", "stamp", "commit"}
    /\ asked \in 0..MaxManual /\ faults \in 0..MaxFaults

Init ==
    /\ docs = {} /\ figures = 0 /\ batch = 1 /\ frozen = FALSE
    /\ drafts = [d \in Drafts |-> 0] /\ packet = drafts
    /\ jobs = <<>> /\ asked = 0
    /\ work = [p \in People |-> Idle]
    /\ rows = [b \in Lines |-> NoRow]
    /\ book = <<>> /\ drain = [w \in Drains |-> Asleep]
    /\ edits = 0 /\ faults = 0

-----------------------------------------------------------------------------
(* The trade.                                                              *)

Arrive(k) ==
    /\ k \notin docs /\ docs' = docs \cup {k}
    /\ UNCHANGED <<figures, batch, frozen, packet, draftVars, work, rows, bookVars, faults>>

\* A stray document is filed elsewhere.
Refile ==
    /\ Strays \cap docs # {} /\ docs' = docs \ Strays
    /\ UNCHANGED <<figures, batch, frozen, packet, draftVars, work, rows, bookVars, faults>>

Correct ==
    /\ ~frozen /\ figures < MaxFigures /\ figures' = figures + 1
    /\ UNCHANGED <<docs, batch, frozen, packet, draftVars, work, rows, bookVars, faults>>

AdoptNumber ==
    /\ batch < Numbers /\ batch' = batch + 1
    /\ UNCHANGED <<docs, figures, frozen, packet, draftVars, work, rows, bookVars, faults>>

\* Submission, and the rejection that undoes it.
Freeze ==
    /\ frozen' = ~frozen
    /\ packet' = IF frozen THEN packet ELSE drafts
    /\ UNCHANGED <<docs, figures, batch, draftVars, work, rows, bookVars, faults>>

\* BundleStatus.complete and .pure.
BundleComplete == Items \subseteq docs /\ Strays \cap docs = {}

-----------------------------------------------------------------------------
(* on_purchase_confirmed.                                                  *)

Become(p, request) == work' = [work EXCEPT ![p] = request]

\* The sheet's row, by the trade's number as the request has read it.
Line(p) == work[p].batch
RowHeld(b) ==
    \/ \E p \in People : work[p].holds /\ Line(p) = b
    \/ \E w \in Drains : b \in DOMAIN drain[w].done

\* The trade is loaded, the bundle and the gate are looked at.
Confirm(p) ==
    /\ work[p] = Idle /\ docs # {}
    /\ BundleComplete /\ figures > 0
    /\ Become(p, [Idle EXCEPT !.pc = "look", !.figures = figures, !.batch = batch,
                              !.frozen = frozen])
    /\ UNCHANGED <<tradeVars, draftVars, rows, bookVars, faults>>

\* upsert_row, the select.
Look(p) ==
    /\ work[p].pc = "look"
    /\ Become(p, [work[p] EXCEPT !.pc = "flush", !.seen = rows[Line(p)]])
    /\ UNCHANGED <<tradeVars, draftVars, rows, bookVars, faults>>

\* The flush waits for the row; a row that has been inserted meanwhile is a
\* second one with its number, and the request fails.
Flush(p) ==
    /\ work[p].pc = "flush" /\ ~RowHeld(Line(p))
    /\ Become(p, IF work[p].seen = NoRow /\ rows[Line(p)] # NoRow THEN Idle
                 ELSE [work[p] EXCEPT !.pc = "check", !.holds = TRUE])
    /\ UNCHANGED <<tradeVars, draftVars, rows, bookVars, faults>>

\* What is written of the row: a figure that differs from the copy, and the
\* state only of a row that the copy shows as synced.
Upserted(p) ==
    LET seen == work[p].seen
        row == rows[Line(p)]
        moved == seen.payload # work[p].figures
    IN CASE seen = NoRow -> [state |-> "pending", payload |-> work[p].figures]
         [] seen # NoRow /\ ~moved -> row
         [] seen # NoRow /\ moved ->
              [state |-> IF seen.state = "synced" THEN "pending" ELSE row.state,
               payload |-> work[p].figures]

Write(p) == rows' = [rows EXCEPT ![Line(p)] = Upserted(p)]

InFlight == \E i \in DOMAIN jobs : jobs[i].status \in {"queued", "processing"}

\* The drafts that are owed: none while the trade is frozen, by its copy, or
\* while one is being produced.
Owed(p) ==
    IF work[p].frozen \/ InFlight THEN {} ELSE {d \in Drafts : drafts[d] = 0}

Check(p) ==
    /\ work[p].pc = "check"
    /\ IF Owed(p) = {} THEN Become(p, Idle) /\ Write(p)
       ELSE Become(p, [work[p] EXCEPT !.pc = "queue", !.todo = Owed(p)]) /\ UNCHANGED rows
    /\ UNCHANGED <<tradeVars, draftVars, bookVars, faults>>

NewJob(d) == [draft |-> d, status |-> "queued", task |-> "running"]

\* queue_generation commits whatever the session has written, and starts a task.
Queue(p) ==
    LET d == Min(work[p].todo)
        rest == work[p].todo \ {d}
    IN /\ work[p].pc = "queue" /\ Len(jobs) < MaxJobs
       /\ jobs' = IF drafts[d] > 0 THEN jobs ELSE Append(jobs, NewJob(d))
       /\ Become(p, IF rest = {} THEN Idle
                    ELSE [work[p] EXCEPT !.todo = rest, !.holds = @ /\ drafts[d] > 0])
       /\ IF work[p].holds /\ (drafts[d] = 0 \/ rest = {}) THEN Write(p) ELSE UNCHANGED rows
       /\ UNCHANGED <<tradeVars, drafts, asked, bookVars, faults>>

\* generate_draft of the workspace: a new draft beside the old one, refused to
\* a trade that is frozen when it is loaded.
AskDraft(p) ==
    /\ work[p] = Idle /\ ~frozen /\ figures > 0 /\ asked < MaxManual
    /\ asked' = asked + 1
    /\ Become(p, [Idle EXCEPT !.pc = "manual"])
    /\ UNCHANGED <<tradeVars, drafts, jobs, rows, bookVars, faults>>

QueueDraft(p, d) ==
    /\ work[p].pc = "manual" /\ Len(jobs) < MaxJobs
    /\ jobs' = Append(jobs, NewJob(d))
    /\ Become(p, Idle)
    /\ UNCHANGED <<tradeVars, drafts, asked, rows, bookVars, faults>>

-----------------------------------------------------------------------------
(* The generation of a draft, in a task of its own.                        *)

Begin(i) ==
    /\ jobs[i].status = "queued" /\ jobs[i].task = "running"
    /\ jobs' = [jobs EXCEPT ![i].status = "processing"]
    /\ UNCHANGED <<tradeVars, drafts, asked, work, rows, bookVars, faults>>

\* One commit for the document and the job.
Produce(i) ==
    /\ jobs[i].status = "processing" /\ jobs[i].task = "running"
    /\ drafts' = [drafts EXCEPT ![jobs[i].draft] = @ + 1]
    /\ jobs' = [jobs EXCEPT ![i] = [@ EXCEPT !.status = "completed", !.task = "ended"]]
    /\ UNCHANGED <<tradeVars, asked, work, rows, bookVars, faults>>

\* The service fails or answers something no template takes: nothing is
\* produced and the job says so, by a session of its own.
Reject(i) ==
    /\ jobs[i].status = "processing" /\ jobs[i].task = "running"
    /\ faults < MaxFaults /\ faults' = faults + 1
    /\ jobs' = [jobs EXCEPT ![i] = [@ EXCEPT !.status = "failed", !.task = "ended"]]
    /\ UNCHANGED <<tradeVars, drafts, asked, work, rows, bookVars>>

-----------------------------------------------------------------------------
(* loading_sheet.drain, of each replica.                                   *)

Sweep(w, next) == drain' = [drain EXCEPT ![w] = next]

\* The rows are read once, each with the figures it has then.
StartDrain(w) ==
    LET due == {b \in Lines : rows[b].state \in {"pending", "failed"}}
    IN /\ drain[w] = Asleep /\ due # {}
       /\ Sweep(w, [Asleep EXCEPT !.pc = "find", !.copies = [b \in due |-> rows[b].payload]])
       /\ UNCHANGED <<tradeVars, draftVars, work, rows, book, edits, faults>>

\* The row it is at, as it was read.  The code takes the one that changed first;
\* they are written one by one and committed together, whichever comes first.
Key(w) == Min(DOMAIN drain[w].copies \ DOMAIN drain[w].done)
Copy(w) == [key |-> Key(w), payload |-> drain[w].copies[Key(w)]]

\* find_table_row: the first line with the key.
FoundAt(key) ==
    LET at == {i \in DOMAIN book : book[i].key = key}
    IN IF at = {} THEN 0 ELSE Min(at)

Find(w) ==
    /\ drain[w].pc = "find"
    /\ Sweep(w, [drain[w] EXCEPT !.pc = "write", !.at = FoundAt(Key(w))])
    /\ UNCHANGED <<tradeVars, draftVars, work, rows, book, edits, faults>>

\* Slip: a line that is not found is the first one.
WriteFirst(w) ==
    /\ drain[w].pc = "write" /\ drain[w].at <= Len(book)
    /\ book' = IF book = <<>> THEN <<Copy(w)>>
               ELSE [book EXCEPT ![IF drain[w].at = 0 THEN 1 ELSE drain[w].at] = Copy(w)]
    /\ Sweep(w, [drain[w] EXCEPT !.pc = "stamp"])
    /\ UNCHANGED <<tradeVars, draftVars, work, rows, edits, faults>>

\* Patch the line by its index, or append one.
WriteLine(w) ==
    /\ drain[w].pc = "write" /\ drain[w].at <= Len(book)
    /\ book' = IF drain[w].at = 0 THEN Append(book, Copy(w))
               ELSE [book EXCEPT ![drain[w].at] = Copy(w)]
    /\ Sweep(w, [drain[w] EXCEPT !.pc = "stamp"])
    /\ UNCHANGED <<tradeVars, draftVars, work, rows, edits, faults>>

\* Slip: a failed row gets a state that no drain asks for.
StampedUnlisted(w, state) ==
    LET known == drain[w].done
        done == [b \in DOMAIN known \cup {Key(w)} |->
                    IF b # Key(w) THEN known[b] ELSE IF state = "failed" THEN "error" ELSE state]
    IN [drain[w] EXCEPT !.done = done,
            !.pc = IF DOMAIN done = DOMAIN drain[w].copies THEN "commit" ELSE "find"]

Stamped(w, state) ==
    LET known == drain[w].done
        done == [b \in DOMAIN known \cup {Key(w)} |-> IF b = Key(w) THEN state ELSE known[b]]
    IN [drain[w] EXCEPT !.done = done,
            !.pc = IF DOMAIN done = DOMAIN drain[w].copies THEN "commit" ELSE "find"]

\* The flush of what happened to the row waits for whoever holds it.
Stamp(w) ==
    /\ drain[w].pc = "stamp" /\ ~RowHeld(Key(w))
    /\ Sweep(w, Stamped(w, "synced"))
    /\ UNCHANGED <<tradeVars, draftVars, work, rows, book, edits, faults>>

\* The workbook cannot be reached, or has lost the line: the row is tried again.
Unwritten(w) ==
    /\ \/ drain[w].pc \in {"find", "write"} /\ faults < MaxFaults /\ faults' = faults + 1
       \/ drain[w].pc = "write" /\ drain[w].at > Len(book) /\ UNCHANGED faults
    /\ ~RowHeld(Key(w))
    /\ Sweep(w, Stamped(w, "failed"))
    /\ UNCHANGED <<tradeVars, draftVars, work, rows, book, edits>>

\* One commit for the drain.
EndDrain(w) ==
    LET done == drain[w].done
    IN /\ drain[w].pc = "commit" /\ Sweep(w, Asleep)
       /\ rows' = [b \in Lines |-> IF b \in DOMAIN done
                                   THEN [rows[b] EXCEPT !.state = done[b]] ELSE rows[b]]
       /\ UNCHANGED <<tradeVars, draftVars, work, book, edits, faults>>

\* Somebody deletes the first line of the workbook.
EditBook ==
    /\ edits < Edits /\ edits' = edits + 1
    /\ book # <<>> /\ book' = Tail(book)
    /\ UNCHANGED <<tradeVars, draftVars, work, rows, drain, faults>>

\* A replica restarts: its requests, tasks and drains are gone.
Restart ==
    /\ faults < MaxFaults /\ faults' = faults + 1
    /\ work' = [p \in People |-> Idle]
    /\ jobs' = [i \in DOMAIN jobs |-> [jobs[i] EXCEPT
                  !.task = IF @ = "running" THEN "stopped" ELSE @]]
    /\ drain' = [w \in Drains |-> Asleep]
    /\ UNCHANGED <<tradeVars, drafts, asked, rows, book, edits>>

\* What a request, a task and a drain go on with.
Handle(p) ==
    \/ Look(p) \/ Flush(p) \/ Check(p) \/ Queue(p)
    \/ \E d \in Drafts : QueueDraft(p, d)

Generate(i) == Begin(i) \/ Produce(i) \/ Reject(i)

Drain(w) ==
    \/ StartDrain(w) \/ Find(w) \/ WriteLine(w) \/ Stamp(w) \/ Unwritten(w) \/ EndDrain(w)

Next ==
    \/ \E k \in Items \cup Strays : Arrive(k)
    \/ Refile \/ Correct \/ AdoptNumber \/ Freeze
    \/ \E p \in People : Confirm(p) \/ AskDraft(p) \/ Handle(p)
    \/ \E i \in DOMAIN jobs : Generate(i)
    \/ \E w \in Drains : Drain(w)
    \/ EditBook \/ Restart

Spec == Init /\ [][Next]_vars

-----------------------------------------------------------------------------
\* Documents of a kind, and generations of it under way.
Copies(d) ==
    drafts[d] + Cardinality({i \in DOMAIN jobs :
        jobs[i].draft = d /\ jobs[i].status \in {"queued", "processing"}})

\* purchase_completion.py: confirming again never stacks a second purchase
\* contract on the trade; only a person asks for another.
ContractIsNotStacked == Copies(Contract) <= 1 + asked

\* Every generated document has a completed job, and every completed job its
\* document.
DraftsHaveTheirJobs ==
    \A d \in Drafts :
        drafts[d] = Cardinality({i \in DOMAIN jobs :
            jobs[i].draft = d /\ jobs[i].status = "completed"})

\* A trade that awaits approval has the drafts its approver is shown.
PacketIsFrozen == frozen => drafts = packet

\* loading_sheet.py: a row of the table and the line of the workbook never
\* carry different numbers for one batch, once the row says that it is written.
SyncedDescribesBatch ==
    \A b \in Lines : rows[b].state = "synced" =>
        \E i \in DOMAIN book : book[i].key = b /\ book[i].payload = rows[b].payload

\* A row that counts as written has a line in the workbook.
SyncedIsInTheBook ==
    \A b \in Lines : rows[b].state = "synced" => FoundAt(b) # 0

\* The workbook has one line for a batch.
OneLinePerBatch ==
    \A i, j \in DOMAIN book : book[i].key = book[j].key => i = j

\* A write never lands on the line of another batch.
KeysStay ==
    edits' = edits => \A i \in DOMAIN book : book'[i].key = book[i].key

LinesKeepTheirKey == [][KeysStay]_vars

\* What a purchase writes it writes once and in its place.  Documents and jobs
\* agree whatever happens; a trade that keeps its number gets one contract but
\* for those a person asks for; a workbook nobody else edits has a line for
\* every row that counts as written, in its place, and with one replica one.
PurchaseWritesOnce ==
    /\ []DraftsHaveTheirJobs
    /\ Numbers = 1 /\ Contract \in Drafts => []ContractIsNotStacked
    /\ Edits = 0 => []SyncedIsInTheBook /\ LinesKeepTheirKey
    /\ Edits = 0 /\ (\A v, w \in Drains : v = w) => []OneLinePerBatch

\* One trade has one row in the sheet.  Not so once it takes a stated number.
OneRowPerTrade == Cardinality({b \in Lines : rows[b] # NoRow}) <= 1

\* A generation ends with its job completed or failed, unless a restart stops
\* it: then nothing takes it up again.
GenerationSettles ==
    \A i \in 1..MaxJobs :
        (i \in DOMAIN jobs) ~>
            (i \in DOMAIN jobs /\ (jobs[i].status \in {"completed", "failed"}
                                  \/ jobs[i].task = "stopped"))

\* A row of the sheet is written in the end: waiting loses nothing.
RowIsWritten ==
    \A b \in Lines : (rows[b] # NoRow) ~> (rows[b].state = "synced")

-----------------------------------------------------------------------------
(* The inductive invariant behind PurchaseWritesOnce (proved in TradeProofs). *)

JobRow == [draft : Drafts, status : {"queued", "processing", "completed", "failed"},
           task : {"running", "ended", "stopped"}]
WorkRow == [pc : {"idle", "look", "flush", "check", "queue", "manual"},
            figures : 0..MaxFigures, batch : Lines, frozen : BOOLEAN,
            seen : Rows, holds : BOOLEAN, todo : SUBSET Drafts]
BookLine == [key : Lines, payload : 0..MaxFigures]

\* A drain that has been through the first of the rows it read.
DrainShape(w) ==
    /\ DOMAIN drain[w] = {"pc", "copies", "at", "done"}
    /\ drain[w].pc \in {"asleep", "find", "write", "stamp", "commit"}
    /\ drain[w].at \in Nat /\ DOMAIN drain[w].copies \subseteq Lines
    /\ \A b \in DOMAIN drain[w].copies : drain[w].copies[b] \in 0..MaxFigures
    /\ DOMAIN drain[w].done \subseteq DOMAIN drain[w].copies
    /\ \A b \in DOMAIN drain[w].done : drain[w].done[b] \in {"synced", "failed"}
    /\ drain[w].pc \in {"find", "write", "stamp"} => DOMAIN drain[w].copies # DOMAIN drain[w].done

PurchaseRows ==
    /\ docs \subseteq Items \cup Strays /\ figures \in 0..MaxFigures
    /\ batch \in Lines /\ frozen \in BOOLEAN
    /\ drafts \in [Drafts -> Nat] /\ packet \in [Drafts -> 0..MaxJobs]
    /\ jobs \in Seq(JobRow) /\ Len(jobs) <= MaxJobs
    /\ work \in [People -> WorkRow]
    /\ rows \in [Lines -> Rows] /\ book \in Seq(BookLine)
    /\ DOMAIN drain = Drains /\ \A w \in Drains : DrainShape(w)
    /\ asked \in 0..MaxManual /\ faults \in 0..MaxFaults /\ edits \in 0..Edits

\* Who is about to queue what: only a request that holds the sheet's row owes
\* the contract.
Owes(p) ==
    /\ work[p].holds => work[p].pc \in {"check", "queue"}
    /\ work[p].pc = "check" => work[p].holds
    /\ work[p].pc = "queue" => work[p].todo # {}
    /\ work[p].pc = "queue" /\ Contract \in work[p].todo => work[p].holds

OneHolder ==
    \A p, q \in People : work[p].holds /\ work[q].holds /\ Line(p) = Line(q) => p = q

Asking == {p \in People : work[p].pc = "manual"}
AboutTo == {p \in People : work[p].pc = "queue" /\ Contract \in work[p].todo}

NotStacked ==
    /\ Cardinality(Asking) <= asked
    /\ Copies(Contract) + Cardinality(Asking \cup AboutTo) <= 1 + asked

InBook(b) == \E i \in DOMAIN book : book[i].key = b

\* What a drain knows of the workbook goes on being so.
DrainKnows(w) ==
    /\ \A b \in DOMAIN drain[w].done : drain[w].done[b] = "synced" => InBook(b)
    /\ drain[w].pc = "write" /\ drain[w].at # 0 =>
          drain[w].at \in DOMAIN book /\ book[drain[w].at].key = Key(w)
    /\ drain[w].pc = "stamp" => InBook(Key(w))

BookKept ==
    /\ \A b \in Lines : rows[b].state = "synced" => InBook(b)
    /\ \A w \in Drains : DrainKnows(w)

OneLineKept ==
    /\ OneLinePerBatch
    /\ \A w \in Drains : drain[w].pc = "write" /\ drain[w].at = 0 => ~InBook(Key(w))

PurchaseInv ==
    /\ PurchaseRows
    /\ DraftsHaveTheirJobs
    /\ \A p \in People : Owes(p)
    /\ OneHolder
    /\ Numbers = 1 /\ Contract \in Drafts => NotStacked
    /\ Edits = 0 => BookKept
    /\ Edits = 0 /\ (\A v, w \in Drains : v = w) => OneLineKept
=============================================================================
