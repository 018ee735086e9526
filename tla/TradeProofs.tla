------------------------------ MODULE TradeProofs ------------------------------
(***************************************************************************)
(* Proofs about the two legs of a trade and its cargo.  First what the     *)
(* confirmation of a purchase writes (PurchaseBundle), for any number of   *)
(* people, drafts, batch numbers and replicas; then who is shown that a    *)
(* sale is not covered (SalesContract, here Sell), for any trades and      *)
(* contracts; then what sweeps and people make of a shipment (Shipments,   *)
(* here Cargo), for any ships, readings and thresholds.                    *)
(*                                                                         *)
(* The three share the names of the people, of the trades, of what has     *)
(* been asked and of the bounds; a theorem speaks of one of them.          *)
(***************************************************************************)
EXTENDS PurchaseBundle, FiniteSetTheorems, WellFoundedInduction, TLAPS

CONSTANTS
    Trades, Bought, Contracts, Quantities, Tolerance, Fields, Channels, MaxChanges

VARIABLES
    exists, leg, seller, quantity, shown, locked, changes

Sell == INSTANCE SalesContract

CONSTANTS
    Ships, TradeOf, Tracked, Replicas, Readings, Kinds, Limit, StaleDays, FailureLimit, Regression,
    MaxDay

VARIABLES
    ship, bill, verdict, cases, sweep, desk, day

Cargo == INSTANCE Shipments

-----------------------------------------------------------------------------
(* The bounds, and the least of a set. *)

LEMMA BoundFacts ==
    ASSUME PurchaseBounds
    PROVE  /\ DraftKinds \in Nat /\ Numbers \in Nat /\ Numbers > 0
           /\ MaxFigures \in Nat /\ MaxJobs \in Nat /\ MaxFaults \in Nat
           /\ MaxManual \in Nat /\ Edits \in Nat /\ IsFiniteSet(People)
           /\ 1 \in Lines
BY DEF PurchaseBounds, Lines

\* A set of numbers has a least one, and Min picks it.
LEMMA MinIsIn ==
    ASSUME NEW S \in SUBSET Nat, S # {}
    PROVE  Min(S) \in S /\ \A o \in S : Min(S) <= o
<1>1. IsWellFoundedOn(OpToRel(<, Nat), Nat)
  BY NatLessThanWellFounded
<1>2. PICK n \in S : \A o \in S : ~(<<o, n>> \in OpToRel(<, Nat))
  BY <1>1, WFMin, Zenon
<1>3. \A o \in S : ~(o < n)
  BY <1>2 DEF OpToRel
<1>4. \A o \in S : n <= o
  BY <1>3
<1> QED BY <1>4, Zenon DEF Min

\* What a request is before and after a step of its own.
LEMMA Becoming ==
    ASSUME DOMAIN work = People, NEW p \in People, NEW request, Become(p, request)
    PROVE  /\ DOMAIN work' = People /\ work'[p] = request
           /\ \A o \in People : o # p => work'[o] = work[o]
BY DEF Become

LEMMA Sweeping ==
    ASSUME DOMAIN drain = Drains, NEW w \in Drains, NEW next, Sweep(w, next)
    PROVE  /\ DOMAIN drain' = Drains /\ drain'[w] = next
           /\ \A v \in Drains : v # w => drain'[v] = drain[v]
BY DEF Sweep

LEMMA BecomesRow ==
    ASSUME work \in [People -> WorkRow], NEW p \in People, NEW request \in WorkRow,
           Become(p, request)
    PROVE  work' \in [People -> WorkRow]
BY DEF Become

LEMMA RestIsRow ==
    ASSUME PurchaseBounds
    PROVE  Idle \in WorkRow /\ NoRow \in Rows
BY BoundFacts DEF Idle, WorkRow, NoRow, Rows, RowStates

\* The line a drain is at.
LEMMA KeyIsRead ==
    ASSUME PurchaseBounds, NEW w \in Drains, DrainShape(w),
           drain[w].pc \in {"find", "write", "stamp"}
    PROVE  /\ Key(w) \in DOMAIN drain[w].copies /\ Key(w) \notin DOMAIN drain[w].done
           /\ Key(w) \in Lines /\ Copy(w) \in BookLine
           /\ Copy(w).key = Key(w)
<1>1. DOMAIN drain[w].copies \ DOMAIN drain[w].done # {}
  BY DEF DrainShape
<1>2. DOMAIN drain[w].copies \ DOMAIN drain[w].done \in SUBSET Nat
  BY BoundFacts DEF DrainShape, Lines
<1>3. Key(w) \in DOMAIN drain[w].copies \ DOMAIN drain[w].done
  BY <1>1, <1>2, MinIsIn, Zenon DEF Key
<1>4. Key(w) \in Lines /\ drain[w].copies[Key(w)] \in 0..MaxFigures
  BY <1>3 DEF DrainShape
<1> HIDE DEF Key
<1> QED BY <1>3, <1>4 DEF Copy, BookLine

\* Looking for a key finds a line that has it, if one has.
LEMMA FoundIsThere ==
    ASSUME book \in Seq(BookLine), NEW b
    PROVE  /\ FoundAt(b) \in Nat
           /\ FoundAt(b) # 0 => FoundAt(b) \in DOMAIN book /\ book[FoundAt(b)].key = b
           /\ FoundAt(b) = 0 <=> ~InBook(b)
<1> DEFINE at == {i \in DOMAIN book : book[i].key = b}
<1>1. at \in SUBSET Nat /\ 0 \notin at
  OBVIOUS
<1>2. at = {} <=> ~InBook(b)
  BY DEF InBook
<1>3. CASE at = {}
  BY <1>2, <1>3 DEF FoundAt
<1>4. CASE at # {}
  <2>1. FoundAt(b) = Min(at)
    BY <1>4 DEF FoundAt
  <2>2. Min(at) \in at
    <3> HIDE DEF at
    <3> QED BY <1>1, <1>4, MinIsIn, Zenon
  <2> QED BY <1>1, <1>2, <1>4, <2>1, <2>2
<1> QED BY <1>3, <1>4

\* A row that has been stamped.
LEMMA StampedRow ==
    ASSUME PurchaseBounds, NEW w \in Drains, DrainShape(w),
           drain[w].pc \in {"find", "write", "stamp"}, NEW state \in {"synced", "failed"},
           drain'[w] = Stamped(w, state)
    PROVE  /\ DrainShape(w)'
           /\ drain'[w].pc \in {"find", "commit"}
           /\ DOMAIN drain'[w].done = DOMAIN drain[w].done \cup {Key(w)}
           /\ drain'[w].done[Key(w)] = state
           /\ \A b \in DOMAIN drain[w].done : drain'[w].done[b] = drain[w].done[b]
           /\ drain'[w].copies = drain[w].copies
<1> DEFINE done == [b \in DOMAIN drain[w].done \cup {Key(w)} |->
                        IF b = Key(w) THEN state ELSE drain[w].done[b]]
<1>1. Key(w) \in DOMAIN drain[w].copies /\ Key(w) \notin DOMAIN drain[w].done
  BY KeyIsRead
<1>2. Stamped(w, state) =
        [drain[w] EXCEPT !.done = done,
              !.pc = IF DOMAIN done = DOMAIN drain[w].copies THEN "commit" ELSE "find"]
  BY DEF Stamped
<1>3. /\ drain'[w].done = done /\ drain'[w].copies = drain[w].copies
      /\ drain'[w].at = drain[w].at
      /\ DOMAIN drain'[w] = DOMAIN drain[w]
      /\ drain'[w].pc = IF DOMAIN done = DOMAIN drain[w].copies THEN "commit" ELSE "find"
  <2> HIDE DEF done
  <2> QED BY <1>2 DEF DrainShape
<1>4. /\ DOMAIN done = DOMAIN drain[w].done \cup {Key(w)}
      /\ done[Key(w)] = state
      /\ \A b \in DOMAIN drain[w].done : done[b] = drain[w].done[b]
  <2> HIDE DEF Key
  <2> QED BY <1>1
<1> HIDE DEF done, Key
<1>5. /\ DOMAIN done \subseteq DOMAIN drain[w].copies
      /\ \A b \in DOMAIN done : done[b] \in {"synced", "failed"}
  BY <1>1, <1>4 DEF DrainShape
<1>6. DrainShape(w)'
  BY <1>3, <1>5 DEF DrainShape
<1> QED BY <1>3, <1>4, <1>6

LEMMA RowsInit ==
    ASSUME PurchaseBounds, Init
    PROVE  PurchaseRows
<1>1. work \in [People -> WorkRow] /\ rows \in [Lines -> Rows]
  BY RestIsRow DEF Init
<1>2. drafts \in [Drafts -> Nat] /\ packet \in [Drafts -> 0..MaxJobs]
  BY BoundFacts DEF Init
<1>3. DOMAIN drain = Drains /\ \A w \in Drains : DrainShape(w)
  BY BoundFacts DEF Init, Asleep, DrainShape
<1>4. jobs \in Seq(JobRow) /\ Len(jobs) <= MaxJobs /\ book \in Seq(BookLine)
  BY BoundFacts DEF Init
<1>5. /\ docs \subseteq Items \cup Strays /\ figures \in 0..MaxFigures
      /\ batch \in Lines /\ frozen \in BOOLEAN
      /\ asked \in 0..MaxManual /\ faults \in 0..MaxFaults /\ edits \in 0..Edits
  <2>1. /\ docs = {} /\ figures = 0 /\ batch = 1 /\ frozen = FALSE
        /\ asked = 0 /\ faults = 0 /\ edits = 0
    BY DEF Init
  <2>2. docs \subseteq Items \cup Strays /\ frozen \in BOOLEAN
    BY ONLY <2>1
  <2>3. batch \in Lines
    BY <2>1, BoundFacts
  <2>4. /\ figures \in 0..MaxFigures /\ asked \in 0..MaxManual
        /\ faults \in 0..MaxFaults /\ edits \in 0..Edits
    BY <2>1, BoundFacts
  <2> QED BY <2>2, <2>3, <2>4
<1> QED BY <1>1, <1>2, <1>3, <1>4, <1>5 DEF PurchaseRows

\* The row a request writes.
LEMMA UpsertedIsRow ==
    ASSUME PurchaseBounds, NEW p \in People, work[p] \in WorkRow, rows \in [Lines -> Rows]
    PROVE  /\ Upserted(p) \in Rows
           /\ Upserted(p).state = "synced" => rows[Line(p)].state = "synced"
           /\ Line(p) \in Lines
BY DEF Upserted, Line, WorkRow, Rows, RowStates, NoRow

LEMMA WriteIsTyped ==
    ASSUME PurchaseBounds, NEW p \in People, work[p] \in WorkRow, rows \in [Lines -> Rows], Write(p)
    PROVE  /\ rows' \in [Lines -> Rows]
           /\ \A b \in Lines : rows'[b].state = "synced" => rows[b].state = "synced"
BY UpsertedIsRow DEF Write

\* What is asked of a draft.
LEMMA OwedDrafts ==
    ASSUME NEW p \in People
    PROVE  Owed(p) \subseteq Drafts
BY DEF Owed

LEMMA NextOfTodo ==
    ASSUME PurchaseBounds, NEW p \in People, work[p] \in WorkRow, work[p].todo # {}
    PROVE  Min(work[p].todo) \in work[p].todo /\ work[p].todo \subseteq Drafts
<1>1. work[p].todo \subseteq Drafts /\ Drafts \subseteq Nat
  BY BoundFacts DEF WorkRow, Drafts
<1> QED BY <1>1, MinIsIn, Zenon

LEMMA TradeTypes ==
    ASSUME PurchaseBounds, PurchaseRows, \A p \in People : Owes(p),
           \/ \E k \in Items \cup Strays : Arrive(k)
           \/ Refile \/ Correct \/ AdoptNumber
           \/ Freeze /\ \A d \in Drafts : drafts[d] <= MaxJobs
    PROVE  PurchaseRows'
<1>1. /\ UNCHANGED <<draftVars, work, rows, bookVars, faults>>
      /\ docs' \subseteq Items \cup Strays /\ figures' \in 0..MaxFigures
      /\ batch' \in Lines /\ frozen' \in BOOLEAN /\ packet' \in [Drafts -> 0..MaxJobs]
  <2>1. CASE \E k \in Items \cup Strays : Arrive(k)
    BY <2>1 DEF Arrive, PurchaseRows
  <2>2. CASE Refile
    BY <2>2 DEF Refile, PurchaseRows
  <2>3. CASE Correct
    BY <2>3, BoundFacts DEF Correct, PurchaseRows
  <2>4. CASE AdoptNumber
    BY <2>4, BoundFacts DEF AdoptNumber, PurchaseRows, Lines
  <2>5. CASE Freeze /\ \A d \in Drafts : drafts[d] <= MaxJobs
    <3>1. drafts \in [Drafts -> 0..MaxJobs]
      BY <2>5, BoundFacts DEF PurchaseRows
    <3> QED BY <2>5, <3>1 DEF Freeze, PurchaseRows
  <2> QED BY <2>1, <2>2, <2>3, <2>4, <2>5
<1> QED BY <1>1 DEF PurchaseRows, DrainShape, draftVars, bookVars

LEMMA RequestTypes ==
    ASSUME PurchaseBounds, PurchaseRows, NEW p \in People, Owes(p),
           Confirm(p) \/ AskDraft(p) \/ Handle(p)
    PROVE  PurchaseRows'
<1> USE BoundFacts
<1>0. /\ work \in [People -> WorkRow] /\ work[p] \in WorkRow /\ rows \in [Lines -> Rows]
      /\ jobs \in Seq(JobRow) /\ Len(jobs) <= MaxJobs /\ Idle \in WorkRow
  BY RestIsRow DEF PurchaseRows
<1>1. /\ UNCHANGED <<tradeVars, drafts, bookVars, faults>>
      /\ work' \in [People -> WorkRow] /\ rows' \in [Lines -> Rows]
      /\ jobs' \in Seq(JobRow) /\ Len(jobs') <= MaxJobs /\ asked' \in 0..MaxManual
  <2>1. CASE Confirm(p)
    <3>1. [Idle EXCEPT !.pc = "look", !.figures = figures, !.batch = batch, !.frozen = frozen]
            \in WorkRow
      BY <1>0 DEF WorkRow, PurchaseRows
    <3>2. work' \in [People -> WorkRow]
      BY <1>0, <2>1, <3>1, BecomesRow, Zenon DEF Confirm
    <3> QED BY <1>0, <2>1, <3>2 DEF Confirm, PurchaseRows, draftVars
  <2>2. CASE AskDraft(p)
    <3>1. [Idle EXCEPT !.pc = "manual"] \in WorkRow
      BY <1>0 DEF WorkRow
    <3>2. work' \in [People -> WorkRow]
      BY <1>0, <2>2, <3>1, BecomesRow, Zenon DEF AskDraft
    <3> QED BY <1>0, <2>2, <3>2 DEF AskDraft, PurchaseRows
  <2>3. CASE Look(p)
    <3>1. rows[Line(p)] \in Rows
      BY <1>0 DEF Line, WorkRow
    <3>2. [work[p] EXCEPT !.pc = "flush", !.seen = rows[Line(p)]] \in WorkRow
      BY <1>0, <3>1 DEF WorkRow
    <3>3. work' \in [People -> WorkRow]
      BY <1>0, <2>3, <3>2, BecomesRow, Zenon DEF Look
    <3> QED BY <1>0, <2>3, <3>3 DEF Look, PurchaseRows, draftVars
  <2>4. CASE Flush(p)
    <3>1. [work[p] EXCEPT !.pc = "check", !.holds = TRUE] \in WorkRow
      BY <1>0 DEF WorkRow
    <3>2. work' \in [People -> WorkRow]
      BY <1>0, <2>4, <3>1, BecomesRow, Zenon DEF Flush
    <3> QED BY <1>0, <2>4, <3>2 DEF Flush, PurchaseRows, draftVars
  <2>5. CASE Check(p)
    <3>1. [work[p] EXCEPT !.pc = "queue", !.todo = Owed(p)] \in WorkRow
      BY <1>0, OwedDrafts DEF WorkRow
    <3>2. work' \in [People -> WorkRow]
      BY <1>0, <2>5, <3>1, BecomesRow, Zenon DEF Check
    <3>3. rows' \in [Lines -> Rows]
      BY <1>0, <2>5, WriteIsTyped, Zenon DEF Check
    <3> QED BY <1>0, <2>5, <3>2, <3>3 DEF Check, PurchaseRows, draftVars
  <2>6. CASE Queue(p)
    <3> DEFINE d == Min(work[p].todo)
               rest == work[p].todo \ {d}
    <3>1. d \in Drafts /\ rest \subseteq Drafts
      BY <1>0, <2>6, NextOfTodo DEF Queue, Owes
    <3> HIDE DEF d
    <3>2. [work[p] EXCEPT !.todo = rest, !.holds = @ /\ drafts[d] > 0] \in WorkRow
      BY <1>0, <3>1 DEF WorkRow
    <3>3. work' \in [People -> WorkRow]
      BY <1>0, <2>6, <3>2, BecomesRow, Zenon DEF Queue, d
    <3>4. rows' \in [Lines -> Rows]
      BY <1>0, <2>6, WriteIsTyped, Zenon DEF Queue
    <3>5. jobs' \in Seq(JobRow) /\ Len(jobs') <= MaxJobs
      <4>1. NewJob(d) \in JobRow
        BY <3>1 DEF NewJob, JobRow
      <4>2. (jobs' = jobs \/ jobs' = Append(jobs, NewJob(d))) /\ Len(jobs) < MaxJobs
        BY <2>6 DEF Queue, d
      <4> QED BY <1>0, <4>1, <4>2
    <3> QED BY <1>0, <2>6, <3>3, <3>4, <3>5 DEF Queue, PurchaseRows
  <2>7. CASE \E e \in Drafts : QueueDraft(p, e)
    <3>1. PICK e \in Drafts : QueueDraft(p, e)
      BY <2>7
    <3>2. NewJob(e) \in JobRow
      BY <3>1 DEF NewJob, JobRow
    <3>3. jobs' \in Seq(JobRow) /\ Len(jobs') <= MaxJobs
      BY <1>0, <3>1, <3>2 DEF QueueDraft
    <3>4. work' \in [People -> WorkRow]
      BY <1>0, <3>1, BecomesRow, Zenon DEF QueueDraft
    <3> QED BY <1>0, <3>1, <3>3, <3>4 DEF QueueDraft, PurchaseRows
  <2> QED BY <2>1, <2>2, <2>3, <2>4, <2>5, <2>6, <2>7 DEF Handle
<1> QED BY <1>1 DEF PurchaseRows, DrainShape, tradeVars, bookVars

\* A line or a job in the place of another.
LEMMA InPlace ==
    ASSUME NEW S, NEW q \in Seq(S), NEW i \in DOMAIN q, NEW x \in S,
           NEW r, r = [q EXCEPT ![i] = x]
    PROVE  /\ r \in Seq(S) /\ Len(r) = Len(q) /\ DOMAIN r = DOMAIN q /\ r[i] = x
           /\ \A j \in DOMAIN q : j # i => r[j] = q[j]
OBVIOUS

\* A job that gets another status.
LEMMA JobBecomes ==
    ASSUME jobs \in Seq(JobRow), NEW i \in DOMAIN jobs,
           NEW status \in {"queued", "processing", "completed", "failed"},
           NEW task \in {"running", "ended", "stopped"},
           jobs' = [jobs EXCEPT ![i] = [jobs[i] EXCEPT !.status = status, !.task = task]]
    PROVE  /\ jobs' \in Seq(JobRow) /\ Len(jobs') = Len(jobs) /\ DOMAIN jobs' = DOMAIN jobs
           /\ jobs'[i].draft = jobs[i].draft /\ jobs'[i].status = status
           /\ \A j \in DOMAIN jobs : j # i => jobs'[j] = jobs[j]
<1> DEFINE job == [jobs[i] EXCEPT !.status = status, !.task = task]
<1>1. job \in JobRow /\ job.draft = jobs[i].draft /\ job.status = status
  <2>1. jobs[i] \in JobRow
    OBVIOUS
  <2> QED BY <2>1 DEF JobRow
<1>2. jobs' = [jobs EXCEPT ![i] = job]
  OBVIOUS
<1>3. jobs \in Seq(JobRow) /\ i \in DOMAIN jobs
  OBVIOUS
<1> HIDE DEF job
<1> QED BY ONLY <1>1, <1>2, <1>3, InPlace

\* What a generation makes of its job.
LEMMA JobMoves ==
    ASSUME jobs \in Seq(JobRow), NEW i \in DOMAIN jobs, Generate(i)
    PROVE  /\ jobs' \in Seq(JobRow) /\ Len(jobs') = Len(jobs) /\ DOMAIN jobs' = DOMAIN jobs
           /\ jobs'[i].draft = jobs[i].draft /\ jobs[i] \in JobRow
           /\ jobs[i].status \in {"queued", "processing"}
           /\ Begin(i) => jobs'[i].status = "processing"
           /\ Produce(i) => jobs'[i].status = "completed"
           /\ Reject(i) => jobs'[i].status = "failed"
           /\ \A j \in DOMAIN jobs : j # i => jobs'[j] = jobs[j]
<1> DEFINE Moved(status) ==
             /\ jobs' \in Seq(JobRow) /\ Len(jobs') = Len(jobs) /\ DOMAIN jobs' = DOMAIN jobs
             /\ jobs'[i].draft = jobs[i].draft /\ jobs'[i].status = status
             /\ \A j \in DOMAIN jobs : j # i => jobs'[j] = jobs[j]
<1>0. jobs[i] \in JobRow
  OBVIOUS
<1>1. ASSUME Begin(i) PROVE Moved("processing")
  <2>1. [jobs[i] EXCEPT !.status = "processing"]
          = [jobs[i] EXCEPT !.status = "processing", !.task = jobs[i].task]
    BY <1>0 DEF JobRow
  <2>2. jobs' = [jobs EXCEPT ![i] = [jobs[i] EXCEPT !.status = "processing"]]
    BY <1>1 DEF Begin
  <2>3. jobs' = [jobs EXCEPT ![i] =
                   [jobs[i] EXCEPT !.status = "processing", !.task = jobs[i].task]]
    BY <2>1, <2>2, Zenon
  <2>4. jobs[i].task \in {"running", "ended", "stopped"}
    BY <1>0 DEF JobRow
  <2> QED BY <2>3, <2>4, JobBecomes
<1>2. ASSUME Produce(i) PROVE Moved("completed")
  <2>1. jobs' = [jobs EXCEPT ![i] = [jobs[i] EXCEPT !.status = "completed", !.task = "ended"]]
    BY <1>2 DEF Produce
  <2> QED BY <2>1, JobBecomes
<1>3. ASSUME Reject(i) PROVE Moved("failed")
  <2>1. jobs' = [jobs EXCEPT ![i] = [jobs[i] EXCEPT !.status = "failed", !.task = "ended"]]
    BY <1>3 DEF Reject
  <2> QED BY <2>1, JobBecomes
<1>4. jobs[i].status \in {"queued", "processing"}
  BY DEF Generate, Begin, Produce, Reject
<1>5. Begin(i) \/ Produce(i) \/ Reject(i)
  BY DEF Generate
<1> QED BY <1>0, <1>1, <1>2, <1>3, <1>4, <1>5

LEMMA GenerateTypes ==
    ASSUME PurchaseBounds, PurchaseRows, NEW i \in DOMAIN jobs, Generate(i)
    PROVE  PurchaseRows'
<1> USE BoundFacts
<1>0. /\ jobs \in Seq(JobRow) /\ Len(jobs) <= MaxJobs /\ jobs[i] \in JobRow
      /\ drafts \in [Drafts -> Nat] /\ faults \in 0..MaxFaults
  BY DEF PurchaseRows
<1>1. /\ UNCHANGED <<tradeVars, asked, work, rows, bookVars>>
      /\ jobs' \in Seq(JobRow) /\ Len(jobs') <= MaxJobs
      /\ drafts' \in [Drafts -> Nat] /\ faults' \in 0..MaxFaults
  <2>0. jobs' \in Seq(JobRow) /\ Len(jobs') <= MaxJobs
    BY <1>0, JobMoves
  <2>1. CASE Begin(i)
    BY <2>0, <2>1 DEF Begin, PurchaseRows
  <2>2. CASE Produce(i)
    <3>1. jobs[i].draft \in Drafts
      BY <1>0 DEF JobRow
    <3>2. drafts' = [drafts EXCEPT ![jobs[i].draft] = @ + 1]
      BY <2>2 DEF Produce
    <3>3. drafts' \in [Drafts -> Nat]
      BY ONLY <1>0, <3>1, <3>2
    <3> QED BY <1>0, <2>0, <2>2, <3>3 DEF Produce
  <2>3. CASE Reject(i)
    <3>1. faults' \in 0..MaxFaults
      BY <1>0, <2>3 DEF Reject
    <3> QED BY <1>0, <2>0, <2>3, <3>1 DEF Reject
  <2> QED BY <2>1, <2>2, <2>3 DEF Generate
<1> QED BY <1>1 DEF PurchaseRows, DrainShape, tradeVars, bookVars

LEMMA DrainTypes ==
    ASSUME PurchaseBounds, PurchaseRows, NEW w \in Drains, Drain(w)
    PROVE  PurchaseRows'
<1> USE BoundFacts
<1>0. /\ DOMAIN drain = Drains /\ \A v \in Drains : DrainShape(v)
      /\ book \in Seq(BookLine) /\ rows \in [Lines -> Rows]
  BY DEF PurchaseRows
<1>1. /\ UNCHANGED <<tradeVars, draftVars, work, edits>>
      /\ rows' \in [Lines -> Rows] /\ book' \in Seq(BookLine) /\ faults' \in 0..MaxFaults
      /\ DOMAIN drain' = Drains /\ DrainShape(w)'
      /\ \A v \in Drains : v # w => drain'[v] = drain[v]
  <2>1. CASE StartDrain(w)
    <3> DEFINE due == {b \in Lines : rows[b].state \in {"pending", "failed"}}
               copies == [b \in due |-> rows[b].payload]
    <3>1. /\ DOMAIN drain' = Drains
          /\ drain'[w] = [Asleep EXCEPT !.pc = "find", !.copies = copies]
          /\ \A v \in Drains : v # w => drain'[v] = drain[v]
      BY <1>0, <2>1, Sweeping, Zenon DEF StartDrain
    <3>2. due # {} /\ due \subseteq Lines /\ DOMAIN copies = due
      BY <2>1 DEF StartDrain
    <3>3. \A b \in due : copies[b] \in 0..MaxFigures
      BY <1>0 DEF Rows
    <3> HIDE DEF due, copies
    <3>4. /\ drain'[w].pc = "find" /\ drain'[w].copies = copies /\ drain'[w].done = <<>>
          /\ drain'[w].at = 0 /\ DOMAIN drain'[w] = {"pc", "copies", "at", "done"}
      BY <3>1 DEF Asleep
    <3>5. DrainShape(w)'
      BY <3>2, <3>3, <3>4 DEF DrainShape
    <3> QED BY <1>0, <2>1, <3>1, <3>5 DEF StartDrain, PurchaseRows
  <2>2. CASE Find(w)
    <3>1. /\ DOMAIN drain' = Drains
          /\ drain'[w] = [drain[w] EXCEPT !.pc = "write", !.at = FoundAt(Key(w))]
          /\ \A v \in Drains : v # w => drain'[v] = drain[v]
      BY <1>0, <2>2, Sweeping, Zenon DEF Find
    <3>2. DrainShape(w)'
      <4>1. FoundAt(Key(w)) \in Nat
        BY <1>0, FoundIsThere
      <4> QED BY <1>0, <2>2, <3>1, <4>1 DEF DrainShape, Find
    <3> QED BY <1>0, <2>2, <3>1, <3>2 DEF Find, PurchaseRows
  <2>3. CASE WriteLine(w)
    <3>1. /\ DOMAIN drain' = Drains
          /\ drain'[w] = [drain[w] EXCEPT !.pc = "stamp"]
          /\ \A v \in Drains : v # w => drain'[v] = drain[v]
      BY <1>0, <2>3, Sweeping, Zenon DEF WriteLine
    <3>2. DrainShape(w)'
      BY <1>0, <2>3, <3>1 DEF DrainShape, WriteLine
    <3>3. Copy(w) \in BookLine
      BY <1>0, <2>3, KeyIsRead DEF WriteLine
    <3>4. book' \in Seq(BookLine)
      <4>2. drain[w].at = 0 => book' = Append(book, Copy(w))
        BY <2>3 DEF WriteLine
      <4>3. drain[w].at # 0 => book' = [book EXCEPT ![drain[w].at] = Copy(w)] /\ drain[w].at \in DOMAIN book
        BY <1>0, <2>3 DEF WriteLine, DrainShape
      <4>4. CASE drain[w].at = 0
        <5>1. book' = Append(book, Copy(w)) /\ book \in Seq(BookLine)
          BY <1>0, <4>2, <4>4
        <5> HIDE DEF Copy
        <5> QED BY ONLY <3>3, <5>1
      <4>5. CASE drain[w].at # 0
        BY <1>0, <3>3, <4>3, <4>5, InPlace
      <4> QED BY <4>4, <4>5
    <3> QED BY <1>0, <2>3, <3>1, <3>2, <3>4 DEF WriteLine, PurchaseRows
  <2>4. CASE Stamp(w)
    <3>1. /\ DOMAIN drain' = Drains /\ drain'[w] = Stamped(w, "synced")
          /\ \A v \in Drains : v # w => drain'[v] = drain[v]
      BY <1>0, <2>4, Sweeping, Zenon DEF Stamp
    <3>2. DrainShape(w)'
      BY <1>0, <2>4, <3>1, StampedRow DEF Stamp
    <3> QED BY <1>0, <2>4, <3>1, <3>2 DEF Stamp, PurchaseRows
  <2>5. CASE Unwritten(w)
    <3>1. /\ DOMAIN drain' = Drains /\ drain'[w] = Stamped(w, "failed")
          /\ \A v \in Drains : v # w => drain'[v] = drain[v]
      BY <1>0, <2>5, Sweeping, Zenon DEF Unwritten
    <3>2. DrainShape(w)'
      BY <1>0, <2>5, <3>1, StampedRow DEF Unwritten
    <3> QED BY <1>0, <2>5, <3>1, <3>2 DEF Unwritten, PurchaseRows
  <2>6. CASE EndDrain(w)
    <3>1. /\ DOMAIN drain' = Drains /\ drain'[w] = Asleep
          /\ \A v \in Drains : v # w => drain'[v] = drain[v]
      BY <1>0, <2>6, Sweeping, Zenon DEF EndDrain
    <3>2. DrainShape(w)'
      BY <3>1 DEF DrainShape, Asleep
    <3>3. rows' \in [Lines -> Rows]
      <4>1. \A b \in DOMAIN drain[w].done : drain[w].done[b] \in {"synced", "failed"}
        BY <1>0 DEF DrainShape
      <4> QED BY <1>0, <2>6, <4>1 DEF EndDrain, Rows, RowStates
    <3> QED BY <1>0, <2>6, <3>1, <3>2, <3>3 DEF EndDrain, PurchaseRows
  <2> QED BY <2>1, <2>2, <2>3, <2>4, <2>5, <2>6 DEF Drain
<1>2. \A v \in Drains : DrainShape(v)'
  <2> TAKE v \in Drains
  <2>1. CASE v = w
    BY <1>1, <2>1
  <2>2. CASE v # w
    <3>1. DrainShape(v) /\ drain'[v] = drain[v]
      BY <1>0, <1>1, <2>2
    <3> QED BY ONLY <3>1 DEF DrainShape
  <2> QED BY <2>1, <2>2
<1> QED BY <1>1, <1>2 DEF PurchaseRows, tradeVars, draftVars

LEMMA OtherTypes ==
    ASSUME PurchaseBounds, PurchaseRows, EditBook \/ Restart
    PROVE  PurchaseRows'
<1> USE BoundFacts
<1>1. CASE EditBook
  <2>1. book' \in Seq(BookLine) /\ edits' \in 0..Edits
    BY <1>1 DEF EditBook, PurchaseRows
  <2> QED BY <1>1, <2>1 DEF EditBook, PurchaseRows, DrainShape, tradeVars, draftVars
<1>2. CASE Restart
  <2>1. work' \in [People -> WorkRow] /\ faults' \in 0..MaxFaults
    BY <1>2, RestIsRow DEF Restart, PurchaseRows
  <2>2. jobs' \in Seq(JobRow) /\ Len(jobs') <= MaxJobs
    <3>1. jobs \in Seq(JobRow) /\ Len(jobs) \in Nat /\ DOMAIN jobs = 1..Len(jobs)
      BY DEF PurchaseRows
    <3>2. DOMAIN jobs' = 1..Len(jobs)
      BY <1>2, <3>1 DEF Restart
    <3>3. \A i \in DOMAIN jobs : jobs'[i] \in JobRow
      <4> TAKE i \in DOMAIN jobs
      <4>1. jobs[i] \in JobRow
        BY <3>1
      <4>2. jobs'[i] = [jobs[i] EXCEPT !.task = IF @ = "running" THEN "stopped" ELSE @]
        BY <1>2 DEF Restart
      <4> QED BY <4>1, <4>2 DEF JobRow
    <3>4. jobs' = [i \in 1..Len(jobs) |-> jobs'[i]]
      BY <1>2, <3>1 DEF Restart
    <3>5. jobs' \in Seq(JobRow) /\ Len(jobs') = Len(jobs)
      BY ONLY <3>1, <3>2, <3>3, <3>4
    <3> QED BY <3>5 DEF PurchaseRows
  <2>3. DOMAIN drain' = Drains /\ \A w \in Drains : drain'[w] = Asleep
    BY <1>2 DEF Restart
  <2>4. \A w \in Drains : DrainShape(w)'
    BY <2>3 DEF DrainShape, Asleep
  <2> QED BY <1>2, <2>1, <2>2, <2>3, <2>4 DEF Restart, PurchaseRows, tradeVars
<1> QED BY <1>1, <1>2

-----------------------------------------------------------------------------
(* Jobs and the documents they make. *)

Flying(d) == {i \in DOMAIN jobs : jobs[i].draft = d /\ jobs[i].status \in {"queued", "processing"}}
Finished(d) == {i \in DOMAIN jobs : jobs[i].draft = d /\ jobs[i].status = "completed"}

LEMMA JobSets ==
    ASSUME jobs \in Seq(JobRow), NEW d
    PROVE  /\ IsFiniteSet(Flying(d)) /\ Cardinality(Flying(d)) \in Nat
           /\ IsFiniteSet(Finished(d)) /\ Cardinality(Finished(d)) \in Nat
           /\ Cardinality(Finished(d)) <= Len(jobs)
<1>1. DOMAIN jobs = 1..Len(jobs) /\ Len(jobs) \in Nat
  OBVIOUS
<1>2. IsFiniteSet(DOMAIN jobs) /\ Cardinality(DOMAIN jobs) = Len(jobs)
  <2>1. /\ IsFiniteSet(1..Len(jobs))
        /\ Cardinality(1..Len(jobs)) = IF 1 > Len(jobs) THEN 0 ELSE Len(jobs) - 1 + 1
    <3>1. 1 \in Int /\ Len(jobs) \in Int
      BY <1>1
    <3> QED BY <3>1, FS_Interval, Zenon
  <2> QED BY <1>1, <2>1
<1>3. Flying(d) \in SUBSET DOMAIN jobs /\ Finished(d) \in SUBSET DOMAIN jobs
  BY DEF Flying, Finished
<1>4. IsFiniteSet(Flying(d)) /\ IsFiniteSet(Finished(d)) /\ Cardinality(Finished(d)) <= Cardinality(DOMAIN jobs)
  BY <1>2, <1>3, FS_Subset, Zenon
<1>5. Cardinality(Flying(d)) \in Nat /\ Cardinality(Finished(d)) \in Nat
  BY <1>4, FS_CardinalityType, Zenon
<1> QED BY <1>2, <1>4, <1>5

\* A job that is queued is one more under way of its kind.
LEMMA QueuedJob ==
    ASSUME jobs \in Seq(JobRow), NEW e, jobs' = Append(jobs, NewJob(e)), NEW d
    PROVE  /\ Finished(d)' = Finished(d)
           /\ d # e => Flying(d)' = Flying(d)
           /\ d = e => Cardinality(Flying(d)') = Cardinality(Flying(d)) + 1
<1> DEFINE n == Len(jobs) + 1
<1>1. /\ DOMAIN jobs = 1..Len(jobs) /\ Len(jobs) \in Nat /\ DOMAIN jobs' = DOMAIN jobs \cup {n}
      /\ n \notin DOMAIN jobs /\ jobs'[n] = NewJob(e)
      /\ \A i \in DOMAIN jobs : jobs'[i] = jobs[i]
  OBVIOUS
<1> HIDE DEF n
<1>2. jobs'[n].draft = e /\ jobs'[n].status = "queued"
  BY <1>1 DEF NewJob
<1>3. Finished(d)' = Finished(d)
  BY <1>1, <1>2 DEF Finished
<1>4. d # e => Flying(d)' = Flying(d)
  BY <1>1, <1>2 DEF Flying
<1>5. d = e => Flying(d)' = Flying(d) \cup {n} /\ n \notin Flying(d)
  BY <1>1, <1>2 DEF Flying
<1> QED BY <1>3, <1>4, <1>5, JobSets, FS_AddElement

\* What a generation does to the two.
LEMMA GeneratedJob ==
    ASSUME PurchaseRows, NEW i \in DOMAIN jobs, Generate(i), NEW d \in Drafts
    PROVE  /\ drafts'[d] + Cardinality(Flying(d)') <= drafts[d] + Cardinality(Flying(d))
           /\ drafts[d] = Cardinality(Finished(d)) => drafts'[d] = Cardinality(Finished(d)')
<1>0. jobs \in Seq(JobRow) /\ drafts \in [Drafts -> Nat]
  BY DEF PurchaseRows
<1>1. /\ DOMAIN jobs' = DOMAIN jobs /\ jobs'[i].draft = jobs[i].draft
      /\ jobs[i].status \in {"queued", "processing"}
      /\ \A j \in DOMAIN jobs : j # i => jobs'[j] = jobs[j]
      /\ jobs[i].draft \in Drafts /\ jobs' \in Seq(JobRow)
  BY <1>0, JobMoves DEF JobRow
<1>2. /\ IsFiniteSet(Flying(d)) /\ Cardinality(Flying(d)) \in Nat
      /\ IsFiniteSet(Finished(d)) /\ Cardinality(Finished(d)) \in Nat
  BY <1>0, JobSets
<1>3. jobs[i].draft # d => Flying(d)' = Flying(d) /\ Finished(d)' = Finished(d)
  BY <1>1 DEF Flying, Finished
<1>4. CASE Begin(i)
  <2>1. jobs'[i].status = "processing" /\ drafts' = drafts
    BY <1>0, <1>4, JobMoves DEF Begin
  <2>2. Flying(d)' = Flying(d) /\ Finished(d)' = Finished(d)
    BY <1>1, <2>1 DEF Flying, Finished
  <2> QED BY <1>0, <1>2, <2>1, <2>2
<1>5. CASE Produce(i)
  <2>1. jobs'[i].status = "completed" /\ drafts' = [drafts EXCEPT ![jobs[i].draft] = @ + 1]
    <3>1. jobs'[i].status = "completed"
      BY <1>0, <1>5, JobMoves, Zenon DEF Generate
    <3> QED BY <1>5, <3>1 DEF Produce
  <2>2. CASE jobs[i].draft = d
    <3>1. /\ Flying(d)' = Flying(d) \ {i} /\ i \in Flying(d)
          /\ Finished(d)' = Finished(d) \cup {i} /\ i \notin Finished(d)
      BY <1>1, <2>1, <2>2 DEF Flying, Finished
    <3>2. /\ Cardinality(Flying(d)') = Cardinality(Flying(d)) - 1
          /\ Cardinality(Finished(d)') = Cardinality(Finished(d)) + 1
      <4>1. Cardinality(Flying(d)') = Cardinality(Flying(d)) - 1
        BY <1>2, <3>1, FS_RemoveElement, Zenon
      <4>2. Cardinality(Finished(d)') = Cardinality(Finished(d)) + 1
        BY <1>2, <3>1, FS_AddElement, Zenon
      <4> QED BY <4>1, <4>2
    <3>3. drafts'[d] = drafts[d] + 1 /\ drafts[d] \in Nat
      BY <1>0, <2>1, <2>2
    <3> QED BY <1>2, <3>2, <3>3
  <2>3. CASE jobs[i].draft # d
    <3>1. drafts'[d] = drafts[d] /\ drafts[d] \in Nat
      BY <1>0, <2>1, <2>3
    <3> QED BY <1>2, <1>3, <2>3, <3>1
  <2> QED BY <2>2, <2>3
<1>6. CASE Reject(i)
  <2>1. jobs'[i].status = "failed" /\ drafts' = drafts
    <3>1. jobs'[i].status = "failed"
      BY <1>0, <1>6, JobMoves, Zenon DEF Generate
    <3> QED BY <1>6, <3>1 DEF Reject
  <2>2. CASE jobs[i].draft = d
    <3>1. Flying(d)' = Flying(d) \ {i} /\ i \in Flying(d) /\ Finished(d)' = Finished(d)
      BY <1>1, <2>1, <2>2 DEF Flying, Finished
    <3>2. Cardinality(Flying(d)') = Cardinality(Flying(d)) - 1
      BY <1>2, <3>1, FS_RemoveElement, Zenon
    <3> QED BY <1>0, <1>2, <2>1, <3>1, <3>2
  <2>3. CASE jobs[i].draft # d
    BY <1>0, <1>2, <1>3, <2>1, <2>3
  <2> QED BY <2>2, <2>3
<1> QED BY <1>4, <1>5, <1>6 DEF Generate

\* A restart settles no job.
LEMMA StoppedJobs ==
    ASSUME jobs \in Seq(JobRow), Restart, NEW d
    PROVE  Flying(d)' = Flying(d) /\ Finished(d)' = Finished(d)
<1>1. DOMAIN jobs' = DOMAIN jobs
  BY DEF Restart
<1>2. \A i \in DOMAIN jobs : jobs'[i].draft = jobs[i].draft /\ jobs'[i].status = jobs[i].status
  <2> TAKE i \in DOMAIN jobs
  <2>1. jobs[i] \in JobRow
    OBVIOUS
  <2>2. jobs'[i] = [jobs[i] EXCEPT !.task = IF @ = "running" THEN "stopped" ELSE @]
    BY DEF Restart
  <2> QED BY <2>1, <2>2 DEF JobRow
<1> QED BY <1>1, <1>2 DEF Flying, Finished

LEMMA CountsAreThese ==
    /\ \A d \in Drafts : Copies(d) = drafts[d] + Cardinality(Flying(d))
    /\ DraftsHaveTheirJobs <=> \A d \in Drafts : drafts[d] = Cardinality(Finished(d))
BY DEF Copies, DraftsHaveTheirJobs, Flying, Finished

\* Every step leaves documents and completed jobs agreeing.
LEMMA JobsKeep ==
    ASSUME PurchaseBounds, PurchaseRows, DraftsHaveTheirJobs, [Next]_vars
    PROVE  DraftsHaveTheirJobs'
<1>0. jobs \in Seq(JobRow) /\ \A d \in Drafts : drafts[d] = Cardinality(Finished(d))
  BY CountsAreThese DEF PurchaseRows
<1>1. ASSUME drafts' = drafts, \A d \in Drafts : Finished(d)' = Finished(d)
      PROVE  DraftsHaveTheirJobs'
  BY <1>0, <1>1 DEF DraftsHaveTheirJobs, Finished
<1>2. CASE UNCHANGED <<drafts, jobs>>
  BY <1>1, <1>2 DEF Finished
<1>3. ASSUME NEW p \in People, Queue(p)
      PROVE  DraftsHaveTheirJobs'
  <2>1. drafts' = drafts
    BY <1>3 DEF Queue
  <2>2. jobs' = jobs \/ jobs' = Append(jobs, NewJob(Min(work[p].todo)))
    BY <1>3 DEF Queue
  <2>3. \A d \in Drafts : Finished(d)' = Finished(d)
    <3>1. CASE jobs' = jobs
      BY <3>1 DEF Finished
    <3>2. CASE jobs' = Append(jobs, NewJob(Min(work[p].todo)))
      BY <1>0, <3>2, QueuedJob
    <3> QED BY <2>2, <3>1, <3>2
  <2> QED BY <1>1, <2>1, <2>3
<1>4. ASSUME NEW p \in People, NEW e \in Drafts, QueueDraft(p, e)
      PROVE  DraftsHaveTheirJobs'
  <2>1. drafts' = drafts /\ jobs' = Append(jobs, NewJob(e))
    BY <1>4 DEF QueueDraft
  <2>2. \A d \in Drafts : Finished(d)' = Finished(d)
    BY <1>0, <2>1, QueuedJob
  <2> QED BY <1>1, <2>1, <2>2
<1>5. ASSUME NEW i \in DOMAIN jobs, Generate(i)
      PROVE  DraftsHaveTheirJobs'
  <2>1. \A d \in Drafts : drafts'[d] = Cardinality(Finished(d)')
    BY <1>0, <1>5, GeneratedJob
  <2> QED BY <2>1 DEF DraftsHaveTheirJobs, Finished
<1>6. CASE Restart
  <2>1. \A d \in Drafts : Finished(d)' = Finished(d)
    BY <1>0, <1>6, StoppedJobs
  <2> QED BY <1>1, <1>6, <2>1 DEF Restart
<1>7. ASSUME NEW p \in People, Confirm(p) \/ AskDraft(p) \/ Look(p) \/ Flush(p) \/ Check(p)
      PROVE  UNCHANGED <<drafts, jobs>>
  BY <1>7 DEF Confirm, AskDraft, Look, Flush, Check, draftVars
<1>8. ASSUME NEW w \in Drains, Drain(w)
      PROVE  UNCHANGED <<drafts, jobs>>
  BY <1>8 DEF Drain, StartDrain, Find, WriteLine, Stamp, Unwritten, EndDrain, draftVars
<1>9. ASSUME \/ \E k \in Items \cup Strays : Arrive(k)
             \/ Refile \/ Correct \/ AdoptNumber \/ Freeze \/ EditBook \/ UNCHANGED vars
      PROVE  UNCHANGED <<drafts, jobs>>
  BY <1>9 DEF Arrive, Refile, Correct, AdoptNumber, Freeze, EditBook, vars, draftVars
<1> QED BY <1>2, <1>3, <1>4, <1>5, <1>6, <1>7, <1>8, <1>9 DEF Next, Handle

-----------------------------------------------------------------------------
(* Who holds the sheet's row, and who owes the contract. *)

Requests == (\A p \in People : Owes(p)) /\ OneHolder

LEMMA QueueEffect ==
    ASSUME PurchaseBounds, PurchaseRows, NEW p \in People, Owes(p), Queue(p)
    PROVE  /\ Contract \in work[p].todo => Min(work[p].todo) = Contract
           /\ \/ work'[p] = Idle
              \/ /\ work'[p].pc = "queue" /\ work'[p].batch = work[p].batch
                 /\ work'[p].todo # {} /\ Contract \notin work'[p].todo
                 /\ work'[p].holds => work[p].holds
           /\ \A q \in People : q # p => work'[q] = work[q]
<1> DEFINE d == Min(work[p].todo)
           rest == work[p].todo \ {d}
<1>1. work \in [People -> WorkRow] /\ work[p] \in WorkRow
  BY DEF PurchaseRows
<1>2. work[p].pc = "queue" /\ work[p].todo # {} /\ work[p].todo \subseteq Drafts /\ Drafts \subseteq Nat
  BY <1>1, BoundFacts DEF Queue, Owes, WorkRow, Drafts
<1>3. d \in work[p].todo /\ \A e \in work[p].todo : d <= e
  <2>1. work[p].todo \in SUBSET Nat
    BY <1>2
  <2> QED BY <1>2, <2>1, MinIsIn, Zenon
<1> HIDE DEF d
<1>4. Contract \in work[p].todo => d = Contract
  BY <1>2, <1>3, BoundFacts DEF Contract, Drafts
<1>5. Become(p, IF rest = {} THEN Idle
                ELSE [work[p] EXCEPT !.todo = rest, !.holds = @ /\ drafts[d] > 0])
  BY DEF Queue, d
<1>6. /\ work'[p] = IF rest = {} THEN Idle
                    ELSE [work[p] EXCEPT !.todo = rest, !.holds = @ /\ drafts[d] > 0]
      /\ \A q \in People : q # p => work'[q] = work[q]
  <2>1. DOMAIN work = People
    BY <1>1
  <2> QED BY <1>5, <2>1, Becoming, Zenon
<1>7. CASE rest = {}
  BY <1>4, <1>6, <1>7 DEF d
<1>8. CASE rest # {}
  <2>1. /\ work'[p].pc = "queue" /\ work'[p].batch = work[p].batch /\ work'[p].todo = rest
        /\ work'[p].holds => work[p].holds
    BY <1>1, <1>2, <1>6, <1>8 DEF WorkRow
  <2>2. Contract \notin rest
    BY <1>4
  <2> QED BY <1>4, <1>6, <1>8, <2>1, <2>2 DEF d
<1> QED BY <1>7, <1>8

\* The other steps of a request.
LEMMA RequestEffect ==
    ASSUME PurchaseBounds, PurchaseRows, NEW p \in People, Owes(p),
           \/ Confirm(p) \/ AskDraft(p) \/ Look(p) \/ Flush(p) \/ Check(p)
           \/ \E d \in Drafts : QueueDraft(p, d)
    PROVE  /\ \A q \in People : q # p => work'[q] = work[q]
           /\ \/ work'[p] = Idle /\ (Flush(p) \/ Check(p) \/ \E d \in Drafts : QueueDraft(p, d))
              \/ /\ Confirm(p) \/ AskDraft(p) \/ Look(p)
                 /\ work'[p].pc \in {"look", "manual", "flush"} /\ ~work'[p].holds
                 /\ work'[p].pc = "manual" <=> AskDraft(p)
              \/ /\ Flush(p) /\ ~RowHeld(Line(p))
                 /\ work'[p].pc = "check" /\ work'[p].holds /\ work'[p].batch = work[p].batch
              \/ /\ Check(p) /\ Owed(p) # {} /\ work[p].holds
                 /\ work'[p].pc = "queue" /\ work'[p].holds /\ work'[p].batch = work[p].batch
                 /\ work'[p].todo = Owed(p)
<1>1. /\ work \in [People -> WorkRow] /\ work[p] \in WorkRow
      /\ DOMAIN work = People
  BY DEF PurchaseRows
<1>2. CASE Confirm(p)
  <2>1. /\ work'[p] = [Idle EXCEPT !.pc = "look", !.figures = figures, !.batch = batch,
                                   !.frozen = frozen]
        /\ \A q \in People : q # p => work'[q] = work[q]
    BY <1>1, <1>2, Becoming, Zenon DEF Confirm
  <2>2. work'[p].pc = "look" /\ ~work'[p].holds
    BY <2>1 DEF Idle
  <2>3. ~AskDraft(p)
    <3>1. AskDraft(p) => work'[p] = [Idle EXCEPT !.pc = "manual"]
      BY <1>1, Becoming, Zenon DEF AskDraft
    <3>2. [Idle EXCEPT !.pc = "manual"].pc = "manual"
      BY DEF Idle
    <3> QED BY <2>2, <3>1, <3>2
  <2> QED BY <1>2, <2>1, <2>2, <2>3
<1>3. CASE AskDraft(p)
  <2>1. /\ work'[p] = [Idle EXCEPT !.pc = "manual"]
        /\ \A q \in People : q # p => work'[q] = work[q]
    BY <1>1, <1>3, Becoming, Zenon DEF AskDraft
  <2>2. work'[p].pc = "manual" /\ ~work'[p].holds
    BY <2>1 DEF Idle
  <2> QED BY <1>3, <2>1, <2>2
<1>4. CASE Look(p)
  <2>1. /\ work'[p] = [work[p] EXCEPT !.pc = "flush", !.seen = rows[Line(p)]]
        /\ \A q \in People : q # p => work'[q] = work[q]
    BY <1>1, <1>4, Becoming, Zenon DEF Look
  <2>2. work'[p].pc = "flush" /\ ~work'[p].holds
    BY <1>1, <1>4, <2>1 DEF Look, WorkRow, Owes
  <2>3. ~AskDraft(p)
    BY <1>4 DEF Look, AskDraft, Idle
  <2> QED BY <1>4, <2>1, <2>2, <2>3
<1>5. CASE Flush(p)
  <2>1. /\ \/ work'[p] = Idle
           \/ work'[p] = [work[p] EXCEPT !.pc = "check", !.holds = TRUE]
        /\ \A q \in People : q # p => work'[q] = work[q]
    BY <1>1, <1>5, Becoming, Zenon DEF Flush
  <2>2. work'[p] # Idle => work'[p].pc = "check" /\ work'[p].holds /\ work'[p].batch = work[p].batch
    BY <1>1, <2>1 DEF WorkRow
  <2>3. ~RowHeld(Line(p))
    BY <1>5 DEF Flush
  <2> QED BY <1>5, <2>1, <2>2, <2>3, Zenon
<1>6. CASE Check(p)
  <2>1. /\ \/ work'[p] = Idle
           \/ work'[p] = [work[p] EXCEPT !.pc = "queue", !.todo = Owed(p)] /\ Owed(p) # {}
        /\ \A q \in People : q # p => work'[q] = work[q]
    BY <1>1, <1>6, Becoming, Zenon DEF Check
  <2>2. work[p].holds
    BY <1>6 DEF Check, Owes
  <2>3. work'[p] # Idle => /\ work'[p].pc = "queue" /\ work'[p].holds = work[p].holds
                           /\ work'[p].batch = work[p].batch
                           /\ work'[p].todo = Owed(p) /\ Owed(p) # {}
    <3> HIDE DEF Owed
    <3> QED BY <1>1, <2>1 DEF WorkRow
  <2> QED BY <1>6, <2>1, <2>2, <2>3
<1>7. CASE \E d \in Drafts : QueueDraft(p, d)
  <2>1. work'[p] = Idle /\ \A q \in People : q # p => work'[q] = work[q]
    BY <1>1, <1>7, Becoming, Zenon DEF QueueDraft
  <2> QED BY <1>7, <2>1
<1> QED BY <1>2, <1>3, <1>4, <1>5, <1>6, <1>7

LEMMA IdleOwesNothing ==
    Idle.pc = "idle" /\ ~Idle.holds
BY DEF Idle

\* Only one request at a time holds a row of the sheet.
LEMMA RequestsKeep ==
    ASSUME PurchaseBounds, PurchaseRows, Requests, [Next]_vars
    PROVE  Requests'
<1>1. ASSUME UNCHANGED work
      PROVE  Requests'
  BY <1>1 DEF Requests, Owes, OneHolder, Line
<1>2. ASSUME NEW p \in People, \A q \in People : q # p => work'[q] = work[q],
             Owes(p)', work'[p].holds =>
                          \/ work[p].holds /\ work'[p].batch = work[p].batch
                          \/ ~RowHeld(Line(p)) /\ work'[p].batch = work[p].batch
      PROVE  Requests'
  <2>1. \A q \in People : Owes(q)'
    BY <1>2 DEF Requests, Owes
  <2>2. \A q \in People : q # p /\ work'[p].holds /\ work[q].holds => Line(q) # work'[p].batch
    BY <1>2 DEF Requests, OneHolder, RowHeld, Line
  <2>3. OneHolder'
    BY <1>2, <2>2 DEF Requests, OneHolder, Line
  <2> QED BY <2>1, <2>3 DEF Requests
<1>3. ASSUME NEW p \in People, Queue(p)
      PROVE  Requests'
  <2>1. Owes(p)
    BY DEF Requests
  <2>2. Owes(p)' /\ (work'[p].holds => work[p].holds /\ work'[p].batch = work[p].batch)
    BY <1>3, <2>1, QueueEffect, IdleOwesNothing DEF Owes
  <2> QED BY <1>2, <1>3, <2>1, <2>2, QueueEffect
<1>4. ASSUME NEW p \in People,
             \/ Confirm(p) \/ AskDraft(p) \/ Look(p) \/ Flush(p) \/ Check(p)
             \/ \E d \in Drafts : QueueDraft(p, d)
      PROVE  Requests'
  <2>1. Owes(p)
    BY DEF Requests
  <2>2. /\ Owes(p)'
        /\ work'[p].holds => (work[p].holds \/ ~RowHeld(Line(p))) /\ work'[p].batch = work[p].batch
    <3> HIDE DEF Confirm, AskDraft, Look, Flush, Check, QueueDraft
    <3> QED BY <1>4, <2>1, RequestEffect, IdleOwesNothing DEF Owes
  <2>3. \A q \in People : q # p => work'[q] = work[q]
    BY <1>4, <2>1, RequestEffect
  <2> QED BY <1>2, <2>2, <2>3
<1>5. CASE Restart
  <2>1. \A p \in People : work'[p] = Idle
    BY <1>5 DEF Restart
  <2> QED BY <2>1, IdleOwesNothing DEF Requests, Owes, OneHolder
<1>6. ASSUME NEW w \in Drains, Drain(w)
      PROVE  UNCHANGED work
  BY <1>6 DEF Drain, StartDrain, Find, WriteLine, Stamp, Unwritten, EndDrain
<1>7. ASSUME NEW i \in DOMAIN jobs, Generate(i)
      PROVE  UNCHANGED work
  BY <1>7 DEF Generate, Begin, Produce, Reject
<1>8. ASSUME \/ \E k \in Items \cup Strays : Arrive(k)
             \/ Refile \/ Correct \/ AdoptNumber \/ Freeze \/ EditBook \/ UNCHANGED vars
      PROVE  UNCHANGED work
  BY <1>8 DEF Arrive, Refile, Correct, AdoptNumber, Freeze, EditBook, vars
<1> QED BY <1>1, <1>3, <1>4, <1>5, <1>6, <1>7, <1>8 DEF Next, Handle

LEMMA AskersAreCounted ==
    ASSUME PurchaseBounds, NEW S \in SUBSET People
    PROVE  IsFiniteSet(S) /\ Cardinality(S) \in Nat
<1>1. IsFiniteSet(S)
  BY BoundFacts, FS_Subset, Zenon
<1> QED BY <1>1, FS_CardinalityType, Zenon

\* A trade that keeps its number: the contracts there are, those under way and
\* those that are about to be asked for are the first and the people's own.
LEMMA ContractKeeps ==
    ASSUME PurchaseBounds, PurchaseRows, Requests, Numbers = 1, Contract \in Drafts,
           NotStacked, [Next]_vars
    PROVE  NotStacked'
<1> DEFINE Both == Asking \cup AboutTo
           fly == Cardinality(Flying(Contract))
           fly_ == Cardinality(Flying(Contract)')
           n == drafts[Contract] + fly
           n_ == drafts'[Contract] + fly_
<1>1. /\ IsFiniteSet(Asking) /\ Cardinality(Asking) \in Nat
      /\ IsFiniteSet(Both) /\ Cardinality(Both) \in Nat
      /\ Asking \subseteq People /\ Both \subseteq People
      /\ IsFiniteSet(Asking') /\ Cardinality(Asking') \in Nat
      /\ IsFiniteSet(Both') /\ Cardinality(Both') \in Nat
  <2>1. Asking \in SUBSET People /\ Both \in SUBSET People /\ Asking' \in SUBSET People /\ Both' \in SUBSET People
    BY DEF Asking, AboutTo
  <2> QED BY <2>1, AskersAreCounted
<1>2. /\ jobs \in Seq(JobRow) /\ drafts[Contract] \in Nat /\ fly \in Nat /\ asked \in Nat
      /\ Cardinality(Asking) <= asked
      /\ n \in Nat /\ n + Cardinality(Both) <= 1 + asked
  <2>1. jobs \in Seq(JobRow) /\ drafts[Contract] \in Nat /\ asked \in Nat
    BY BoundFacts DEF PurchaseRows
  <2>2. Copies(Contract) = drafts[Contract] + fly
    BY CountsAreThese
  <2> HIDE DEF Both
  <2>3. Cardinality(Asking) <= asked /\ Copies(Contract) + Cardinality(Both) <= 1 + asked
    BY DEF NotStacked, Both
  <2>4. fly \in Nat
    BY <2>1, JobSets
  <2> QED BY <2>1, <2>2, <2>3, <2>4
<1>3. ASSUME Cardinality(Asking') <= asked',
             n_ + Cardinality(Both') <= 1 + asked'
      PROVE  NotStacked'
  <2>1. Copies(Contract)' = drafts'[Contract] + fly_
    BY DEF Copies, Flying
  <2> HIDE DEF fly_
  <2> QED BY <1>3, <2>1 DEF NotStacked
<1>4. ASSUME UNCHANGED <<drafts, jobs, asked>>, Asking' \subseteq Asking, Both' \subseteq Both
      PROVE  NotStacked'
  <2>1. Cardinality(Asking') <= Cardinality(Asking) /\ Cardinality(Both') <= Cardinality(Both)
    <3>1. Asking' \in SUBSET Asking /\ Both' \in SUBSET Both
      BY <1>4
    <3> HIDE DEF Both
    <3> QED BY <1>1, <3>1, FS_Subset, Zenon
  <2>2. fly_ = fly
    BY <1>4 DEF Flying
  <2>3. n_ = n
    BY <1>4, <2>2
  <2> HIDE DEF fly, fly_, n, n_, Both
  <2>4. Cardinality(Asking') <= asked' /\ n_ + Cardinality(Both') <= 1 + asked'
    BY <1>1, <1>2, <1>4, <2>1, <2>3
  <2> QED BY <1>3, <2>4, Zenon
<1> HIDE DEF fly, fly_, n, n_, Both
<1>0. Cardinality(Asking) \in Nat /\ Cardinality(Both) \in Nat
      /\ Cardinality(Asking') \in Nat /\ Cardinality(Both') \in Nat
      /\ drafts[Contract] \in Nat /\ fly \in Nat /\ asked \in Nat
      /\ Cardinality(Asking) <= asked /\ n \in Nat /\ n + Cardinality(Both) <= 1 + asked
  BY <1>1, <1>2
<1>5. ASSUME UNCHANGED <<drafts, jobs, asked, work>>
      PROVE  NotStacked'
  <2>1. Asking' = Asking /\ Both' = Both
    BY <1>5 DEF Asking, AboutTo, Both
  <2> QED BY <1>4, <1>5, <2>1
<1>6. ASSUME NEW p \in People, Confirm(p) \/ Look(p) \/ Flush(p)
      PROVE  NotStacked'
  <2>1. UNCHANGED <<drafts, jobs, asked>>
    BY <1>6 DEF Confirm, Look, Flush, draftVars
  <2>2. /\ \A q \in People : q # p => work'[q] = work[q]
        /\ work'[p].pc \in {"idle", "look", "flush", "check"}
    <3>1. Owes(p)
      BY DEF Requests
    <3>2. ~(work'[p].pc = "manual" /\ AskDraft(p))
      <4>1. AskDraft(p) => work[p].pc = "idle" /\ asked' = asked + 1
        BY DEF AskDraft, Idle
      <4> QED BY <1>2, <2>1, <4>1
    <3>3. ~Check(p)
      <4>1. Check(p) => work[p].pc = "check"
        BY DEF Check
      <4>2. work[p].pc \in {"idle", "look", "flush"}
        BY <1>6 DEF Confirm, Look, Flush, Idle
      <4> QED BY <4>1, <4>2
    <3>4. \/ Confirm(p) \/ AskDraft(p) \/ Look(p) \/ Flush(p) \/ Check(p)
          \/ \E d \in Drafts : QueueDraft(p, d)
      BY <1>6
    <3> HIDE DEF Confirm, AskDraft, Look, Flush, Check, QueueDraft
    <3> QED BY <3>1, <3>2, <3>3, <3>4, RequestEffect, IdleOwesNothing
  <2>3. Asking' \subseteq Asking /\ Both' \subseteq Both
    BY <2>2 DEF Asking, AboutTo, Both
  <2> QED BY <1>4, <2>1, <2>3
<1>7. ASSUME NEW p \in People, AskDraft(p)
      PROVE  NotStacked'
  <2>1. UNCHANGED <<drafts, jobs>> /\ asked' = asked + 1 /\ work[p].pc = "idle"
    BY <1>7 DEF AskDraft, Idle
  <2>2. /\ \A q \in People : q # p => work'[q] = work[q]
        /\ work'[p].pc = "manual"
    <3>1. work'[p] = [Idle EXCEPT !.pc = "manual"] /\ \A q \in People : q # p => work'[q] = work[q]
      <4>1. DOMAIN work = People
        BY DEF PurchaseRows
      <4> QED BY <1>7, <4>1, Becoming, Zenon DEF AskDraft
    <3> QED BY <3>1 DEF Idle
  <2>3. /\ Asking' = Asking \cup {p} /\ p \notin Asking
        /\ Both' = Both \cup {p} /\ p \notin Both
    BY <2>1, <2>2 DEF Asking, AboutTo, Both
  <2>4. /\ Cardinality(Asking') = Cardinality(Asking) + 1
        /\ Cardinality(Both') = Cardinality(Both) + 1
    <3>1. Cardinality(Asking') = Cardinality(Asking) + 1
      BY <1>1, <2>3, FS_AddElement, Zenon
    <3>2. Cardinality(Both') = Cardinality(Both) + 1
      BY <1>1, <2>3, FS_AddElement, Zenon
    <3> QED BY <3>1, <3>2
  <2>5. fly_ = fly
    BY <2>1 DEF Flying, fly, fly_
  <2>6. n_ = n
    BY <2>1, <2>5 DEF n, n_
  <2>7. Cardinality(Asking') <= asked' /\ n_ + Cardinality(Both') <= 1 + asked'
    BY ONLY <1>0, <2>1, <2>4, <2>6
  <2> QED BY <1>3, <2>7, Zenon
<1>8. ASSUME NEW p \in People, Check(p)
      PROVE  NotStacked'
  <2>1. UNCHANGED <<drafts, jobs, asked>> /\ work[p].pc = "check"
    BY <1>8 DEF Check, draftVars
  <2>2. /\ \A q \in People : q # p => work'[q] = work[q]
        /\ \/ work'[p].pc = "idle"
           \/ work'[p].pc = "queue" /\ work'[p].todo = Owed(p) /\ work[p].holds
    <3>1. work[p].holds
      BY <2>1 DEF Requests, Owes
    <3>2. /\ \/ work'[p] = Idle
             \/ work'[p] = [work[p] EXCEPT !.pc = "queue", !.todo = Owed(p)]
          /\ \A q \in People : q # p => work'[q] = work[q]
      <4>1. DOMAIN work = People
        BY DEF PurchaseRows
      <4> QED BY <1>8, <4>1, Becoming, Zenon DEF Check
    <3>3. work[p] \in WorkRow
      BY DEF PurchaseRows
    <3> HIDE DEF Owed
    <3> QED BY <3>1, <3>2, <3>3, IdleOwesNothing DEF WorkRow
  <2>3. Asking' \subseteq Asking
    BY <2>2 DEF Asking
  <2>4. CASE Both' \subseteq Both
    BY <1>4, <2>1, <2>3, <2>4
  <2>5. CASE ~(Both' \subseteq Both)
    <3>1. work'[p].pc = "queue" /\ Contract \in Owed(p) /\ work[p].holds
      BY <2>2, <2>5 DEF Both, Asking, AboutTo
    <3>2. drafts[Contract] = 0 /\ Flying(Contract) = {}
      BY <3>1 DEF Owed, InFlight, Flying
    <3>3. fly = 0 /\ fly_ = 0
      BY <2>1, <3>2, FS_EmptySet DEF fly, fly_, Flying
    <3>4. AboutTo = {}
      <4>1. \A q \in AboutTo : work[q].holds /\ q \in People /\ q # p
        BY <2>1 DEF AboutTo, Requests, Owes
      <4>2. \A q \in People : Line(q) = Line(p)
        <5>1. \A q \in People : work[q].batch \in 1..1
          BY DEF PurchaseRows, WorkRow, Lines
        <5> QED BY <5>1 DEF Line
      <4> QED BY <3>1, <4>1, <4>2 DEF Requests, OneHolder
    <3>5. Both' = Asking \cup {p} /\ p \notin Asking
      BY <2>1, <2>2, <3>1, <3>4 DEF Both, Asking, AboutTo
    <3>6. Cardinality(Both') = Cardinality(Asking) + 1
      BY <1>1, <3>5, FS_AddElement, Zenon
    <3>7. Cardinality(Asking') <= Cardinality(Asking)
      BY <1>1, <2>3, FS_Subset
    <3>8. n_ = 0
      BY <2>1, <3>2, <3>3 DEF n, n_
    <3>9. Cardinality(Asking') <= asked' /\ n_ + Cardinality(Both') <= 1 + asked'
      BY ONLY <1>0, <2>1, <3>6, <3>7, <3>8
    <3> QED BY <1>3, <3>9, Zenon
  <2> QED BY <2>4, <2>5
<1>9. ASSUME NEW p \in People, Queue(p)
      PROVE  NotStacked'
  <2> DEFINE d == Min(work[p].todo)
  <2>0. UNCHANGED <<drafts, asked>>
    BY <1>9 DEF Queue
  <2>1. /\ work[p].pc = "queue"
        /\ jobs' = jobs \/ jobs' = Append(jobs, NewJob(d))
    BY <1>9 DEF Queue
  <2> HIDE DEF d
  <2>2. /\ Contract \in work[p].todo => d = Contract
        /\ \A q \in People : q # p => work'[q] = work[q]
        /\ work'[p].pc = "idle" \/ (work'[p].pc = "queue" /\ Contract \notin work'[p].todo)
    BY <1>9, QueueEffect, IdleOwesNothing DEF Requests, d
  <2>3. Asking' = Asking
    BY <2>1, <2>2 DEF Asking
  <2>4. CASE Contract \in work[p].todo
    <3>1. Both' = Both \ {p} /\ p \in Both
      BY <2>1, <2>2, <2>4 DEF Both, Asking, AboutTo
    <3>2. Cardinality(Both') = Cardinality(Both) - 1
      BY <1>1, <3>1, FS_RemoveElement, Zenon
    <3>3. fly_ = fly \/ fly_ = fly + 1
      <4>1. CASE jobs' = jobs
        BY <4>1 DEF Flying, fly, fly_
      <4>2. CASE jobs' = Append(jobs, NewJob(d))
        BY <1>2, <2>2, <2>4, <4>2, QueuedJob DEF fly, fly_
      <4> QED BY <2>1, <4>1, <4>2
    <3>4. n_ = n \/ n_ = n + 1
      BY ONLY <1>0, <2>0, <3>3 DEF n, n_
    <3>5. Cardinality(Asking') <= asked' /\ n_ + Cardinality(Both') <= 1 + asked'
      BY ONLY <1>0, <2>0, <2>3, <3>2, <3>4
    <3> QED BY <1>3, <3>5, Zenon
  <2>5. CASE Contract \notin work[p].todo
    <3>1. Both' = Both
      BY <2>1, <2>2, <2>5 DEF Both, Asking, AboutTo
    <3>2. d # Contract
      <4>1. Owes(p) /\ work[p] \in WorkRow
        BY DEF Requests, PurchaseRows
      <4> QED BY <2>1, <2>5, <4>1, NextOfTodo DEF d, Owes
    <3>3. fly_ = fly
      <4>1. CASE jobs' = jobs
        BY <4>1 DEF Flying, fly, fly_
      <4>2. CASE jobs' = Append(jobs, NewJob(d))
        BY <1>2, <3>2, <4>2, QueuedJob DEF fly, fly_
      <4> QED BY <2>1, <4>1, <4>2
    <3>4. n_ = n
      BY ONLY <2>0, <3>3 DEF n, n_
    <3>5. Cardinality(Asking') <= asked' /\ n_ + Cardinality(Both') <= 1 + asked'
      BY ONLY <1>0, <2>0, <2>3, <3>1, <3>4
    <3> QED BY <1>3, <3>5, Zenon
  <2> QED BY <2>4, <2>5
<1>10. ASSUME NEW p \in People, NEW e \in Drafts, QueueDraft(p, e)
       PROVE  NotStacked'
  <2>0. UNCHANGED <<drafts, asked>>
    BY <1>10 DEF QueueDraft
  <2>1. /\ work[p].pc = "manual"
        /\ jobs' = Append(jobs, NewJob(e))
    BY <1>10 DEF QueueDraft
  <2>2. work'[p] = Idle /\ \A q \in People : q # p => work'[q] = work[q]
    <3>1. DOMAIN work = People
      BY DEF PurchaseRows
    <3> QED BY <1>10, <3>1, Becoming, Zenon DEF QueueDraft
  <2>3. /\ Asking' = Asking \ {p} /\ p \in Asking
        /\ Both' = Both \ {p} /\ p \in Both
    BY <2>1, <2>2, IdleOwesNothing DEF Both, Asking, AboutTo
  <2>4. Cardinality(Asking') = Cardinality(Asking) - 1
    BY <1>1, <2>3, FS_RemoveElement, Zenon
  <2>5. Cardinality(Both') = Cardinality(Both) - 1
    BY <1>1, <2>3, FS_RemoveElement, Zenon
  <2>6. fly_ = fly \/ fly_ = fly + 1
    BY <1>2, <2>1, QueuedJob DEF fly, fly_
  <2>7. n_ = n \/ n_ = n + 1
    BY ONLY <1>0, <2>0, <2>6 DEF n, n_
  <2>8. Cardinality(Asking') <= asked' /\ n_ + Cardinality(Both') <= 1 + asked'
    BY ONLY <1>0, <2>0, <2>4, <2>5, <2>7
  <2> QED BY <1>3, <2>8, Zenon
<1>11. ASSUME NEW i \in DOMAIN jobs, Generate(i)
       PROVE  NotStacked'
  <2>1. UNCHANGED <<asked, work>>
    BY <1>11 DEF Generate, Begin, Produce, Reject
  <2>2. Asking' = Asking /\ Both' = Both
    BY <2>1 DEF Asking, AboutTo, Both
  <2>3. drafts'[Contract] + fly_ <= drafts[Contract] + fly
    BY <1>11, GeneratedJob DEF fly, fly_
  <2>4. drafts'[Contract] \in Nat /\ fly_ \in Nat
    <3>1. PurchaseRows'
      BY <1>11, GenerateTypes
    <3>2. drafts'[Contract] \in Nat /\ jobs' \in Seq(JobRow)
      BY <3>1 DEF PurchaseRows, Drafts, Contract
    <3>3. \A j \in DOMAIN jobs : TRUE
      OBVIOUS
    <3>4. IsFiniteSet(Flying(Contract)')
      <4>1. IsFiniteSet(DOMAIN jobs')
        <5>1. DOMAIN jobs' = 1..Len(jobs') /\ 1 \in Int /\ Len(jobs') \in Int
          BY <3>2
        <5> QED BY <5>1, FS_Interval, Zenon
      <4>2. Flying(Contract)' \in SUBSET DOMAIN jobs'
        BY DEF Flying
      <4> QED BY <4>1, <4>2, FS_Subset, Zenon
    <3>5. fly_ \in Nat
      BY <3>4, FS_CardinalityType, Zenon DEF fly_
    <3> QED BY <3>2, <3>5
  <2>5. n_ \in Nat /\ n_ <= n
    BY ONLY <1>0, <2>3, <2>4 DEF n, n_
  <2>6. Cardinality(Asking') <= asked' /\ n_ + Cardinality(Both') <= 1 + asked'
    BY ONLY <1>0, <2>1, <2>2, <2>5
  <2> QED BY <1>3, <2>6, Zenon
<1>12. CASE Restart
  <2>1. \A p \in People : work'[p] = Idle
    BY <1>12 DEF Restart
  <2>2. Asking' = {} /\ Both' = {}
    BY <2>1, IdleOwesNothing DEF Asking, AboutTo, Both
  <2>3. Cardinality(Asking') = 0 /\ Cardinality(Both') = 0
    BY <2>2, FS_EmptySet
  <2>4. fly_ = fly
    BY <1>2, <1>12, StoppedJobs DEF fly, fly_
  <2>5. UNCHANGED <<drafts, asked>>
    BY <1>12 DEF Restart
  <2>6. n_ = n
    BY <2>4, <2>5 DEF n, n_
  <2>7. Cardinality(Asking') <= asked' /\ n_ + Cardinality(Both') <= 1 + asked'
    BY ONLY <1>0, <2>3, <2>5, <2>6
  <2> QED BY <1>3, <2>7, Zenon
<1>13. ASSUME NEW w \in Drains, Drain(w)
       PROVE  UNCHANGED <<drafts, jobs, asked, work>>
  BY <1>13 DEF Drain, StartDrain, Find, WriteLine, Stamp, Unwritten, EndDrain, draftVars
<1>14. ASSUME \/ \E k \in Items \cup Strays : Arrive(k)
              \/ Refile \/ Correct \/ AdoptNumber \/ Freeze \/ EditBook \/ UNCHANGED vars
       PROVE  UNCHANGED <<drafts, jobs, asked, work>>
  BY <1>14 DEF Arrive, Refile, Correct, AdoptNumber, Freeze, EditBook, vars, draftVars
<1> QED BY <1>5, <1>6, <1>7, <1>8, <1>9, <1>10, <1>11, <1>12, <1>13, <1>14 DEF Next, Handle

-----------------------------------------------------------------------------
(* The workbook. *)

\* A write puts the line of its batch where it was found, or behind the others.
LEMMA WriteEffect ==
    ASSUME PurchaseBounds, PurchaseRows, NEW w \in Drains, DrainKnows(w), WriteLine(w)
    PROVE  /\ \A i \in DOMAIN book : i \in DOMAIN book' /\ book'[i].key = book[i].key
           /\ \A b : InBook(b)' <=> InBook(b) \/ b = Key(w)
           /\ drain[w].at = 0 => /\ DOMAIN book' = DOMAIN book \cup {Len(book) + 1}
                                 /\ book'[Len(book) + 1].key = Key(w)
           /\ drain[w].at # 0 => DOMAIN book' = DOMAIN book
<1>1. /\ book \in Seq(BookLine) /\ DrainShape(w) /\ drain[w].pc = "write"
      /\ DOMAIN book = 1..Len(book) /\ Len(book) \in Nat
  BY DEF PurchaseRows, WriteLine
<1>2. Copy(w) \in BookLine /\ Copy(w).key = Key(w)
  BY <1>1, KeyIsRead
<1>3. CASE drain[w].at = 0
  <2>1. book' = Append(book, Copy(w))
    BY <1>3 DEF WriteLine
  <2>2. /\ DOMAIN book' = DOMAIN book \cup {Len(book) + 1}
        /\ book'[Len(book) + 1] = Copy(w)
        /\ \A i \in DOMAIN book : book'[i] = book[i]
    BY <1>1, <1>2, <2>1
  <2> HIDE DEF Copy, Key
  <2> QED BY <1>2, <1>3, <2>2 DEF InBook
<1>4. CASE drain[w].at # 0
  <2>1. book' = [book EXCEPT ![drain[w].at] = Copy(w)]
    BY <1>4 DEF WriteLine
  <2>2. drain[w].at \in DOMAIN book /\ book[drain[w].at].key = Key(w)
    BY <1>1, <1>4 DEF DrainKnows
  <2>3. /\ DOMAIN book' = DOMAIN book /\ book'[drain[w].at] = Copy(w)
        /\ \A i \in DOMAIN book : i # drain[w].at => book'[i] = book[i]
    BY <1>1, <1>2, <2>1, <2>2, InPlace
  <2> QED BY <1>2, <1>4, <2>2, <2>3 DEF InBook
<1> QED BY <1>3, <1>4

\* A drain whose row is as it was knows what it knew.
LEMMA StillKnows ==
    ASSUME NEW w \in Drains, DrainKnows(w), drain'[w] = drain[w],
           \A b : InBook(b) => InBook(b)',
           \A i \in DOMAIN book : i \in DOMAIN book' /\ book'[i].key = book[i].key
    PROVE  DrainKnows(w)' /\ Key(w)' = Key(w)
BY DEF DrainKnows, Key

LEMMA BookKeeps ==
    ASSUME PurchaseBounds, PurchaseRows, Edits = 0, BookKept, [Next]_vars
    PROVE  /\ BookKept'
           /\ \A i \in DOMAIN book : book'[i].key = book[i].key
<1> USE DEF BookKept
<1>0. /\ DOMAIN drain = Drains /\ \A w \in Drains : DrainShape(w)
      /\ book \in Seq(BookLine) /\ rows \in [Lines -> Rows]
  BY DEF PurchaseRows
<1>1. ASSUME UNCHANGED book PROVE \A i \in DOMAIN book : book'[i].key = book[i].key
  BY <1>1
<1>2. ASSUME UNCHANGED <<book, drain>>, \A b \in Lines : rows'[b].state = "synced" => rows[b].state = "synced"
      PROVE  BookKept'
  <2>1. \A w \in Drains : DrainKnows(w)'
    BY <1>2, StillKnows DEF InBook
  <2> QED BY <1>2, <2>1 DEF InBook
<1>3. ASSUME NEW w \in Drains, UNCHANGED <<book, rows>>,
             \A v \in Drains : v # w => drain'[v] = drain[v], DrainKnows(w)'
      PROVE  BookKept'
  <2>1. \A v \in Drains : v # w => DrainKnows(v)'
    BY <1>3, StillKnows DEF InBook
  <2> QED BY <1>3, <2>1 DEF InBook
<1>4. ASSUME NEW w \in Drains, StartDrain(w)
      PROVE  BookKept'
  <2> DEFINE due == {b \in Lines : rows[b].state \in {"pending", "failed"}}
             copies == [b \in due |-> rows[b].payload]
  <2>1. /\ drain'[w] = [Asleep EXCEPT !.pc = "find", !.copies = copies]
        /\ \A v \in Drains : v # w => drain'[v] = drain[v]
    BY <1>0, <1>4, Sweeping, Zenon DEF StartDrain
  <2> HIDE DEF copies
  <2>2. drain'[w].pc = "find" /\ drain'[w].done = <<>>
    BY <2>1 DEF Asleep
  <2>3. DrainKnows(w)'
    BY <2>2 DEF DrainKnows
  <2> QED BY <1>3, <1>4, <2>1, <2>3 DEF StartDrain
<1>5. ASSUME NEW w \in Drains, Find(w)
      PROVE  BookKept'
  <2>1. /\ drain'[w] = [drain[w] EXCEPT !.pc = "write", !.at = FoundAt(Key(w))]
        /\ \A v \in Drains : v # w => drain'[v] = drain[v]
    BY <1>0, <1>5, Sweeping, Zenon DEF Find
  <2> HIDE DEF FoundAt, Key
  <2>2. /\ drain'[w].pc = "write" /\ drain'[w].at = FoundAt(Key(w))
        /\ drain'[w].copies = drain[w].copies /\ drain'[w].done = drain[w].done
    BY <1>0, <2>1 DEF DrainShape
  <2>3. Key(w)' = Key(w) /\ book' = book
    BY <1>5, <2>2 DEF Key, Find
  <2>4. DrainKnows(w)'
    BY <1>0, <2>2, <2>3, FoundIsThere DEF DrainKnows, InBook
  <2> QED BY <1>3, <1>5, <2>1, <2>4 DEF Find
<1>6. ASSUME NEW w \in Drains, WriteLine(w)
      PROVE  /\ BookKept'
             /\ \A i \in DOMAIN book : book'[i].key = book[i].key
  <2>1. /\ drain'[w] = [drain[w] EXCEPT !.pc = "stamp"]
        /\ \A v \in Drains : v # w => drain'[v] = drain[v]
    BY <1>0, <1>6, Sweeping, Zenon DEF WriteLine
  <2>2. /\ drain'[w].pc = "stamp"
        /\ drain'[w].copies = drain[w].copies /\ drain'[w].done = drain[w].done
    BY <1>0, <2>1 DEF DrainShape
  <2>3. Key(w)' = Key(w)
    BY <2>2 DEF Key
  <2>4. /\ \A i \in DOMAIN book : i \in DOMAIN book' /\ book'[i].key = book[i].key
        /\ \A b : InBook(b)' <=> InBook(b) \/ b = Key(w)
    BY <1>6, WriteEffect
  <2>5. DrainKnows(w)'
    <3>1. InBook(Key(w))'
      <4>1. \E b : b = Key(w) /\ InBook(b)'
        BY <2>4
      <4> QED BY <2>3, <4>1 DEF InBook
    <3>2. \A b \in DOMAIN drain[w].done : drain[w].done[b] = "synced" => InBook(b)
      BY DEF DrainKnows
    <3> QED BY <2>2, <2>4, <3>1, <3>2 DEF DrainKnows
  <2>6. \A v \in Drains : v # w => DrainKnows(v)'
    BY <2>1, <2>4, StillKnows
  <2>7. rows' = rows
    BY <1>6 DEF WriteLine
  <2> QED BY <2>4, <2>5, <2>6, <2>7
<1>7. ASSUME NEW w \in Drains, Stamp(w)
      PROVE  BookKept'
  <2>1. /\ drain'[w] = Stamped(w, "synced")
        /\ \A v \in Drains : v # w => drain'[v] = drain[v]
    BY <1>0, <1>7, Sweeping, Zenon DEF Stamp
  <2>2. /\ drain'[w].pc \in {"find", "commit"}
        /\ DOMAIN drain'[w].done = DOMAIN drain[w].done \cup {Key(w)}
        /\ \A b \in DOMAIN drain[w].done : drain'[w].done[b] = drain[w].done[b]
    <3>1. drain[w].pc \in {"find", "write", "stamp"}
      BY <1>7 DEF Stamp
    <3> QED BY <1>0, <2>1, <3>1, StampedRow
  <2>3. InBook(Key(w)) /\ book' = book
    BY <1>7 DEF DrainKnows, Stamp
  <2>4. DrainKnows(w)'
    BY <2>2, <2>3 DEF DrainKnows, InBook
  <2> QED BY <1>3, <1>7, <2>1, <2>4 DEF Stamp
<1>8. ASSUME NEW w \in Drains, Unwritten(w)
      PROVE  BookKept'
  <2>1. /\ drain'[w] = Stamped(w, "failed")
        /\ \A v \in Drains : v # w => drain'[v] = drain[v]
    BY <1>0, <1>8, Sweeping, Zenon DEF Unwritten
  <2>2. /\ drain'[w].pc \in {"find", "commit"}
        /\ DOMAIN drain'[w].done = DOMAIN drain[w].done \cup {Key(w)}
        /\ drain'[w].done[Key(w)] = "failed"
        /\ \A b \in DOMAIN drain[w].done : drain'[w].done[b] = drain[w].done[b]
    <3>1. drain[w].pc \in {"find", "write", "stamp"}
      BY <1>8 DEF Unwritten
    <3> QED BY <1>0, <2>1, <3>1, StampedRow
  <2>3. book' = book /\ rows' = rows
    BY <1>8 DEF Unwritten
  <2>4. DrainKnows(w)'
    BY <2>2, <2>3 DEF DrainKnows, InBook
  <2> QED BY <1>3, <2>1, <2>3, <2>4
<1>9. ASSUME NEW w \in Drains, EndDrain(w)
      PROVE  BookKept'
  <2>1. /\ drain'[w] = Asleep
        /\ \A v \in Drains : v # w => drain'[v] = drain[v]
    BY <1>0, <1>9, Sweeping, Zenon DEF EndDrain
  <2>2. book' = book
    BY <1>9 DEF EndDrain
  <2>3. \A v \in Drains : DrainKnows(v)'
    <3>1. DrainKnows(w)'
      BY <2>1 DEF DrainKnows, Asleep
    <3>2. \A v \in Drains : v # w => DrainKnows(v)'
      BY <2>1, <2>2, StillKnows DEF InBook
    <3> QED BY <3>1, <3>2
  <2>4. \A b \in Lines : rows'[b].state = "synced" => InBook(b)'
    <3> TAKE b \in Lines
    <3>1. rows'[b] = IF b \in DOMAIN drain[w].done
                     THEN [rows[b] EXCEPT !.state = drain[w].done[b]] ELSE rows[b]
      BY <1>9 DEF EndDrain
    <3>2. rows'[b].state = IF b \in DOMAIN drain[w].done THEN drain[w].done[b] ELSE rows[b].state
      BY <1>0, <3>1 DEF Rows
    <3> QED BY <2>2, <3>2 DEF DrainKnows, InBook
  <2> QED BY <2>3, <2>4
<1>10. ASSUME NEW p \in People, Confirm(p) \/ AskDraft(p) \/ Handle(p)
       PROVE  BookKept' /\ UNCHANGED book
  <2>1. UNCHANGED <<book, drain>>
    BY <1>10 DEF Confirm, AskDraft, Handle, Look, Flush, Check, Queue, QueueDraft, bookVars
  <2>2. rows' = rows \/ Write(p)
    BY <1>10 DEF Confirm, AskDraft, Handle, Look, Flush, Check, Queue, QueueDraft
  <2>3. \A b \in Lines : rows'[b].state = "synced" => rows[b].state = "synced"
    <3>1. work[p] \in WorkRow
      BY DEF PurchaseRows
    <3> QED BY <1>0, <2>2, <3>1, WriteIsTyped
  <2> QED BY <1>2, <2>1, <2>3
<1>11. CASE Restart
  <2>1. UNCHANGED <<rows, book>> /\ \A w \in Drains : drain'[w] = Asleep
    BY <1>11 DEF Restart
  <2>2. \A w \in Drains : DrainKnows(w)'
    BY <2>1 DEF DrainKnows, Asleep
  <2> QED BY <1>1, <2>1, <2>2 DEF InBook
<1>12. ASSUME NEW i \in DOMAIN jobs, Generate(i)
       PROVE  UNCHANGED <<rows, book, drain>>
  BY <1>12 DEF Generate, Begin, Produce, Reject, bookVars
<1>13. ASSUME \/ \E k \in Items \cup Strays : Arrive(k)
              \/ Refile \/ Correct \/ AdoptNumber \/ Freeze \/ UNCHANGED vars
       PROVE  UNCHANGED <<rows, book, drain>>
  BY <1>13 DEF Arrive, Refile, Correct, AdoptNumber, Freeze, vars, bookVars
<1>14. ~EditBook
  BY DEF EditBook, PurchaseRows
<1>15. ASSUME UNCHANGED <<rows, book, drain>>
       PROVE  BookKept' /\ UNCHANGED book
  BY <1>2, <1>15
<1>16. ASSUME NEW w \in Drains, Drain(w)
       PROVE  BookKept' /\ \A i \in DOMAIN book : book'[i].key = book[i].key
  <2>1. WriteLine(w) \/ UNCHANGED book
    BY <1>16 DEF Drain, StartDrain, Find, Stamp, Unwritten, EndDrain
  <2> QED BY <1>1, <1>4, <1>5, <1>6, <1>7, <1>8, <1>9, <1>16, <2>1 DEF Drain
<1> HIDE DEF BookKept
<1>17. CASE \E p \in People : Confirm(p) \/ AskDraft(p) \/ Handle(p)
  BY <1>1, <1>10, <1>17
<1>18. CASE Restart
  BY <1>1, <1>11, <1>18 DEF Restart
<1>19. CASE \E i \in DOMAIN jobs : Generate(i)
  BY <1>1, <1>12, <1>15, <1>19
<1>20. CASE \/ \E k \in Items \cup Strays : Arrive(k)
            \/ Refile \/ Correct \/ AdoptNumber \/ Freeze \/ UNCHANGED vars
  BY <1>1, <1>13, <1>15, <1>20
<1>21. CASE \E w \in Drains : Drain(w)
  BY <1>16, <1>21
<1> QED BY <1>14, <1>17, <1>18, <1>19, <1>20, <1>21, Zenon DEF Next

\* With one replica the workbook has one line for a batch.
LEMMA OneLineKeeps ==
    ASSUME PurchaseBounds, PurchaseRows, Edits = 0, BookKept, \A v, w \in Drains : v = w,
           OneLineKept, [Next]_vars
    PROVE  OneLineKept'
<1>0. /\ DOMAIN drain = Drains /\ \A w \in Drains : DrainShape(w)
      /\ book \in Seq(BookLine)
  BY DEF PurchaseRows
<1>1. ASSUME UNCHANGED book,
             \A w \in Drains : drain'[w] = drain[w]
                 \/ drain'[w].pc # "write" \/ drain'[w].at # 0 \/ ~InBook(Key(w)')
      PROVE  OneLineKept'
  <2>1. \A w \in Drains : drain'[w] = drain[w] => Key(w)' = Key(w)
    BY DEF Key
  <2> HIDE DEF Key
  <2> QED BY <1>1, <2>1 DEF OneLineKept, OneLinePerBatch, InBook
<1>2. ASSUME NEW w \in Drains, Find(w)
      PROVE  OneLineKept'
  <2>1. drain'[w] = [drain[w] EXCEPT !.pc = "write", !.at = FoundAt(Key(w))]
    BY <1>0, <1>2, Sweeping, Zenon DEF Find
  <2> HIDE DEF FoundAt, Key
  <2>2. /\ drain'[w].at = FoundAt(Key(w))
        /\ drain'[w].copies = drain[w].copies /\ drain'[w].done = drain[w].done
    BY <1>0, <2>1 DEF DrainShape
  <2>3. Key(w)' = Key(w) /\ book' = book
    BY <1>2, <2>2 DEF Key, Find
  <2>4. drain'[w].at # 0 \/ ~InBook(Key(w)')
    BY <1>0, <2>2, <2>3, FoundIsThere
  <2> QED BY <1>1, <2>3, <2>4
<1>3. ASSUME NEW w \in Drains, WriteLine(w)
      PROVE  OneLineKept'
  <2>1. drain'[w].pc = "stamp"
    <3>1. drain'[w] = [drain[w] EXCEPT !.pc = "stamp"]
      BY <1>0, <1>3, Sweeping, Zenon DEF WriteLine
    <3> QED BY <1>0, <3>1 DEF DrainShape
  <2>2. DrainKnows(w) /\ drain[w].pc = "write"
    BY <1>3 DEF BookKept, WriteLine
  <2>3. /\ \A i \in DOMAIN book : i \in DOMAIN book' /\ book'[i].key = book[i].key
        /\ drain[w].at = 0 => /\ DOMAIN book' = DOMAIN book \cup {Len(book) + 1}
                              /\ book'[Len(book) + 1].key = Key(w)
        /\ drain[w].at # 0 => DOMAIN book' = DOMAIN book
    BY <1>3, <2>2, WriteEffect
  <2>4. drain[w].at = 0 => \A i \in DOMAIN book : book[i].key # Key(w)
    BY <2>2 DEF OneLineKept, InBook
  <2>5. OneLinePerBatch'
    <3> HIDE DEF Key
    <3>1. \A i, j \in DOMAIN book : book[i].key = book[j].key => i = j
      BY DEF OneLineKept, OneLinePerBatch
    <3>2. CASE drain[w].at = 0
      BY <2>3, <2>4, <3>1, <3>2 DEF OneLinePerBatch
    <3>3. CASE drain[w].at # 0
      BY <2>3, <3>1, <3>3 DEF OneLinePerBatch
    <3> QED BY <3>2, <3>3
  <2> QED BY <2>1, <2>5 DEF OneLineKept
<1>4. ASSUME NEW w \in Drains, StartDrain(w) \/ Stamp(w) \/ Unwritten(w) \/ EndDrain(w)
      PROVE  OneLineKept'
  <2>1. book' = book
    BY <1>4 DEF StartDrain, Stamp, Unwritten, EndDrain
  <2>2. drain'[w].pc # "write"
    <3>1. CASE StartDrain(w)
      <4> DEFINE due == {b \in Lines : rows[b].state \in {"pending", "failed"}}
                 copies == [b \in due |-> rows[b].payload]
      <4>1. drain'[w] = [Asleep EXCEPT !.pc = "find", !.copies = copies]
        BY <1>0, <3>1, Sweeping, Zenon DEF StartDrain
      <4> HIDE DEF copies
      <4> QED BY <4>1 DEF Asleep
    <3>2. CASE Stamp(w)
      <4>1. drain'[w] = Stamped(w, "synced") /\ drain[w].pc \in {"find", "write", "stamp"}
        BY <1>0, <3>2, Sweeping, Zenon DEF Stamp
      <4> QED BY <1>0, <4>1, StampedRow
    <3>3. CASE Unwritten(w)
      <4>1. drain'[w] = Stamped(w, "failed") /\ drain[w].pc \in {"find", "write", "stamp"}
        BY <1>0, <3>3, Sweeping, Zenon DEF Unwritten
      <4> QED BY <1>0, <4>1, StampedRow
    <3>4. CASE EndDrain(w)
      <4>1. drain'[w] = Asleep
        BY <1>0, <3>4, Sweeping, Zenon DEF EndDrain
      <4> QED BY <4>1 DEF Asleep
    <3> QED BY <1>4, <3>1, <3>2, <3>3, <3>4
  <2> QED BY <1>1, <2>1, <2>2
<1>5. ASSUME UNCHANGED <<book, drain>>
      PROVE  OneLineKept'
  BY <1>1, <1>5
<1>6. CASE \E w \in Drains : Drain(w)
  BY <1>2, <1>3, <1>4, <1>6 DEF Drain
<1>7. CASE Restart
  <2>1. book' = book /\ \A w \in Drains : drain'[w] = Asleep
    BY <1>7 DEF Restart
  <2>2. Asleep.pc # "write"
    BY DEF Asleep
  <2> QED BY <1>1, <2>1, <2>2
<1>8. ASSUME NEW p \in People, Confirm(p) \/ AskDraft(p) \/ Handle(p)
      PROVE  UNCHANGED <<book, drain>>
  BY <1>8 DEF Confirm, AskDraft, Handle, Look, Flush, Check, Queue, QueueDraft, bookVars
<1>11. ASSUME NEW i \in DOMAIN jobs, Generate(i)
       PROVE  UNCHANGED <<book, drain>>
  BY <1>11 DEF Generate, Begin, Produce, Reject, bookVars
<1>9. ASSUME \/ \E k \in Items \cup Strays : Arrive(k)
             \/ Refile \/ Correct \/ AdoptNumber \/ Freeze \/ UNCHANGED vars
      PROVE  UNCHANGED <<book, drain>>
  BY <1>9 DEF Arrive, Refile, Correct, AdoptNumber, Freeze, vars, bookVars
<1>10. ~EditBook
  BY DEF EditBook, PurchaseRows
<1> QED BY <1>5, <1>6, <1>7, <1>8, <1>9, <1>10, <1>11 DEF Next

-----------------------------------------------------------------------------
(* The invariant. *)

LEMMA RowsStep ==
    ASSUME PurchaseBounds, PurchaseRows, DraftsHaveTheirJobs, \A p \in People : Owes(p), [Next]_vars
    PROVE  PurchaseRows'
<1>1. \A d \in Drafts : drafts[d] <= MaxJobs
  <2> TAKE d \in Drafts
  <2>1. jobs \in Seq(JobRow) /\ Len(jobs) <= MaxJobs
    BY DEF PurchaseRows
  <2>2. Cardinality(Finished(d)) \in Nat /\ Cardinality(Finished(d)) <= Len(jobs)
    BY <2>1, JobSets
  <2>3. drafts[d] = Cardinality(Finished(d))
    BY CountsAreThese
  <2>4. Len(jobs) \in Nat
    BY <2>1
  <2> QED BY ONLY <2>1, <2>2, <2>3, <2>4, BoundFacts, PurchaseBounds
<1>2. CASE UNCHANGED vars
  BY <1>2 DEF PurchaseRows, DrainShape, vars, tradeVars, draftVars, bookVars
<1>3. CASE \/ \E k \in Items \cup Strays : Arrive(k)
           \/ Refile \/ Correct \/ AdoptNumber \/ Freeze
  BY <1>1, <1>3, TradeTypes
<1>4. CASE \E p \in People : Confirm(p) \/ AskDraft(p) \/ Handle(p)
  BY <1>4, RequestTypes
<1>5. CASE \E i \in DOMAIN jobs : Generate(i)
  BY <1>5, GenerateTypes
<1>6. CASE \E w \in Drains : Drain(w)
  BY <1>6, DrainTypes
<1>7. CASE EditBook \/ Restart
  BY <1>7, OtherTypes
<1> QED BY <1>2, <1>3, <1>4, <1>5, <1>6, <1>7, Zenon DEF Next

LEMMA PurchaseInit ==
    ASSUME PurchaseBounds, Init
    PROVE  PurchaseInv
<1>1. PurchaseRows
  BY RowsInit
<1>2. /\ drafts = [d \in Drafts |-> 0] /\ jobs = <<>> /\ asked = 0 /\ book = <<>>
      /\ \A p \in People : work[p] = Idle
      /\ \A w \in Drains : drain[w] = Asleep
      /\ \A b \in Lines : rows[b] = NoRow
  BY DEF Init
<1>3. \A d : Flying(d) = {} /\ Finished(d) = {}
  BY <1>2 DEF Flying, Finished
<1>4. DraftsHaveTheirJobs
  BY <1>2, <1>3, FS_EmptySet, CountsAreThese
<1>5. (\A p \in People : Owes(p)) /\ OneHolder
  BY <1>2, IdleOwesNothing DEF Owes, OneHolder
<1>6. Contract \in Drafts => NotStacked
  <2>1. Asking = {} /\ Asking \cup AboutTo = {}
    BY <1>2, IdleOwesNothing DEF Asking, AboutTo
  <2>2. Contract \in Drafts => Copies(Contract) = 0
    <3> SUFFICES ASSUME Contract \in Drafts PROVE Copies(Contract) = 0
      OBVIOUS
    <3>1. drafts[Contract] = 0
      BY <1>2
    <3>2. Cardinality(Flying(Contract)) = 0
      BY <1>3, FS_EmptySet, Zenon
    <3>3. Copies(Contract) = drafts[Contract] + Cardinality(Flying(Contract))
      BY CountsAreThese, Zenon
    <3> QED BY ONLY <3>1, <3>2, <3>3
  <2>3. Cardinality(Asking) = 0 /\ Cardinality(Asking \cup AboutTo) = 0
    BY <2>1, FS_EmptySet, Zenon
  <2>4. asked = 0
    BY <1>2
  <2> SUFFICES ASSUME Contract \in Drafts PROVE NotStacked
    OBVIOUS
  <2>5. Copies(Contract) = 0
    BY <2>2
  <2> HIDE DEF Contract
  <2> QED BY ONLY <2>3, <2>4, <2>5 DEF NotStacked
<1>7. \A w \in Drains : drain[w].pc = "asleep" /\ drain[w].done = <<>>
  BY <1>2 DEF Asleep
<1>8. BookKept
  BY <1>2, <1>7 DEF BookKept, DrainKnows, NoRow
<1>9. OneLineKept
  BY <1>2, <1>7 DEF OneLineKept, OneLinePerBatch
<1> QED BY <1>1, <1>4, <1>5, <1>6, <1>8, <1>9 DEF PurchaseInv

LEMMA PurchaseStep ==
    ASSUME PurchaseBounds, PurchaseInv, [Next]_vars
    PROVE  PurchaseInv' /\ (Edits = 0 => [KeysStay]_vars)
<1>1. PurchaseRows /\ DraftsHaveTheirJobs /\ (\A p \in People : Owes(p)) /\ Requests
  BY DEF PurchaseInv, Requests
<1>2. PurchaseRows' /\ DraftsHaveTheirJobs'
  BY <1>1, RowsStep, JobsKeep
<1>3. (\A p \in People : Owes(p))' /\ OneHolder'
  BY <1>1, RequestsKeep DEF Requests
<1>4. Numbers = 1 /\ Contract \in Drafts => NotStacked'
  BY <1>1, ContractKeeps DEF PurchaseInv
<1>5. Edits = 0 => BookKept' /\ \A i \in DOMAIN book : book'[i].key = book[i].key
  BY <1>1, BookKeeps DEF PurchaseInv
<1>6. Edits = 0 /\ (\A v, w \in Drains : v = w) => OneLineKept'
  BY <1>1, OneLineKeeps DEF PurchaseInv
<1>7. PurchaseInv'
  <2>1. (Numbers = 1 /\ Contract \in Drafts => NotStacked)'
    BY <1>4 DEF Contract, Drafts
  <2> QED BY <1>2, <1>3, <1>5, <1>6, <2>1 DEF PurchaseInv
<1> QED BY <1>5, <1>7 DEF KeysStay

\* What is promised of a state follows from the invariant.
LEMMA PurchaseShows ==
    ASSUME PurchaseBounds, PurchaseInv
    PROVE  /\ DraftsHaveTheirJobs
           /\ Numbers = 1 /\ Contract \in Drafts => ContractIsNotStacked
           /\ Edits = 0 => SyncedIsInTheBook
           /\ Edits = 0 /\ (\A v, w \in Drains : v = w) => OneLinePerBatch
<1>1. Numbers = 1 /\ Contract \in Drafts => ContractIsNotStacked
  <2> SUFFICES ASSUME Numbers = 1, Contract \in Drafts PROVE ContractIsNotStacked
    OBVIOUS
  <2>1. /\ Copies(Contract) + Cardinality(Asking \cup AboutTo) <= 1 + asked
        /\ jobs \in Seq(JobRow) /\ drafts[Contract] \in Nat /\ asked \in Nat
    BY BoundFacts DEF PurchaseInv, NotStacked, PurchaseRows
  <2>2. Copies(Contract) \in Nat
    <3>1. Cardinality(Flying(Contract)) \in Nat
      BY <2>1, JobSets
    <3>2. Copies(Contract) = drafts[Contract] + Cardinality(Flying(Contract))
      BY CountsAreThese
    <3> QED BY ONLY <2>1, <3>1, <3>2
  <2>3. Cardinality(Asking \cup AboutTo) \in Nat
    <3>1. Asking \cup AboutTo \in SUBSET People
      BY DEF Asking, AboutTo
    <3> QED BY <3>1, AskersAreCounted
  <2>4. /\ Copies(Contract) + Cardinality(Asking \cup AboutTo) <= 1 + asked
        /\ asked \in Nat
    BY <2>1
  <2> HIDE DEF Contract
  <2>5. Copies(Contract) <= 1 + asked
    BY ONLY <2>2, <2>3, <2>4
  <2> QED BY <2>5 DEF ContractIsNotStacked
<1>2. Edits = 0 => SyncedIsInTheBook
  BY FoundIsThere DEF PurchaseInv, PurchaseRows, BookKept, SyncedIsInTheBook
<1> QED BY <1>1, <1>2 DEF PurchaseInv, OneLineKept

\* The rows of the sheet, the lines of the workbook, the jobs and what the
\* requests and drains have in hand are always as PurchaseInv describes them.
THEOREM PurchaseIsInvariant ==
    ASSUME PurchaseBounds
    PROVE  Spec => []PurchaseInv
<1>1. Init => PurchaseInv
  BY PurchaseInit
<1>2. PurchaseInv /\ [Next]_vars => PurchaseInv'
  BY PurchaseStep
<1> QED BY <1>1, <1>2, PTL DEF Spec

\* draft_service, loading_sheet.drain: what a purchase writes it writes once
\* and in its place.
THEOREM PurchaseIsWrittenOnce ==
    ASSUME PurchaseBounds
    PROVE  Spec => PurchaseWritesOnce
<1>1. Spec => []PurchaseInv
  BY PurchaseIsInvariant
<1>2. Spec => []DraftsHaveTheirJobs
  <2>1. PurchaseInv => DraftsHaveTheirJobs
    BY PurchaseShows
  <2> QED BY <1>1, <2>1, PTL
<1>3. Numbers = 1 /\ Contract \in Drafts => (Spec => []ContractIsNotStacked)
  <2> SUFFICES ASSUME Numbers = 1, Contract \in Drafts PROVE Spec => []ContractIsNotStacked
    OBVIOUS
  <2>1. PurchaseInv => ContractIsNotStacked
    BY PurchaseShows
  <2> QED BY <1>1, <2>1, PTL
<1>4. Edits = 0 => (Spec => []SyncedIsInTheBook /\ LinesKeepTheirKey)
  <2> SUFFICES ASSUME Edits = 0 PROVE Spec => []SyncedIsInTheBook /\ LinesKeepTheirKey
    OBVIOUS
  <2>1. PurchaseInv => SyncedIsInTheBook
    BY PurchaseShows
  <2>2. PurchaseInv /\ [Next]_vars => [KeysStay]_vars
    BY PurchaseStep
  <2>3. Spec => [][Next]_vars
    BY PTL DEF Spec
  <2> QED BY <1>1, <2>1, <2>2, <2>3, PTL DEF LinesKeepTheirKey
<1>5. Edits = 0 /\ (\A v, w \in Drains : v = w) => (Spec => []OneLinePerBatch)
  <2> SUFFICES ASSUME Edits = 0, \A v, w \in Drains : v = w PROVE Spec => []OneLinePerBatch
    OBVIOUS
  <2>1. PurchaseInv => OneLinePerBatch
    BY PurchaseShows
  <2> QED BY <1>1, <2>1, PTL
<1> QED BY <1>2, <1>3, <1>4, <1>5 DEF PurchaseWritesOnce

-----------------------------------------------------------------------------
(* The sale of what was bought. *)

\* The rows of a request: what Become leaves of the others.
LEMMA Becomes ==
    ASSUME DOMAIN work = People, NEW p \in People, NEW request, Sell!Become(p, request)
    PROVE  /\ DOMAIN work' = People /\ work'[p] = request
           /\ \A o \in People : o # p => work'[o] = work[o]
BY DEF Sell!Become

LEMMA LegFacts ==
    ASSUME Sell!SalesConstants
    PROVE  /\ Sell!NoLeg \notin Sell!Legs
           /\ \A l \in Sell!Legs : l.contract \in Contracts /\ l.contract # "none"
           /\ \A l, m \in Sell!Legs : /\ [l EXCEPT !.contract = m.contract] \in Sell!Legs
                                 /\ [l EXCEPT !.contracted = m.contracted] \in Sell!Legs
                                 /\ [l EXCEPT !.contracted = m.contracted].contract = l.contract
BY DEF Sell!SalesConstants, Sell!NoLeg, Sell!Legs

\* A request that begins.
LEMMA BeginKeeps ==
    ASSUME Sell!SalesConstants, Sell!SalesInv, NEW p \in People, NEW kind, NEW t \in Trades, NEW newLeg \in Sell!Legs \cup {Sell!NoLeg},
           NEW tonnes, NEW spread,
           work[p].pc = "idle",
           Sell!Request(p, kind, t, newLeg, tonnes, spread),
           UNCHANGED <<exists, leg, seller, quantity, shown>>,
           \/ kind = "attach" /\ newLeg \in Sell!Legs /\ t \in exists
           \/ kind = "sale" /\ newLeg \in Sell!Legs /\ t \notin exists
                /\ \A o \in People : work[o].trade # t
           \/ kind \in {"quantity", "contracted", "contract", "validate"} /\ leg[t] # Sell!NoLeg
                /\ (kind \in {"contracted", "contract"} => newLeg \in Sell!Legs)
    PROVE  Sell!SalesInv'
<1>1. /\ DOMAIN work' = People /\ "found" \in DOMAIN work'[p]
      /\ work'[p].pc = "flush" /\ work'[p].kind = kind /\ work'[p].trade = t /\ work'[p].leg = newLeg
      /\ \A o \in People : o # p => work'[o] = work[o]
  BY DEF Sell!Request, Sell!Become, Sell!Idle, Sell!SalesInv, Sell!Shape
<1>2. t \in exists \/ kind = "sale"
  BY DEF Sell!SalesInv
<1>3. Sell!Shape(p)'
  BY <1>1 DEF Sell!SalesInv, Sell!Shape, Sell!Working, Sell!Selling
<1>4. ASSUME NEW o \in People, o # p PROVE Sell!Shape(o)'
  BY <1>1, <1>2, <1>4 DEF Sell!SalesInv, Sell!Shape, Sell!Working, Sell!Selling
<1>5. \A q \in People, u \in Trades : Sell!Holds(q, u)' => Sell!Holds(q, u)
  BY <1>1 DEF Sell!Holds
<1> QED BY <1>3, <1>4, <1>5 DEF Sell!SalesInv

\* What the session that commits leaves of the legs.
LEMMA NewLegFacts ==
    ASSUME Sell!SalesConstants, Sell!SalesInv, NEW p \in People, Sell!Working(p)
    PROVE  /\ Sell!NewLeg(p) \in Sell!Legs
           /\ Sell!LegsOf(p) = [leg EXCEPT ![work[p].trade] = Sell!NewLeg(p)]
           /\ Sell!LegsOf(p) \in [Trades -> Sell!Legs \cup {Sell!NoLeg}]
           /\ Sell!LegsOf(p)[work[p].trade] = Sell!NewLeg(p)
           /\ \A t \in Trades : t # work[p].trade => Sell!LegsOf(p)[t] = leg[t]
           /\ work[p].kind # "contract" /\ leg[work[p].trade] # Sell!NoLeg /\ ~Sell!Selling(p)
                => Sell!NewLeg(p).contract = leg[work[p].trade].contract
<1>1. work[p].trade \in Trades /\ leg \in [Trades -> Sell!Legs \cup {Sell!NoLeg}] /\ Sell!Shape(p)
  BY DEF Sell!SalesInv, Sell!Shape
<1>2. Sell!NewLeg(p) \in Sell!Legs
  <2>1. CASE Sell!Selling(p)
    BY <1>1, <2>1 DEF Sell!NewLeg, Sell!Shape, Sell!Selling
  <2>2. CASE ~Sell!Selling(p)
    <3>1. leg[work[p].trade] \in Sell!Legs /\ (work[p].kind \in {"contracted", "contract"} => work[p].leg \in Sell!Legs)
          /\ work[p].kind \in {"quantity", "contracted", "contract", "validate"}
      BY <1>1, <2>2 DEF Sell!Shape
    <3> QED BY <3>1, LegFacts DEF Sell!NewLeg
  <2> QED BY <2>1, <2>2
<1>3. Sell!LegsOf(p) = [leg EXCEPT ![work[p].trade] = Sell!NewLeg(p)]
  BY DEF Sell!LegsOf
<1>4. work[p].kind # "contract" /\ leg[work[p].trade] # Sell!NoLeg /\ ~Sell!Selling(p)
                => Sell!NewLeg(p).contract = leg[work[p].trade].contract
  <2> SUFFICES ASSUME work[p].kind # "contract", ~Sell!Selling(p)
               PROVE  Sell!NewLeg(p).contract = leg[work[p].trade].contract
    OBVIOUS
  <2>1. leg[work[p].trade] \in Sell!Legs /\ (work[p].kind = "contracted" => work[p].leg \in Sell!Legs)
          /\ work[p].kind \in {"quantity", "contracted", "validate"}
    BY <1>1 DEF Sell!Shape
  <2> QED BY <2>1, LegFacts DEF Sell!NewLeg
<1> QED BY <1>1, <1>2, <1>3, <1>4

\* A request that goes on with its trade disturbs no other.
LEMMA OtherShapes ==
    ASSUME NEW p \in People, NEW o \in People, o # p, Sell!Shape(o), Sell!Working(p),
           UNCHANGED <<leg, exists>>, DOMAIN work' = People,
           \A r \in People : r # p => work'[r] = work[r],
           work'[p].trade = work[p].trade
    PROVE  Sell!Shape(o)'
<1>1. work'[o] = work[o]
  OBVIOUS
<1>2. \A r \in People : work[o].trade # work[r].trade => work[o].trade # work'[r].trade
  OBVIOUS
<1>3. \A r \in People : work'[r].pc # "idle" => work[r].pc # "idle"
  BY DEF Sell!Working
<1> QED BY <1>1, <1>2, <1>3 DEF Sell!Shape, Sell!Working, Sell!Selling

LEMMA FlushKeeps ==
    ASSUME Sell!SalesConstants, Sell!SalesInv, NEW p \in People, Sell!Flush(p)
    PROVE  Sell!SalesInv'
<1>1. /\ DOMAIN work = People /\ work[p].pc = "flush" /\ Sell!Shape(p)
      /\ UNCHANGED <<exists, leg, seller, quantity, shown>>
      /\ \A o \in People \ {p} : ~Sell!Holds(o, work[p].trade)
  BY DEF Sell!Flush, Sell!SalesInv, Sell!Shape
<1>2. CASE Sell!Become(p, Sell!Idle)
  <2>1. /\ DOMAIN work' = People /\ work'[p].pc = "idle" /\ "found" \in DOMAIN work'[p]
        /\ \A o \in People : o # p => work'[o] = work[o]
    BY <1>1, <1>2, Becomes DEF Sell!Idle
  <2>2. Sell!Shape(p)'
    BY <2>1 DEF Sell!Shape, Sell!Working, Sell!Selling
  <2>3. ASSUME NEW o \in People, o # p PROVE Sell!Shape(o)'
    BY <1>1, <2>1, <2>3 DEF Sell!SalesInv, Sell!Shape, Sell!Working, Sell!Selling
  <2>4. \A q \in People, u \in Trades : Sell!Holds(q, u)' => Sell!Holds(q, u)
    BY <2>1 DEF Sell!Holds
  <2> QED BY <1>1, <2>2, <2>3, <2>4 DEF Sell!SalesInv
<1>3. CASE /\ ~(work[p].kind = "attach" /\ leg[work[p].trade] # Sell!NoLeg)
           /\ Sell!Become(p, [work[p] EXCEPT !.pc = "evaluate"])
  <2>1. /\ DOMAIN work' = People /\ work'[p] = [work[p] EXCEPT !.pc = "evaluate"]
        /\ \A o \in People : o # p => work'[o] = work[o]
    BY <1>1, <1>3, Becomes
  <2>2. /\ work'[p].pc = "evaluate" /\ work'[p].kind = work[p].kind
        /\ work'[p].trade = work[p].trade /\ work'[p].leg = work[p].leg
    BY <1>1, <2>1
  <2>3. work[p].kind = "sale" => leg[work[p].trade] = Sell!NoLeg
    BY <1>1 DEF Sell!SalesInv, Sell!Shape, Sell!Working
  <2>4. Sell!Shape(p)'
    BY <1>1, <1>3, <2>1, <2>2, <2>3 DEF Sell!Shape, Sell!Working, Sell!Selling
  <2>5. ASSUME NEW o \in People, o # p PROVE Sell!Shape(o)'
    <3>1. DOMAIN work' = People /\ \A r \in People : r # p => work'[r] = work[r]
      BY <2>1
    <3> QED BY <1>1, <2>2, <2>5, <3>1, OtherShapes DEF Sell!SalesInv, Sell!Working
  <2>6. ASSUME NEW q \in People, NEW r \in People, NEW u \in Trades, Sell!Holds(q, u)', Sell!Holds(r, u)'
        PROVE  q = r
    <3>1. ASSUME NEW o \in People, o # p, Sell!Holds(o, u)' PROVE Sell!Holds(o, u) /\ u # work[p].trade
      BY <1>1, <2>1, <3>1 DEF Sell!Holds
    <3>2. Sell!Holds(p, u)' => u = work[p].trade
      BY <2>2 DEF Sell!Holds
    <3> QED BY <2>6, <3>1, <3>2 DEF Sell!SalesInv
  <2> QED BY <1>1, <2>4, <2>5, <2>6 DEF Sell!SalesInv
<1> QED BY <1>2, <1>3 DEF Sell!Flush

LEMMA EvaluateKeeps ==
    ASSUME Sell!SalesConstants, Sell!SalesInv, NEW p \in People, Sell!Evaluate(p)
    PROVE  Sell!SalesInv'
<1>1. /\ DOMAIN work = People /\ work[p].pc = "evaluate" /\ Sell!Shape(p)
      /\ UNCHANGED <<exists, leg, seller, quantity, shown>>
  BY DEF Sell!Evaluate, Sell!SalesInv, Sell!Shape
<1>2. PICK found : Sell!Become(p, [work[p] EXCEPT !.pc = "commit", !.found = found])
  BY DEF Sell!Evaluate
<1>3. /\ DOMAIN work' = People /\ work'[p] = [work[p] EXCEPT !.pc = "commit", !.found = found]
      /\ \A o \in People : o # p => work'[o] = work[o]
  BY <1>1, <1>2, Becomes
<1>4. /\ work'[p].pc = "commit" /\ work'[p].kind = work[p].kind
      /\ work'[p].trade = work[p].trade /\ work'[p].leg = work[p].leg
  BY <1>1, <1>3
<1>5. Sell!Shape(p)'
  BY <1>1, <1>3, <1>4 DEF Sell!Shape, Sell!Working, Sell!Selling
<1>6. ASSUME NEW o \in People, o # p PROVE Sell!Shape(o)'
  <2>1. DOMAIN work' = People /\ \A r \in People : r # p => work'[r] = work[r]
    BY <1>3
  <2> QED BY <1>1, <1>4, <1>6, <2>1, OtherShapes DEF Sell!SalesInv, Sell!Working
<1>7. \A q \in People, u \in Trades : Sell!Holds(q, u)' => Sell!Holds(q, u)
  BY <1>1, <1>3, <1>4 DEF Sell!Holds
<1> QED BY <1>1, <1>5, <1>6, <1>7 DEF Sell!SalesInv
LEMMA CommitEffect ==
    ASSUME Sell!SalesConstants, Sell!SalesInv, NEW p \in People, Sell!Commit(p)
    PROVE  /\ Sell!Working(p) /\ work[p].pc = "commit" /\ work[p].trade \in Trades
           /\ DOMAIN work' = People /\ "found" \in DOMAIN work'[p]
           /\ work'[p].pc = "idle" /\ work'[p].kind = "none"
           /\ \A o \in People : o # p => work'[o] = work[o]
           /\ exists' = exists \cup {work[p].trade}
           /\ leg' = Sell!LegsOf(p) /\ quantity' = Sell!TonnesOf(p)
           /\ seller' \in [Trades -> People \cup {"none"}]
           /\ \A t \in Trades : seller'[t] = IF t = work[p].trade /\ Sell!Selling(p) THEN p ELSE seller[t]
           /\ \A t \in Trades : shown'[t] = IF t \in DOMAIN work[p].found THEN work[p].found[t] ELSE shown[t]
           /\ DOMAIN shown' = Trades /\ DOMAIN quantity' = Trades
<1>1. /\ work[p].pc = "commit" /\ Sell!Shape(p) /\ Sell!Become(p, Sell!Idle)
      /\ seller' = [seller EXCEPT ![work[p].trade] =
                       IF work[p].kind \in {"attach", "sale"} THEN p ELSE seller[work[p].trade]]
      /\ shown' = [s \in Trades |-> IF s \in DOMAIN work[p].found THEN work[p].found[s] ELSE shown[s]]
      /\ exists' = exists \cup {work[p].trade}
      /\ leg' = Sell!LegsOf(p) /\ quantity' = Sell!TonnesOf(p)
  BY DEF Sell!Commit, Sell!SalesInv
<1>2. Sell!Working(p) /\ work[p].trade \in Trades
  BY <1>1 DEF Sell!Shape, Sell!Working
<1>3. DOMAIN work' = People /\ work'[p] = Sell!Idle /\ \A o \in People : o # p => work'[o] = work[o]
  BY <1>1, Becomes DEF Sell!Shape
<1>4. /\ seller' \in [Trades -> People \cup {"none"}]
      /\ \A t \in Trades : seller'[t] = IF t = work[p].trade /\ Sell!Selling(p) THEN p ELSE seller[t]
  BY <1>1, <1>2 DEF Sell!SalesInv, Sell!Selling
<1>5. DOMAIN quantity' = Trades
  BY <1>1 DEF Sell!TonnesOf, Sell!SalesInv
<1> QED BY <1>1, <1>2, <1>3, <1>4, <1>5 DEF Sell!Idle

LEMMA CommitKeeps ==
    ASSUME Sell!SalesConstants, Sell!SalesInv, NEW p \in People, Sell!Commit(p)
    PROVE  Sell!SalesInv'
<1> DEFINE t == work[p].trade
<1>1. /\ Sell!Working(p) /\ work[p].pc = "commit" /\ t \in Trades
      /\ DOMAIN work' = People /\ work'[p].pc = "idle" /\ "found" \in DOMAIN work'[p]
      /\ \A o \in People : o # p => work'[o] = work[o]
      /\ exists' = exists \cup {t}
      /\ seller' \in [Trades -> People \cup {"none"}]
      /\ \A u \in Trades : seller'[u] = IF u = t /\ Sell!Selling(p) THEN p ELSE seller[u]
      /\ DOMAIN shown' = Trades /\ DOMAIN quantity' = Trades
  BY CommitEffect
<1>2. /\ leg' \in [Trades -> Sell!Legs \cup {Sell!NoLeg}] /\ leg'[t] # Sell!NoLeg
      /\ \A u \in Trades : u # t => leg'[u] = leg[u]
  BY <1>1, CommitEffect, NewLegFacts, LegFacts
<1>3. Sell!Shape(p)'
  BY <1>1 DEF Sell!Shape, Sell!Working, Sell!Selling
<1>4. ASSUME NEW o \in People, o # p PROVE Sell!Shape(o)'
  <2>1. Sell!Shape(o) /\ work'[o] = work[o]
    BY <1>1, <1>4 DEF Sell!SalesInv
  <2>2. Sell!Selling(o) /\ work[o].pc \in {"evaluate", "commit"} => work[o].trade # t
    BY <1>1, <1>4 DEF Sell!SalesInv, Sell!Holds
  <2>3. Sell!Working(o) /\ work[o].kind = "sale" => work[o].trade # t
    BY <1>1, <1>4, <2>1 DEF Sell!Shape
  <2>4. Sell!Working(o) => work[o].trade \in Trades
    BY <2>1 DEF Sell!Shape
  <2>5. \A r \in People : work'[r].pc # "idle" => r # p
    BY <1>1
  <2> QED BY <1>1, <1>2, <2>1, <2>2, <2>3, <2>4, <2>5 DEF Sell!Shape, Sell!Working, Sell!Selling
<1>5. \A q \in People, u \in Trades : Sell!Holds(q, u)' => Sell!Holds(q, u)
  BY <1>1 DEF Sell!Holds
<1>6. \A u \in Trades : leg'[u] # Sell!NoLeg => u \in exists'
  BY <1>1, <1>2 DEF Sell!SalesInv
<1>7. \A u \in Trades : seller'[u] # "none" => leg'[u] # Sell!NoLeg
  BY <1>1, <1>2 DEF Sell!SalesInv
<1>8. exists' \subseteq Trades
  BY <1>1 DEF Sell!SalesInv
<1>9. \A q, r \in People, u \in Trades : Sell!Holds(q, u)' /\ Sell!Holds(r, u)' => q = r
  BY <1>5 DEF Sell!SalesInv
<1> HIDE DEF t
<1>10. \A o \in People : Sell!Shape(o)'
  BY <1>3, <1>4
<1> QED BY <1>1, <1>2, <1>6, <1>7, <1>8, <1>9, <1>10 DEF Sell!SalesInv

LEMMA SalesInitKeeps == ASSUME Sell!SalesConstants, Sell!Init PROVE Sell!SalesInv
BY DEF Sell!SalesConstants, Sell!Init, Sell!SalesInv, Sell!Shape, Sell!Idle, Sell!Working,
   Sell!Selling, Sell!Holds

LEMMA SalesStep == Sell!SalesConstants /\ Sell!SalesInv /\ [Sell!Next]_(Sell!vars) => Sell!SalesInv'
<1> SUFFICES ASSUME Sell!SalesConstants, Sell!SalesInv, [Sell!Next]_(Sell!vars) PROVE Sell!SalesInv'
  OBVIOUS
<1>1. ASSUME NEW t \in Trades, Sell!Lock(t) PROVE Sell!SalesInv'
  BY <1>1 DEF Sell!Lock, Sell!SalesInv, Sell!Shape, Sell!Working, Sell!Selling, Sell!Holds
<1>2. ASSUME NEW p \in People, NEW t \in Trades, NEW newLeg \in Sell!Legs, NEW tonnes, Sell!Attach(p, t, newLeg, tonnes)
      PROVE  Sell!SalesInv'
  <2>1. PICK held : Sell!Request(p, "attach", t, newLeg, held, TRUE)
    BY <1>2 DEF Sell!Attach
  <2>2. /\ work[p].pc = "idle" /\ t \in exists
        /\ UNCHANGED <<exists, leg, seller, quantity, shown>>
    BY <1>2 DEF Sell!Attach, Sell!Idle
  <2> QED BY <2>1, <2>2, BeginKeeps
<1>3. ASSUME NEW p \in People, NEW t \in Trades, NEW newLeg \in Sell!Legs, NEW tonnes, Sell!Sale(p, t, newLeg, tonnes)
      PROVE  Sell!SalesInv'
  <2>1. /\ work[p].pc = "idle" /\ t \notin exists /\ \A o \in People : work[o].trade # t
        /\ Sell!Request(p, "sale", t, newLeg, tonnes, TRUE)
        /\ UNCHANGED <<exists, leg, seller, quantity, shown>>
    <3>1. work[p] = Sell!Idle
      BY <1>3 DEF Sell!Sale
    <3>2. work[p].pc = "idle"
      BY ONLY <3>1 DEF Sell!Idle
    <3> QED BY <1>3, <3>2 DEF Sell!Sale
  <2> QED BY <2>1, BeginKeeps
<1>4. ASSUME NEW p \in People, NEW t \in Trades, NEW field \in Fields, NEW newLeg \in Sell!Legs, NEW tonnes,
             NEW channel, Sell!Correct(p, t, field, newLeg, tonnes, channel)
      PROVE  Sell!SalesInv'
  <2>1. PICK held, spread : Sell!Request(p, field, t, newLeg, held, spread)
    BY <1>4 DEF Sell!Correct
  <2>2. /\ work[p].pc = "idle" /\ leg[t] # Sell!NoLeg /\ field \in {"quantity", "contracted", "contract"}
        /\ UNCHANGED <<exists, leg, seller, quantity, shown>>
    BY <1>4 DEF Sell!Correct, Sell!Idle, Sell!SalesConstants
  <2> QED BY <2>1, <2>2, BeginKeeps
<1>5. ASSUME NEW p \in People, NEW t \in Trades, NEW tonnes, Sell!Validate(p, t, tonnes)
      PROVE  Sell!SalesInv'
  <2>1. PICK held : Sell!Request(p, "validate", t, Sell!NoLeg, held, FALSE)
    BY <1>5 DEF Sell!Validate
  <2>2. /\ work[p].pc = "idle" /\ leg[t] # Sell!NoLeg
        /\ UNCHANGED <<exists, leg, seller, quantity, shown>>
    BY <1>5 DEF Sell!Validate, Sell!Idle
  <2> QED BY <2>1, <2>2, BeginKeeps
<1>6. CASE UNCHANGED Sell!vars
  BY <1>6 DEF Sell!vars, Sell!SalesInv, Sell!Shape, Sell!Working, Sell!Selling, Sell!Holds
<1> QED BY <1>1, <1>2, <1>3, <1>4, <1>5, <1>6, FlushKeeps, EvaluateKeeps,
           CommitKeeps DEF Sell!Next

\* The inductive invariant of the sell side: whose request holds which trade,
\* and what it has in hand of it.
THEOREM SalesAreInvariant ==
    ASSUME Sell!SalesConstants PROVE Sell!Spec => []Sell!SalesInv
BY SalesInitKeeps, SalesStep, PTL DEF Sell!Spec

\* sales_service.attach_sales_leg: of two sessions that sell one batch the first
\* to flush keeps it, however many sell.
THEOREM FirstSaleIsKept ==
    ASSUME Sell!SalesConstants PROVE Sell!Spec => Sell!FirstSaleStands
<1>1. Sell!SalesInv /\ [Sell!Next]_(Sell!vars) => [\A t \in Trades : seller[t] # "none" => seller'[t] = seller[t]]_(Sell!vars)
  <2> SUFFICES ASSUME Sell!SalesInv, [Sell!Next]_(Sell!vars), NEW t \in Trades, seller[t] # "none"
               PROVE  seller'[t] = seller[t]
    OBVIOUS
  <2>1. ASSUME NEW p \in People, Sell!Commit(p) PROVE seller'[t] = seller[t]
    <3>1. /\ work[p].pc = "commit" /\ Sell!Shape(p)
          /\ seller'[t] = IF t = work[p].trade /\ Sell!Selling(p) THEN p ELSE seller[t]
      BY <2>1, CommitEffect DEF Sell!SalesInv
    <3> QED BY <3>1 DEF Sell!SalesInv, Sell!Shape
  <2>2. ASSUME ~\E p \in People : Sell!Commit(p) PROVE UNCHANGED seller
    <3>1. ASSUME NEW p \in People, Sell!Flush(p) \/ Sell!Evaluate(p) PROVE UNCHANGED seller
      BY <3>1 DEF Sell!Flush, Sell!Evaluate
    <3>2. ASSUME NEW p, NEW u, NEW l, NEW q,
                 \/ Sell!Attach(p, u, l, q) \/ Sell!Sale(p, u, l, q) \/ Sell!Validate(p, u, q)
                 \/ \E f \in Fields, ch \in Channels : Sell!Correct(p, u, f, l, q, ch)
          PROVE  UNCHANGED seller
      BY <3>2 DEF Sell!Attach, Sell!Sale, Sell!Validate, Sell!Correct
    <3>3. ASSUME NEW u, Sell!Lock(u) PROVE UNCHANGED seller
      BY <3>3 DEF Sell!Lock
    <3> QED BY <2>2, <3>1, <3>2, <3>3 DEF Sell!Next, Sell!vars
  <2> QED BY <2>1, <2>2
<1> QED BY <1>1, SalesAreInvariant, PTL DEF Sell!Spec, Sell!FirstSaleStands

-----------------------------------------------------------------------------
(* One person at a time. *)

\* A contract stands where it stood when a trade of another one changes.
LEMMA OtherCoverage ==
    ASSUME NEW legs, NEW legsNow, NEW tonnes, NEW tonnesNow, NEW t, NEW c,
           \A u \in Trades : u # t => legsNow[u] = legs[u] /\ tonnesNow[u] = tonnes[u],
           legs[t].contract # c, legsNow[t].contract # c
    PROVE  /\ Sell!OnContract(legsNow, c) = Sell!OnContract(legs, c)
           /\ Sell!Coverage(legsNow, tonnesNow, c) = Sell!Coverage(legs, tonnes, c)
<1> DEFINE S == Sell!OnContract(legs, c)
<1>1. Sell!OnContract(legsNow, c) = S
  BY DEF Sell!OnContract
<1>2. \A u \in S : u \in Trades /\ u # t
  BY DEF Sell!OnContract
<1>6. Sell!OnContract(legs, c) = S
  OBVIOUS
<1> HIDE DEF S
<1>3. [u \in S |-> tonnesNow[u]] = [u \in S |-> tonnes[u]]
  BY <1>2
<1>4. {legsNow[u].contracted : u \in S} = {legs[u].contracted : u \in S}
  BY <1>2
<1>5. Sell!Coverage(legsNow, tonnesNow, c) = Sell!Coverage(legs, tonnes, c)
  BY ONLY <1>1, <1>3, <1>4, <1>6 DEF Sell!Coverage
<1> QED BY <1>1, <1>5, <1>6

\* A request begins: nothing that is shown changes.
LEMMA BeginShows ==
    ASSUME Sell!SalesConstants, Sell!SalesInv, Sell!LoneSales, Sell!ShownInv, NEW p \in People,
           NEW kind, NEW t, NEW newLeg, NEW tonnes, NEW spread,
           Sell!Request(p, kind, t, newLeg, tonnes, spread),
           UNCHANGED <<leg, quantity, shown>>,
           kind # "contract", Channels = {"workspace"} => spread
    PROVE  Sell!ShownInv'
<1>1. /\ work'[p].pc = "flush" /\ work'[p].kind = kind /\ work'[p].spread = spread
      /\ \A o \in People : o = p
  BY DEF Sell!Request, Sell!Become, Sell!Idle, Sell!SalesInv, Sell!Shape, Sell!LoneSales
<1>2. Sell!FoundIsCurrent'
  BY <1>1 DEF Sell!FoundIsCurrent
<1>3. Sell!OverIsNoticed' /\ (Channels = {"workspace"} => Sell!CoverageAgrees')
  BY DEF Sell!ShownInv, Sell!OverIsNoticed, Sell!CoverageAgrees, Sell!Sold
<1> QED BY <1>1, <1>2, <1>3 DEF Sell!ShownInv

LEMMA FlushShows ==
    ASSUME Sell!SalesInv, Sell!LoneSales, Sell!ShownInv, NEW p \in People, Sell!Flush(p)
    PROVE  Sell!ShownInv'
<1>1. /\ DOMAIN work = People /\ Sell!Shape(p)
      /\ UNCHANGED <<leg, quantity, shown>> /\ \A o \in People : o = p
      /\ work[p].pc = "flush"
  BY DEF Sell!Flush, Sell!SalesInv, Sell!Shape, Sell!LoneSales
<1>2. /\ work'[p].pc # "commit" /\ work'[p].kind # "contract"
      /\ work'[p].pc # "idle" => work'[p].spread = work[p].spread
  <2>1. CASE Sell!Become(p, Sell!Idle)
    BY <1>1, <2>1, Becomes DEF Sell!Idle
  <2>2. CASE Sell!Become(p, [work[p] EXCEPT !.pc = "evaluate"])
    <3>1. work'[p] = [work[p] EXCEPT !.pc = "evaluate"]
      BY <1>1, <2>2, Becomes
    <3>2. work[p].kind # "contract"
      BY DEF Sell!ShownInv
    <3> QED BY <3>1, <3>2
  <2> QED BY <2>1, <2>2 DEF Sell!Flush
<1>3. Sell!FoundIsCurrent'
  BY <1>1, <1>2 DEF Sell!FoundIsCurrent
<1>4. Sell!OverIsNoticed' /\ (Channels = {"workspace"} => Sell!CoverageAgrees')
  BY <1>1 DEF Sell!ShownInv, Sell!OverIsNoticed, Sell!CoverageAgrees, Sell!Sold
<1> QED BY <1>1, <1>2, <1>3, <1>4 DEF Sell!ShownInv, Sell!Working

\* What is evaluated is what the contract stands at once the session commits.
LEMMA EvaluateShows ==
    ASSUME Sell!SalesConstants, Sell!SalesInv, Sell!LoneSales, Sell!ShownInv, NEW p \in People, Sell!Evaluate(p)
    PROVE  Sell!ShownInv'
<1> DEFINE t == work[p].trade
           c == Sell!NewLeg(p).contract
           told == IF work[p].spread THEN Sell!OnContract(Sell!LegsOf(p), c) ELSE {t}
           found == [s \in told |-> Sell!Coverage(Sell!LegsOf(p), Sell!TonnesOf(p), c)]
<1>1. /\ DOMAIN work = People /\ Sell!Shape(p) /\ work[p].pc = "evaluate"
      /\ UNCHANGED <<leg, quantity, shown>> /\ \A o \in People : o = p
      /\ Sell!Become(p, [work[p] EXCEPT !.pc = "commit", !.found = found])
  BY DEF Sell!Evaluate, Sell!SalesInv, Sell!Shape, Sell!LoneSales
<1>2. Sell!Working(p) /\ t \in Trades
  BY <1>1 DEF Sell!Working, Sell!Shape
<1>3. t \in Sell!OnContract(Sell!LegsOf(p), c)
  BY <1>2, NewLegFacts DEF Sell!OnContract
<1>4. /\ t \in told /\ told \subseteq Sell!OnContract(Sell!LegsOf(p), c)
      /\ work[p].spread => told = Sell!OnContract(Sell!LegsOf(p), c)
  BY <1>3
<1>5. DOMAIN found = told /\ \A s \in told : found[s] = Sell!Coverage(Sell!LegsOf(p), Sell!TonnesOf(p), c)
  OBVIOUS
<1> HIDE DEF told, found, c
<1>6. work'[p] = [work[p] EXCEPT !.pc = "commit", !.found = found]
  BY <1>1, Becomes
<1>7. /\ work'[p].pc = "commit" /\ work'[p].kind = work[p].kind /\ work'[p].trade = t
      /\ work'[p].leg = work[p].leg /\ work'[p].quantity = work[p].quantity
      /\ work'[p].spread = work[p].spread
  BY <1>1, <1>6
<1>8. work'[p].found = found
  BY <1>1, <1>6 DEF Sell!Shape
<1>9. Sell!NewLeg(p)' = Sell!NewLeg(p) /\ Sell!LegsOf(p)' = Sell!LegsOf(p) /\ Sell!TonnesOf(p)' = Sell!TonnesOf(p)
  BY <1>1, <1>7 DEF Sell!NewLeg, Sell!LegsOf, Sell!TonnesOf
<1>10. Sell!FoundIsCurrent'
  <2>1. Sell!Current(p)'
    <3>1. Sell!LegsOf(p)' = Sell!LegsOf(p) /\ Sell!NewLeg(p)'.contract = c
      BY <1>9 DEF c
    <3>2. (work[p].trade \in DOMAIN work[p].found)'
      BY <1>4, <1>5, <1>7, <1>8
    <3>3. (DOMAIN work[p].found)' = told /\ (work[p].spread => told = Sell!OnContract(Sell!LegsOf(p), c))
          /\ told \subseteq Sell!OnContract(Sell!LegsOf(p), c)
      BY <1>4, <1>5, <1>8
    <3>4. \A u \in told : work'[p].found[u] = Sell!Coverage(Sell!LegsOf(p), Sell!TonnesOf(p), c)
      BY <1>5, <1>8
    <3> QED BY <1>7, <1>9, <3>1, <3>2, <3>3, <3>4 DEF Sell!Current
  <2> QED BY <1>1, <2>1 DEF Sell!FoundIsCurrent
<1>11. Sell!OverIsNoticed' /\ (Channels = {"workspace"} => Sell!CoverageAgrees')
  BY <1>1 DEF Sell!ShownInv, Sell!OverIsNoticed, Sell!CoverageAgrees, Sell!Sold
<1> QED BY <1>1, <1>7, <1>10, <1>11 DEF Sell!ShownInv, Sell!Working

\* A commit shows what it found, and the other contracts stand where they stood.
LEMMA CommitShows ==
    ASSUME Sell!SalesConstants, Sell!SalesInv, Sell!LoneSales, Sell!ShownInv, NEW p \in People, Sell!Commit(p)
    PROVE  Sell!ShownInv'
<1> DEFINE t == work[p].trade
           c == Sell!NewLeg(p).contract
           found == work[p].found
<1>1. /\ Sell!Working(p) /\ work[p].pc = "commit" /\ t \in Trades /\ Sell!Shape(p)
      /\ work'[p].pc = "idle" /\ work'[p].kind = "none"
      /\ leg' = Sell!LegsOf(p) /\ quantity' = Sell!TonnesOf(p)
      /\ \A u \in Trades : shown'[u] = IF u \in DOMAIN found THEN found[u] ELSE shown[u]
  BY CommitEffect DEF Sell!SalesInv
<1>2. /\ \A o \in People : o = p
      /\ Sell!Current(p) /\ work[p].kind # "contract"
  BY <1>1 DEF Sell!LoneSales, Sell!ShownInv, Sell!FoundIsCurrent
<1>3. /\ Sell!LegsOf(p)[t] = Sell!NewLeg(p) /\ Sell!NewLeg(p) \in Sell!Legs
      /\ \A u \in Trades : u # t => Sell!LegsOf(p)[u] = leg[u]
      /\ leg[t] # Sell!NoLeg /\ ~Sell!Selling(p) => c = leg[t].contract
  BY <1>1, <1>2, NewLegFacts
<1>4. \A u \in Trades : u # t => Sell!TonnesOf(p)[u] = quantity[u]
  BY <1>1 DEF Sell!TonnesOf, Sell!SalesInv
<1>5. leg[t] = Sell!NoLeg \/ leg[t].contract = c
  BY <1>1, <1>3 DEF Sell!Shape
<1>6. ASSUME NEW d \in Contracts, d # c
      PROVE  /\ Sell!OnContract(Sell!LegsOf(p), d) = Sell!OnContract(leg, d)
             /\ Sell!Coverage(Sell!LegsOf(p), Sell!TonnesOf(p), d) = Sell!Coverage(leg, quantity, d)
  <2>1. leg[t].contract # d
    BY <1>5, <1>6 DEF Sell!NoLeg, Sell!SalesConstants
  <2>2. Sell!LegsOf(p)[t].contract # d
    BY <1>3, <1>6
  <2>3. \A u \in Trades : u # t => Sell!LegsOf(p)[u] = leg[u] /\ Sell!TonnesOf(p)[u] = quantity[u]
    BY <1>3, <1>4
  <2> HIDE DEF t, c
  <2> QED BY ONLY <2>1, <2>2, <2>3, OtherCoverage
<1>7. /\ t \in DOMAIN found
      /\ work[p].spread => DOMAIN found = Sell!OnContract(Sell!LegsOf(p), c)
      /\ DOMAIN found \subseteq Sell!OnContract(Sell!LegsOf(p), c)
      /\ \A u \in DOMAIN found : found[u] = Sell!Coverage(Sell!LegsOf(p), Sell!TonnesOf(p), c)
  BY <1>2 DEF Sell!Current
<1> HIDE DEF t, c, found
<1>8. ASSUME NEW d \in Contracts, Sell!Coverage(Sell!LegsOf(p), Sell!TonnesOf(p), d).state = "over"
      PROVE  \E u \in Sell!OnContract(Sell!LegsOf(p), d) : shown'[u].state = "over"
  <2>1. CASE d = c
    <3>1. shown'[t] = Sell!Coverage(Sell!LegsOf(p), Sell!TonnesOf(p), d)
      BY <1>1, <1>7, <2>1
    <3>2. t \in Sell!OnContract(Sell!LegsOf(p), d)
      BY <1>7, <2>1
    <3> QED BY <1>8, <3>1, <3>2
  <2>2. CASE d # c
    <3>1. PICK u \in Sell!OnContract(leg, d) : shown[u].state = "over"
      BY <1>6, <1>8, <2>2 DEF Sell!ShownInv, Sell!OverIsNoticed
    <3>2. u \in Sell!OnContract(Sell!LegsOf(p), d) /\ u \in Trades /\ Sell!LegsOf(p)[u].contract = d
      BY <1>6, <2>2, <3>1 DEF Sell!OnContract
    <3>3. u \notin DOMAIN found
      BY <1>7, <2>2, <3>2 DEF Sell!OnContract
    <3> QED BY <1>1, <3>1, <3>2, <3>3
  <2> QED BY <2>1, <2>2
<1>9. Sell!OverIsNoticed'
  BY <1>1, <1>8 DEF Sell!OverIsNoticed
<1>10. ASSUME Channels = {"workspace"}, NEW u \in Trades, Sell!LegsOf(p)[u] # Sell!NoLeg
       PROVE  shown'[u] = Sell!Coverage(Sell!LegsOf(p), Sell!TonnesOf(p), Sell!LegsOf(p)[u].contract)
  <2>0. work[p].spread /\ Sell!CoverageAgrees
    BY <1>1, <1>10 DEF Sell!ShownInv
  <2>1. CASE Sell!LegsOf(p)[u].contract = c
    <3>1. u \in DOMAIN found
      BY <1>7, <2>0, <2>1 DEF Sell!OnContract
    <3> QED BY <1>1, <1>7, <2>1, <3>1
  <2>2. CASE Sell!LegsOf(p)[u].contract # c
    <3>1. u # t /\ Sell!LegsOf(p)[u] = leg[u] /\ u \notin DOMAIN found
      BY <1>3, <1>7, <2>2 DEF Sell!OnContract, c
    <3>2. leg[u].contract \in Contracts
      BY <1>10, <3>1, LegFacts DEF Sell!SalesInv
    <3>3. shown[u] = Sell!Coverage(leg, quantity, leg[u].contract)
      BY <1>10, <2>0, <3>1 DEF Sell!CoverageAgrees, Sell!Sold
    <3> QED BY <1>1, <1>6, <2>2, <3>1, <3>2, <3>3
  <2> QED BY <2>1, <2>2
<1>11. Channels = {"workspace"} => Sell!CoverageAgrees'
  BY <1>1, <1>10 DEF Sell!CoverageAgrees, Sell!Sold
<1>12. Sell!FoundIsCurrent'
  BY <1>1, <1>2 DEF Sell!FoundIsCurrent
<1> QED BY <1>1, <1>2, <1>9, <1>11, <1>12 DEF Sell!ShownInv, Sell!Working

LEMMA ShownInit == ASSUME Sell!SalesConstants, Sell!Init PROVE Sell!ShownInv
<1>1. \A p \in People : work[p].kind = "none" /\ work[p].pc = "idle"
  BY DEF Sell!Init, Sell!Idle
<1>2. Sell!CoverageAgrees
  BY DEF Sell!Init, Sell!CoverageAgrees, Sell!Sold
<1>3. Sell!OverIsNoticed
  <2> SUFFICES ASSUME NEW c \in Contracts PROVE Sell!Coverage(leg, quantity, c).state # "over"
    BY DEF Sell!OverIsNoticed
  <2>1. Sell!OnContract(leg, c) = {}
    BY DEF Sell!Init, Sell!OnContract, Sell!NoLeg, Sell!SalesConstants
  <2>2. {leg[t].contracted : t \in Sell!OnContract(leg, c)} \cup {Sell!Unset} = {0}
    BY <2>1 DEF Sell!Unset
  <2>3. Sell!Max({leg[t].contracted : t \in Sell!OnContract(leg, c)} \cup {Sell!Unset}) = Sell!Unset
    BY <2>2 DEF Sell!Max, Sell!Unset
  <2>4. Sell!Coverage(leg, quantity, c).state = "unknown"
    BY ONLY <2>3 DEF Sell!Coverage, Sell!CoverageState
  <2> QED BY <2>4
<1> QED BY <1>1, <1>2, <1>3 DEF Sell!ShownInv, Sell!FoundIsCurrent, Sell!Working

LEMMA ShownStep ==
    Sell!SalesConstants /\ Sell!LoneSales /\ Sell!SalesInv /\ Sell!ShownInv /\ [Sell!Next]_(Sell!vars) => Sell!ShownInv'
<1> SUFFICES ASSUME Sell!SalesConstants, Sell!LoneSales, Sell!SalesInv, Sell!ShownInv, [Sell!Next]_(Sell!vars) PROVE Sell!ShownInv'
  OBVIOUS
<1>1. ASSUME UNCHANGED <<leg, quantity, shown, work>> PROVE Sell!ShownInv'
  BY <1>1 DEF Sell!ShownInv, Sell!FoundIsCurrent, Sell!Current, Sell!NewLeg, Sell!LegsOf,
     Sell!TonnesOf, Sell!OverIsNoticed,
              Sell!CoverageAgrees, Sell!Sold, Sell!Working
<1>2. ASSUME NEW p \in People, NEW t \in Trades, NEW newLeg \in Sell!Legs, NEW tonnes,
             Sell!Attach(p, t, newLeg, tonnes) \/ Sell!Sale(p, t, newLeg, tonnes)
      PROVE  Sell!ShownInv'
  <2>1. PICK kind \in {"attach", "sale"} : \E held : Sell!Request(p, kind, t, newLeg, held, TRUE)
    BY <1>2 DEF Sell!Attach, Sell!Sale
  <2>2. UNCHANGED <<leg, quantity, shown>>
    BY <1>2 DEF Sell!Attach, Sell!Sale
  <2> QED BY <2>1, <2>2, BeginShows
<1>3. ASSUME NEW p \in People, NEW t \in Trades, NEW field \in Fields, NEW newLeg \in Sell!Legs, NEW tonnes,
             NEW channel \in Channels, Sell!Correct(p, t, field, newLeg, tonnes, channel)
      PROVE  Sell!ShownInv'
  <2>1. PICK held : Sell!Request(p, field, t, newLeg, held, channel = "workspace")
    BY <1>3 DEF Sell!Correct
  <2>2. UNCHANGED <<leg, quantity, shown>>
    BY <1>3 DEF Sell!Correct
  <2>3. field # "contract" /\ (Channels = {"workspace"} => channel = "workspace")
    BY <1>3 DEF Sell!LoneSales
  <2> QED BY <2>1, <2>2, <2>3, BeginShows
<1>4. ASSUME NEW p \in People, NEW t \in Trades, NEW tonnes, Sell!Validate(p, t, tonnes)
      PROVE  Sell!ShownInv'
  <2>1. PICK held : Sell!Request(p, "validate", t, Sell!NoLeg, held, FALSE)
    BY <1>4 DEF Sell!Validate
  <2>2. Channels # {"workspace"} /\ UNCHANGED <<leg, quantity, shown>>
    BY <1>4 DEF Sell!Validate
  <2> QED BY <2>1, <2>2, BeginShows
<1>5. ASSUME NEW t \in Trades, Sell!Lock(t) PROVE Sell!ShownInv'
  BY <1>1, <1>5 DEF Sell!Lock
<1>6. CASE UNCHANGED Sell!vars
  BY <1>1, <1>6 DEF Sell!vars
<1> QED BY <1>2, <1>3, <1>4, <1>5, <1>6, FlushShows, EvaluateShows, CommitShows DEF Sell!Next

\* Rule SL-01 with one person at a time: a contract invoiced beyond its cover
\* shows so on a trade of it, and corrections made in the workspace leave no
\* trade with yesterday's result.
THEOREM CoverageShows ==
    ASSUME Sell!SalesConstants PROVE Sell!Spec => []Sell!CoverageIsShown
<1>1. ASSUME Sell!LoneSales PROVE Sell!Spec => []Sell!ShownInv
  BY <1>1, ShownInit, ShownStep, SalesAreInvariant, PTL DEF Sell!Spec
<1>2. Sell!ShownInv => Sell!CoverageIsShown
  BY DEF Sell!ShownInv, Sell!CoverageIsShown
<1>3. ~Sell!LoneSales => Sell!CoverageIsShown
  BY DEF Sell!CoverageIsShown
<1>4. CASE Sell!LoneSales
  BY <1>1, <1>2, <1>4, PTL
<1>5. CASE ~Sell!LoneSales
  BY <1>3, <1>5, PTL
<1> QED BY <1>4, <1>5

-----------------------------------------------------------------------------
(* Where the cargo is (Shipments).                                         *)

\* The columns of a shipment.
LEMMA ColumnsOfARow ==
    ASSUME NEW row \in Cargo!ShipRow
    PROVE  DOMAIN row = {"open", "status", "milestone", "eta", "since", "checked", "failures", "flagged"}
BY DEF Cargo!ShipRow

\* Written: what is written of a row is a row; of a copy that is the row, it is
\* what the session made of it.
LEMMA WrittenIsARow ==
    ASSUME NEW now \in Cargo!ShipRow, NEW copy \in Cargo!ShipRow, NEW new \in Cargo!ShipRow
    PROVE  /\ Cargo!Written(now, copy, new) \in Cargo!ShipRow
           /\ new.open = copy.open => Cargo!Written(now, copy, new).open = now.open
           /\ now = copy => Cargo!Written(now, copy, new) = new
<1> DEFINE Field(c) == IF new[c] # copy[c] THEN new[c] ELSE now[c]
           W == Cargo!Written(now, copy, new)
<1>1. W = [c \in {"open", "status", "milestone", "eta", "since", "checked", "failures", "flagged"} |-> Field(c)]
  BY ColumnsOfARow DEF Cargo!Written
<1>2. W = [open |-> W.open, status |-> W.status, milestone |-> W.milestone, eta |-> W.eta,
           since |-> W.since, checked |-> W.checked, failures |-> W.failures, flagged |-> W.flagged]
  BY <1>1
<1>3. /\ W.open = Field("open") /\ W.status = Field("status") /\ W.milestone = Field("milestone")
      /\ W.eta = Field("eta") /\ W.since = Field("since") /\ W.checked = Field("checked")
      /\ W.failures = Field("failures") /\ W.flagged = Field("flagged")
  BY <1>1
<1>4. W \in Cargo!ShipRow
  <2>1. /\ W.open \in BOOLEAN /\ W.status \in Cargo!Statuses /\ W.milestone \in Cargo!Milestones /\ W.eta \in Nat
        /\ W.since \in 0..MaxDay /\ W.checked \in 0..MaxDay /\ W.failures \in 0..FailureLimit + 1
        /\ W.flagged \in BOOLEAN
    BY <1>3 DEF Cargo!ShipRow
  <2> HIDE DEF W
  <2> QED BY <1>2, <2>1 DEF Cargo!ShipRow
<1>5. new.open = copy.open => W.open = now.open
  BY <1>3
<1>6. ASSUME now = copy PROVE W = new
  <2>1. new = [open |-> new.open, status |-> new.status, milestone |-> new.milestone, eta |-> new.eta,
           since |-> new.since, checked |-> new.checked, failures |-> new.failures, flagged |-> new.flagged]
    BY DEF Cargo!ShipRow
  <2>2. /\ W.open = new.open /\ W.status = new.status /\ W.milestone = new.milestone
        /\ W.eta = new.eta /\ W.since = new.since /\ W.checked = new.checked
        /\ W.failures = new.failures /\ W.flagged = new.flagged
    BY <1>3, <1>6
  <2> HIDE DEF W
  <2> QED BY <1>2, <2>1, <2>2
<1> QED BY <1>4, <1>5, <1>6

\* Updated, Refused: a reading of a row is a row, and goes back to no earlier
\* stage without the flag.
LEMMA ReadingIsARow ==
    ASSUME Cargo!ShipConstants, day \in 1..MaxDay, NEW row \in Cargo!ShipRow,
           NEW said \in [status : Cargo!Statuses \cup {Cargo!Unsaid},
                         milestone : Cargo!Milestones \cup {Cargo!Unsaid}, eta : Nat]
    PROVE  /\ Cargo!Updated(row, said) \in Cargo!ShipRow /\ Cargo!Noted(row, Cargo!Updated(row, said))
           /\ Cargo!Updated(row, said).failures = 0
<1> DEFINE Told == Cargo!Said(row, said)
           New == Cargo!Updated(row, said)
           changed == Cargo!Said(row, said) # row
           Flag == ~Cargo!Plausible(row, said) \/ (row.flagged /\ ~(changed /\ said.milestone # Cargo!Unsaid))
<1>1. /\ Told \in Cargo!ShipRow
      /\ Told.milestone = IF said.milestone = Cargo!Unsaid THEN row.milestone ELSE said.milestone
      /\ Told.open = row.open /\ Told.flagged = row.flagged
  BY DEF Cargo!Said, Cargo!ShipRow, Cargo!Unsaid
<1>2. New = [Told EXCEPT !.flagged = ~Cargo!Plausible(row, said) \/ (@ /\ ~(changed /\ said.milestone # Cargo!Unsaid)),
                          !.checked = day, !.failures = 0]
  BY DEF Cargo!Updated
<1>3. Flag \in BOOLEAN
  OBVIOUS
<1>4. New = [Told EXCEPT !.flagged = Flag, !.checked = day, !.failures = 0]
  <2> HIDE DEF Told
  <2> QED BY <1>1, <1>2, Zenon
<1>5. row.milestone \in Cargo!Finished /\ Told.milestone \notin Cargo!Finished => Flag
  BY <1>1 DEF Cargo!Plausible
<1>6. /\ New \in Cargo!ShipRow /\ New.open = row.open /\ New.failures = 0
      /\ New.milestone = Told.milestone /\ New.flagged = Flag
  <2> HIDE DEF Told, Flag, New
  <2>1. 0 \in 0..FailureLimit + 1 /\ day \in 0..MaxDay
    BY DEF Cargo!ShipConstants
  <2> QED BY <1>1, <1>3, <1>4, <2>1 DEF Cargo!ShipRow
<1>7. row.milestone \in Cargo!Finished /\ New.milestone \notin Cargo!Finished => New.flagged
  <2> HIDE DEF Told, Flag, New
  <2> QED BY <1>5, <1>6, Zenon
<1> QED
  <2> HIDE DEF Told, Flag
  <2>1. New.open = row.open /\ (New.checked # row.checked => New.failures = 0)
    BY <1>6
  <2> QED BY <1>6, <1>7, <2>1, Zenon DEF Cargo!Noted

LEMMA RefusalIsARow ==
    ASSUME Cargo!ShipConstants, NEW row \in Cargo!ShipRow
    PROVE  Cargo!Refused(row) \in Cargo!ShipRow /\ Cargo!Noted(row, Cargo!Refused(row))
<1>1. row.failures \in 0..FailureLimit + 1 /\ FailureLimit \in Nat
  BY DEF Cargo!ShipRow, Cargo!ShipConstants
<1>2. (IF row.failures > FailureLimit THEN row.failures ELSE row.failures + 1) \in 0..FailureLimit + 1
  BY <1>1
<1> DEFINE Count == IF row.failures > FailureLimit THEN row.failures ELSE row.failures + 1
<1>3. Cargo!Refused(row) = [row EXCEPT !.failures = Count]
  BY DEF Cargo!Refused, Cargo!ShipRow
<1> HIDE DEF Count
<1>4. /\ Cargo!Refused(row) \in Cargo!ShipRow /\ Cargo!Refused(row).open = row.open
      /\ Cargo!Refused(row).checked = row.checked
      /\ Cargo!Refused(row).milestone = row.milestone
  BY <1>2, <1>3 DEF Cargo!ShipRow, Count
<1> QED BY <1>4 DEF Cargo!Noted

LEMMA BlankRow ==
    Cargo!ShipConstants => Cargo!NoShip \in Cargo!ShipRow /\ Cargo!Asleep \in Cargo!SweepOf({}, {})
BY DEF Cargo!ShipConstants, Cargo!NoShip, Cargo!ShipRow, Cargo!Asleep, Cargo!SweepOf,
     Cargo!Statuses, Cargo!Milestones

\* All that stands still but one sweep, or one request.
LEMMA OneSweepMoves ==
    ASSUME Cargo!ShipInv, NEW r \in Replicas, NEW w, Cargo!SoundSweep(w),
           sweep' = [sweep EXCEPT ![r] = w],
           \A s \in DOMAIN w.copy : ship[s].open,
           UNCHANGED <<ship, bill, verdict, cases, desk, day, changes>>, faults' \in 0..MaxFaults
    PROVE  Cargo!ShipInv'
<1>1. DOMAIN sweep' = Replicas
  BY DEF Cargo!ShipInv
<1>2. ASSUME NEW q \in Replicas PROVE Cargo!SoundSweep(sweep[q])'
  <2>1. sweep'[q] = w \/ sweep'[q] = sweep[q]
    BY DEF Cargo!ShipInv
  <2>2. Cargo!SoundSweep(sweep'[q])
    BY <2>1 DEF Cargo!ShipInv
  <2> QED BY <2>2 DEF Cargo!SoundSweep, Cargo!SweepOf, Cargo!Noted
<1>3. \A p \in People : Cargo!SoundRequest(desk[p])'
  BY DEF Cargo!ShipInv, Cargo!SoundRequest, Cargo!DeskRow, Cargo!Noted
<1>4. Cargo!LoadedIsOpen'
  <2>1. ASSUME NEW q \in Replicas, NEW s \in DOMAIN sweep'[q] . copy PROVE ship'[s].open
    <3>1. sweep'[q] = w \/ sweep'[q] = sweep[q]
      BY DEF Cargo!ShipInv
    <3> QED BY <2>1, <3>1 DEF Cargo!ShipInv, Cargo!LoadedIsOpen
  <2> QED BY <2>1 DEF Cargo!ShipInv, Cargo!LoadedIsOpen
<1> QED BY <1>1, <1>2, <1>3, <1>4 DEF Cargo!ShipInv, Cargo!SoundShip

LEMMA OneRequestMoves ==
    ASSUME Cargo!ShipInv, NEW p \in People, NEW d, Cargo!SoundRequest(d), Cargo!Become(p, d),
           d.pc # "idle" => ship[d.ship].open,
           UNCHANGED <<ship, bill, verdict, cases, sweep, day, faults>>, changes' \in 0..MaxChanges
    PROVE  Cargo!ShipInv'
<1>1. DOMAIN desk' = People
  BY DEF Cargo!ShipInv, Cargo!Become
<1>2. ASSUME NEW q \in People PROVE Cargo!SoundRequest(desk[q])'
  <2>1. desk'[q] = d \/ desk'[q] = desk[q]
    BY DEF Cargo!ShipInv, Cargo!Become
  <2> QED BY <2>1 DEF Cargo!ShipInv, Cargo!SoundRequest, Cargo!DeskRow, Cargo!Noted
<1>3. \A r \in Replicas : Cargo!SoundSweep(sweep[r])'
  BY DEF Cargo!ShipInv, Cargo!SoundSweep, Cargo!SweepOf, Cargo!Noted
<1>4. Cargo!LoadedIsOpen'
  <2>1. ASSUME NEW q \in People, desk'[q].pc # "idle" PROVE ship'[desk'[q].ship].open
    <3>1. desk'[q] = d \/ desk'[q] = desk[q]
      BY DEF Cargo!ShipInv, Cargo!Become
    <3> QED BY <2>1, <3>1 DEF Cargo!ShipInv, Cargo!LoadedIsOpen
  <2> QED BY <2>1 DEF Cargo!ShipInv, Cargo!LoadedIsOpen
<1> QED BY <1>1, <1>2, <1>3, <1>4 DEF Cargo!ShipInv, Cargo!SoundShip

LEMMA SleepIsSound ==
    ASSUME Cargo!ShipConstants
    PROVE  Cargo!SoundSweep(Cargo!Asleep)
BY BlankRow DEF Cargo!SoundSweep

LEMMA IdleIsSound ==
    ASSUME Cargo!ShipConstants
    PROVE  Cargo!SoundRequest(Cargo!Idle)
BY BlankRow DEF Cargo!SoundRequest, Cargo!DeskRow, Cargo!Idle, Cargo!Unsaid

\* A sweep is as it was but for what is left of it and what it opened.
LEMMA ReportedIsOfATrade ==
    ASSUME Cargo!ShipConstants, Cargo!ShipInv, NEW r \in Replicas, NEW s \in Ships, NEW row
    PROVE  Cargo!Reported(r, s, row) \subseteq Trades
<1>1. sweep[r].opened \subseteq Trades
  BY DEF Cargo!ShipInv, Cargo!SoundSweep, Cargo!SweepOf
<1> QED BY <1>1 DEF Cargo!Reported, Cargo!ShipConstants

LEMMA BeginSweepKeeps ==
    ASSUME Cargo!ShipConstants, Cargo!ShipInv, NEW r \in Replicas, Cargo!BeginSweep(r)
    PROVE  Cargo!ShipInv'
<1>1. PICK chosen \in SUBSET Ships :
        /\ Cargo!First(chosen)
        /\ sweep' = [sweep EXCEPT ![r] =
            [Cargo!Asleep EXCEPT !.pc = "awake", !.left = {s \in chosen : Cargo!IsActive(ship[s])},
                           !.copy = [s \in chosen |-> ship[s]]]]
  BY Zenon DEF Cargo!BeginSweep
<1> DEFINE active == {s \in chosen : Cargo!IsActive(ship[s])}
           copies == [s \in chosen |-> ship[s]]
           w == [Cargo!Asleep EXCEPT !.pc = "awake", !.left = active, !.copy = copies]
<1>3. \A s \in chosen : ship[s] \in Cargo!ShipRow /\ ship[s].open
  BY <1>1 DEF Cargo!First, Cargo!Listed, Cargo!ShipInv, Cargo!SoundShip
<1>5. w \in Cargo!SweepOf(chosen, {}) /\ w.copy = copies
  <2>1. copies \in [chosen -> Cargo!ShipRow] /\ active \subseteq chosen
    BY <1>3
  <2> HIDE DEF active, copies
  <2> QED BY BlankRow, <2>1 DEF Cargo!SweepOf
<1>6. Cargo!SoundSweep(w)
  <2> HIDE DEF w
  <2> QED BY <1>5 DEF Cargo!SoundSweep
<1>8. \A s \in DOMAIN w.copy : ship[s].open
  BY <1>3, <1>5
<1>7. faults' \in 0..MaxFaults
  BY DEF Cargo!BeginSweep, Cargo!ShipInv
<1>9. UNCHANGED <<ship, bill, verdict, cases, desk, day, changes>>
  BY DEF Cargo!BeginSweep
<1> QED
  <2>1. sweep' = [sweep EXCEPT ![r] = w]
    BY <1>1, Zenon
  <2> HIDE DEF w
  <2> QED BY <1>6, <1>7, <1>8, <1>9, <2>1, OneSweepMoves

LEMMA PassKeeps ==
    ASSUME Cargo!ShipConstants, Cargo!ShipInv, NEW r \in Replicas, NEW s \in Ships, Cargo!Pass(r, s)
    PROVE  Cargo!ShipInv'
<1> DEFINE old == sweep[r]
           w == [old EXCEPT !.left = @ \ {s}, !.opened = Cargo!Reported(r, s, old.copy[s])]
<1>0. PICK loaded \in SUBSET Ships : \E touched \in SUBSET loaded :
        /\ old \in Cargo!SweepOf(loaded, touched)
        /\ \A o \in touched : Cargo!Noted(old.copy[o], old.new[o])
  BY DEF Cargo!ShipInv, Cargo!SoundSweep
<1>1. PICK touched \in SUBSET loaded :
        /\ old \in Cargo!SweepOf(loaded, touched)
        /\ \A o \in touched : Cargo!Noted(old.copy[o], old.new[o])
  BY <1>0
<1>2. sweep' = [sweep EXCEPT ![r] = w]
  BY DEF Cargo!Pass
<1>3. Cargo!Reported(r, s, old.copy[s]) \subseteq Trades
  BY ReportedIsOfATrade
<1>4. w \in Cargo!SweepOf(loaded, touched) /\ w.copy = old.copy /\ w.new = old.new
  <2> HIDE DEF old
  <2> QED BY <1>1, <1>3 DEF Cargo!SweepOf
<1>5. Cargo!SoundSweep(w)
  <2> HIDE DEF w, old
  <2> QED BY <1>1, <1>4 DEF Cargo!SoundSweep
<1>6. \A o \in DOMAIN w.copy : ship[o].open
  BY <1>4 DEF Cargo!ShipInv, Cargo!LoadedIsOpen
<1> HIDE DEF w
<1> QED BY <1>2, <1>5, <1>6, OneSweepMoves DEF Cargo!Pass, Cargo!ShipInv

\* What Ask makes of a sweep.
LEMMA AskKeeps ==
    ASSUME Cargo!ShipConstants, Cargo!ShipInv, NEW r \in Replicas, NEW s \in Ships, Cargo!Ask(r, s)
    PROVE  Cargo!ShipInv'
<1> DEFINE old == sweep[r]
           New(row) == [o \in DOMAIN old.new \cup {s} |-> IF o = s THEN row ELSE old.new[o]]
           w(row) == [old EXCEPT !.left = @ \ {s}, !.opened = Cargo!Reported(r, s, row), !.new = New(row)]
<1>0. PICK loaded \in SUBSET Ships : \E touched \in SUBSET loaded :
        /\ old \in Cargo!SweepOf(loaded, touched)
        /\ \A o \in touched : Cargo!Noted(old.copy[o], old.new[o])
  BY DEF Cargo!ShipInv, Cargo!SoundSweep
<1>1. PICK touched \in SUBSET loaded :
        /\ old \in Cargo!SweepOf(loaded, touched)
        /\ \A o \in touched : Cargo!Noted(old.copy[o], old.new[o])
  BY <1>0
<1>2. PICK row \in {Cargo!Updated(old.copy[s], said) : said \in Readings} \cup {Cargo!Refused(old.copy[s])} :
        sweep' = [sweep EXCEPT
            ![r].left = @ \ {s}, ![r].opened = Cargo!Reported(r, s, row),
            ![r].new = [o \in DOMAIN @ \cup {s} |-> IF o = s THEN row ELSE @[o]]]
  BY Zenon DEF Cargo!Ask
<1>3. sweep' = [sweep EXCEPT ![r] = w(row)]
  BY <1>2
<1>4. Cargo!Reported(r, s, row) \subseteq Trades
  BY ReportedIsOfATrade
<1>5. s \in loaded /\ old.copy[s] \in Cargo!ShipRow
  BY <1>1 DEF Cargo!Ask, Cargo!SweepOf
<1>6. row \in Cargo!ShipRow /\ Cargo!Noted(old.copy[s], row)
  <2>1. CASE row = Cargo!Refused(old.copy[s])
    BY <1>5, <2>1, RefusalIsARow
  <2>2. CASE \E said \in Readings : row = Cargo!Updated(old.copy[s], said)
    <3>1. PICK said \in Readings : row = Cargo!Updated(old.copy[s], said)
      BY <2>2
    <3>2. said \in [status : Cargo!Statuses \cup {Cargo!Unsaid},
                    milestone : Cargo!Milestones \cup {Cargo!Unsaid}, eta : Nat]
      BY DEF Cargo!ShipConstants
    <3>3. day \in 1..MaxDay
      BY DEF Cargo!ShipInv
    <3> QED BY <1>5, <3>1, <3>2, <3>3, ReadingIsARow
  <2> QED BY <1>2, <2>1, <2>2
<1>7. New(row) \in [touched \cup {s} -> Cargo!ShipRow] /\ New(row)[s] = row
      /\ \A o \in touched : o # s => New(row)[o] = old.new[o]
  BY <1>1, <1>6 DEF Cargo!SweepOf
<1>8. /\ w(row) \in Cargo!SweepOf(loaded, touched \cup {s})
      /\ w(row).copy = old.copy /\ w(row).new = New(row)
  <2> HIDE DEF old, New
  <2> QED BY <1>1, <1>4, <1>7 DEF Cargo!SweepOf
<1>9. Cargo!SoundSweep(w(row))
  <2> HIDE DEF w, old, New
  <2>1. touched \cup {s} \in SUBSET loaded
    BY <1>5
  <2>2. \A o \in touched \cup {s} : Cargo!Noted(w(row).copy[o], w(row).new[o])
    BY <1>1, <1>6, <1>7, <1>8
  <2> QED BY <1>8, <2>1, <2>2 DEF Cargo!SoundSweep
<1>10. \A o \in DOMAIN w(row).copy : ship[o].open
  BY <1>8 DEF Cargo!ShipInv, Cargo!LoadedIsOpen
<1>11. UNCHANGED <<ship, bill, verdict, cases, desk, day, changes>> /\ faults' \in 0..MaxFaults
  BY DEF Cargo!Ask, Cargo!ShipInv
<1> HIDE DEF w
<1> QED BY <1>3, <1>9, <1>10, <1>11, OneSweepMoves

LEMMA AbandonKeeps ==
    ASSUME Cargo!ShipConstants, Cargo!ShipInv, NEW r \in Replicas, Cargo!AbandonSweep(r)
    PROVE  Cargo!ShipInv'
<1>1. faults' \in 0..MaxFaults
  BY DEF Cargo!AbandonSweep, Cargo!ShipInv, Cargo!ShipConstants
<1>2. \A o \in DOMAIN Cargo!Asleep.copy : ship[o].open
  BY DEF Cargo!Asleep
<1> QED BY <1>1, <1>2, SleepIsSound, OneSweepMoves DEF Cargo!AbandonSweep

\* A commit merges columns into held.
LEMMA CommitSweepKeeps ==
    ASSUME Cargo!ShipConstants, Cargo!ShipInv, NEW r \in Replicas, Cargo!CommitSweep(r)
    PROVE  Cargo!ShipInv'
<1> DEFINE old == sweep[r]
<1>0. PICK loaded \in SUBSET Ships : \E touched \in SUBSET loaded :
        /\ old \in Cargo!SweepOf(loaded, touched)
        /\ \A o \in touched : Cargo!Noted(old.copy[o], old.new[o])
  BY DEF Cargo!ShipInv, Cargo!SoundSweep
<1>1. PICK touched \in SUBSET loaded :
        /\ old \in Cargo!SweepOf(loaded, touched)
        /\ \A o \in touched : Cargo!Noted(old.copy[o], old.new[o])
  BY <1>0
<1>2. ASSUME NEW s \in Ships PROVE Cargo!SoundShip(ship'[s])
  <2>1. CASE s \in touched
    <3>1. ship'[s] = Cargo!Written(ship[s], old.copy[s], old.new[s])
      BY <1>1, <2>1 DEF Cargo!CommitSweep, Cargo!SweepOf
    <3>2. ship[s] \in Cargo!ShipRow /\ old.copy[s] \in Cargo!ShipRow /\ old.new[s] \in Cargo!ShipRow
      BY <1>1, <2>1 DEF Cargo!SweepOf, Cargo!ShipInv, Cargo!SoundShip
    <3>3. old.new[s].open = old.copy[s].open
      BY <1>1, <2>1 DEF Cargo!Noted
    <3>4. ship[s].open
      BY <1>1, <2>1 DEF Cargo!SweepOf, Cargo!ShipInv, Cargo!LoadedIsOpen
    <3> QED BY <3>1, <3>2, <3>3, <3>4, WrittenIsARow DEF Cargo!SoundShip
  <2>2. CASE s \notin touched
    <3>1. ship'[s] = ship[s]
      BY <1>1, <2>2 DEF Cargo!CommitSweep, Cargo!SweepOf
    <3> QED BY <3>1 DEF Cargo!ShipInv
  <2> QED BY <2>1, <2>2
<1>3. \A s \in Ships : ship'[s].open = ship[s].open
  <2> TAKE s \in Ships
  <2>1. CASE s \in touched
    <3>1. ship'[s] = Cargo!Written(ship[s], old.copy[s], old.new[s])
      BY <1>1, <2>1 DEF Cargo!CommitSweep, Cargo!SweepOf
    <3>2. ship[s] \in Cargo!ShipRow /\ old.copy[s] \in Cargo!ShipRow /\ old.new[s] \in Cargo!ShipRow
      BY <1>1, <2>1 DEF Cargo!SweepOf, Cargo!ShipInv, Cargo!SoundShip
    <3>3. old.new[s].open = old.copy[s].open
      BY <1>1, <2>1 DEF Cargo!Noted
    <3> QED BY <3>1, <3>2, <3>3, WrittenIsARow
  <2>2. CASE s \notin touched
    BY <1>1, <2>2 DEF Cargo!CommitSweep, Cargo!SweepOf
  <2> QED BY <2>1, <2>2
<1>4. DOMAIN ship' = Ships /\ cases' \in [Trades -> Nat]
  BY DEF Cargo!CommitSweep, Cargo!ShipInv
<1>5. DOMAIN sweep' = Replicas /\ \A q \in Replicas : sweep'[q] = Cargo!Asleep \/ sweep'[q] = sweep[q]
  BY DEF Cargo!CommitSweep, Cargo!ShipInv
<1>6. \A q \in Replicas : Cargo!SoundSweep(sweep[q])'
  <2> TAKE q \in Replicas
  <2>1. Cargo!SoundSweep(sweep'[q])
    BY <1>5, SleepIsSound DEF Cargo!ShipInv
  <2> QED BY <2>1 DEF Cargo!SoundSweep, Cargo!SweepOf, Cargo!Noted
<1>7. \A p \in People : Cargo!SoundRequest(desk[p])'
  BY DEF Cargo!CommitSweep, Cargo!ShipInv, Cargo!SoundRequest, Cargo!DeskRow, Cargo!Noted
<1>8. Cargo!LoadedIsOpen'
  <2>1. ASSUME NEW q \in Replicas, NEW s \in DOMAIN sweep'[q] . copy PROVE ship'[s].open
    <3>1. sweep'[q] = sweep[q]
      BY <1>5, <2>1 DEF Cargo!Asleep
    <3>2. s \in Ships
      BY <2>1, <3>1 DEF Cargo!ShipInv, Cargo!SoundSweep, Cargo!SweepOf
    <3> QED BY <1>3, <2>1, <3>1, <3>2 DEF Cargo!ShipInv, Cargo!LoadedIsOpen
  <2>2. ASSUME NEW p \in People, desk[p].pc # "idle" PROVE ship'[desk[p].ship].open
    BY <1>3, <2>2 DEF Cargo!ShipInv, Cargo!SoundRequest, Cargo!LoadedIsOpen
  <2> QED BY <2>1, <2>2 DEF Cargo!LoadedIsOpen, Cargo!CommitSweep
<1> QED BY <1>2, <1>4, <1>5, <1>6, <1>7, <1>8 DEF Cargo!ShipInv, Cargo!CommitSweep,
        Cargo!SoundShip, Cargo!ShipRow, Cargo!NoShip

LEMMA CreateKeeps ==
    ASSUME Cargo!ShipConstants, Cargo!ShipInv, NEW s \in Ships, Cargo!Create(s)
    PROVE  Cargo!ShipInv' /\ ship'[s].failures = 0 /\ \A o \in Ships : o # s => ship'[o] = ship[o]
<1> DEFINE blank == [Cargo!NoShip EXCEPT !.open = TRUE, !.since = day]
<1>1. PICK eta \in {0} \cup {said.eta : said \in Readings} :
        ship' = [ship EXCEPT ![s] =
            IF eta = 0 THEN blank
            ELSE Cargo!Updated(blank, [status |-> Cargo!Unsaid, milestone |-> Cargo!Unsaid, eta |-> eta])]
  BY DEF Cargo!Create
<1>2. blank \in Cargo!ShipRow /\ blank.open /\ blank.failures = 0
  <2>1. day \in 0..MaxDay /\ Cargo!NoShip \in Cargo!ShipRow
    BY BlankRow DEF Cargo!ShipInv
  <2>2. Cargo!NoShip.failures = 0
    BY DEF Cargo!NoShip
  <2> QED BY <2>1, <2>2 DEF Cargo!ShipRow
<1>3. [status |-> Cargo!Unsaid, milestone |-> Cargo!Unsaid, eta |-> eta]
        \in [status : Cargo!Statuses \cup {Cargo!Unsaid},
             milestone : Cargo!Milestones \cup {Cargo!Unsaid}, eta : Nat]
  BY DEF Cargo!ShipConstants
<1> HIDE DEF blank
<1>4. PICK row : row \in Cargo!ShipRow /\ row.open /\ row.failures = 0 /\ ship' = [ship EXCEPT ![s] = row]
  <2>1. CASE eta = 0
    BY <1>1, <1>2, <2>1
  <2>2. CASE eta # 0
    BY <1>1, <1>2, <1>3, <2>2, ReadingIsARow DEF Cargo!ShipInv, Cargo!Noted
  <2> QED BY <2>1, <2>2
<1>5. /\ DOMAIN ship' = Ships /\ \A o \in Ships : o # s => ship'[o] = ship[o]
      /\ ship'[s] = row
  BY <1>4 DEF Cargo!ShipInv
<1>6. \A o \in Ships : Cargo!SoundShip(ship[o])'
  <2> TAKE o \in Ships
  <2>1. Cargo!SoundShip(ship'[o])
    BY <1>4, <1>5 DEF Cargo!ShipInv, Cargo!SoundShip
  <2> QED BY <2>1 DEF Cargo!SoundShip, Cargo!ShipRow, Cargo!NoShip
<1>7. \A q \in Replicas : Cargo!SoundSweep(sweep[q])'
  BY DEF Cargo!Create, Cargo!ShipInv, Cargo!SoundSweep, Cargo!SweepOf, Cargo!Noted
<1>8. \A p \in People : Cargo!SoundRequest(desk[p])'
  BY DEF Cargo!Create, Cargo!ShipInv, Cargo!SoundRequest, Cargo!DeskRow, Cargo!Noted
<1>9. \A o \in Ships : ship[o].open => ship'[o].open
  BY <1>4, <1>5
<1>10. Cargo!LoadedIsOpen'
  <2>1. \A q \in Replicas : DOMAIN sweep[q].copy \subseteq Ships
    BY DEF Cargo!ShipInv, Cargo!SoundSweep, Cargo!SweepOf
  <2> QED BY <1>9, <2>1 DEF Cargo!Create, Cargo!LoadedIsOpen, Cargo!ShipInv, Cargo!SoundRequest
<1>11. changes' \in 0..MaxChanges
  BY DEF Cargo!Create, Cargo!Worked, Cargo!ShipInv, Cargo!ShipConstants
<1> QED BY <1>4, <1>5, <1>6, <1>7, <1>8, <1>10, <1>11 DEF Cargo!ShipInv, Cargo!Create

LEMMA LoadKeeps ==
    ASSUME Cargo!ShipConstants, Cargo!ShipInv, NEW p \in People, NEW s \in Ships, Cargo!Load(p, s)
    PROVE  Cargo!ShipInv'
<1> DEFINE d == [Cargo!Idle EXCEPT !.pc = "loaded", !.ship = s, !.copy = ship[s]]
<1>1. d.pc = "loaded" /\ d.ship = s /\ ship[d.ship].open
  BY DEF Cargo!Load, Cargo!Idle
<1>2. d \in Cargo!DeskRow
  BY BlankRow DEF Cargo!Idle, Cargo!DeskRow, Cargo!ShipInv, Cargo!SoundShip, Cargo!Unsaid
<1>3. Cargo!SoundRequest(d) /\ Cargo!Become(p, d)
  <2>1. Cargo!Become(p, d)
    BY Zenon DEF Cargo!Load
  <2>2. d.bill = Cargo!Unsaid
    BY DEF Cargo!Idle, Cargo!Unsaid
  <2> HIDE DEF d
  <2> QED BY <1>1, <1>2, <2>1, <2>2 DEF Cargo!SoundRequest
<1>4. changes' \in 0..MaxChanges
  BY DEF Cargo!Load, Cargo!Worked, Cargo!ShipInv, Cargo!ShipConstants
<1> HIDE DEF d
<1> QED BY <1>1, <1>3, <1>4, OneRequestMoves DEF Cargo!Load

\* What a request notes: one of two kinds of reading.
LEMMA NoteIsSound ==
    ASSUME Cargo!ShipConstants, Cargo!ShipInv, NEW p \in People, desk[p].pc = "loaded",
           NEW row \in {Cargo!Updated(desk[p].copy,
            said) : said \in Readings} \cup {Cargo!Refused(desk[p].copy)},
           NEW b \in Kinds \cup {Cargo!Unsaid}, NEW v \in BOOLEAN, NEW d,
           d = [desk[p] EXCEPT !.pc = "written", !.new = row, !.bill = b, !.verdict = v]
    PROVE  Cargo!SoundRequest(d) /\ ship[d.ship].open
<1>1. desk[p] \in Cargo!DeskRow /\ desk[p].copy \in Cargo!ShipRow
  BY DEF Cargo!ShipInv, Cargo!SoundRequest, Cargo!DeskRow
<1>2. row \in Cargo!ShipRow /\ Cargo!Noted(desk[p].copy, row)
  <2>1. CASE row = Cargo!Refused(desk[p].copy)
    BY <1>1, <2>1, RefusalIsARow
  <2>2. CASE \E said \in Readings : row = Cargo!Updated(desk[p].copy, said)
    <3>1. PICK said \in Readings : row = Cargo!Updated(desk[p].copy, said)
      BY <2>2
    <3>2. said \in [status : Cargo!Statuses \cup {Cargo!Unsaid},
                    milestone : Cargo!Milestones \cup {Cargo!Unsaid}, eta : Nat]
      BY DEF Cargo!ShipConstants
    <3>3. day \in 1..MaxDay
      BY DEF Cargo!ShipInv
    <3> QED BY <1>1, <3>1, <3>2, <3>3, ReadingIsARow
  <2> QED BY <2>1, <2>2
<1>3. /\ d \in Cargo!DeskRow /\ d.pc = "written" /\ d.new = row /\ d.copy = desk[p].copy
      /\ d.ship = desk[p].ship
  BY <1>1, <1>2 DEF Cargo!DeskRow
<1>4. d.ship \in Ships /\ ship[d.ship].open
  BY <1>3 DEF Cargo!ShipInv, Cargo!SoundRequest, Cargo!LoadedIsOpen
<1>5. Cargo!SoundRequest(d)
  BY <1>2, <1>3, <1>4 DEF Cargo!SoundRequest
<1> QED BY <1>4, <1>5

LEMMA WriteKeeps ==
    ASSUME Cargo!ShipConstants, Cargo!ShipInv, NEW p \in People, Cargo!Write(p)
    PROVE  Cargo!ShipInv'
<1> DEFINE held == {Cargo!Updated(desk[p].copy, said) : said \in Readings}
<1>1. PICK row \in held \cup {Cargo!Refused(desk[p].copy)} :
        Cargo!Become(p, [desk[p] EXCEPT !.pc = "written", !.new = row])
  <2>1. PICK row \in held \cup (IF desk[p].ship \in Tracked THEN {Cargo!Refused(desk[p].copy)} ELSE {}) :
        Cargo!Become(p, [desk[p] EXCEPT !.pc = "written", !.new = row])
    BY Zenon DEF Cargo!Write
  <2>2. row \in held \cup {Cargo!Refused(desk[p].copy)}
    BY <2>1
  <2> QED BY <2>1, <2>2, Zenon
<1> DEFINE d == [desk[p] EXCEPT !.pc = "written", !.new = row, !.bill = desk[p].bill,
                 !.verdict = desk[p].verdict]
<1>2. desk[p] \in Cargo!DeskRow
  BY DEF Cargo!ShipInv, Cargo!SoundRequest
<1>3. d = [desk[p] EXCEPT !.pc = "written", !.new = row]
  BY <1>2 DEF Cargo!DeskRow
<1>4. desk[p].bill \in Kinds \cup {Cargo!Unsaid} /\ desk[p].verdict \in BOOLEAN
  BY <1>2 DEF Cargo!DeskRow
<1>5. Cargo!SoundRequest(d) /\ ship[d.ship].open
  <2>1. desk[p].pc = "loaded" /\ row \in held \cup {Cargo!Refused(desk[p].copy)}
    BY <1>1, Zenon DEF Cargo!Write
  <2>2. d = [desk[p] EXCEPT !.pc = "written", !.new = row, !.bill = desk[p].bill,
             !.verdict = desk[p].verdict]
    OBVIOUS
  <2> HIDE DEF d
  <2> QED BY <1>4, <2>1, <2>2, NoteIsSound, Zenon
<1>6. Cargo!Become(p, d)
  BY <1>1, <1>3, Zenon
<1> HIDE DEF d
<1> QED BY <1>5, <1>6, OneRequestMoves DEF Cargo!Write, Cargo!ShipInv

LEMMA WriteBillKeeps ==
    ASSUME Cargo!ShipConstants, Cargo!ShipInv, NEW p \in People, NEW kind \in Kinds,
           Cargo!WriteBill(p, kind)
    PROVE  Cargo!ShipInv'
<1> DEFINE v == Cargo!FinalBillHeld(TradeOf[desk[p].ship], [bill EXCEPT ![desk[p].ship] = kind])
<1>1. desk[p].pc = "loaded"
      /\ \E row \in {Cargo!Updated(desk[p].copy, said) : said \in Readings} :
            Cargo!Become(p, [desk[p] EXCEPT !.pc = "written", !.new = row, !.bill = kind,
                             !.verdict = v])
  BY Zenon DEF Cargo!WriteBill
<1>2. v \in BOOLEAN
  BY DEF Cargo!FinalBillHeld
<1> HIDE DEF v
<1>5. PICK row \in {Cargo!Updated(desk[p].copy, said) : said \in Readings} :
        Cargo!Become(p, [desk[p] EXCEPT !.pc = "written", !.new = row, !.bill = kind, !.verdict = v])
  BY <1>1, Zenon
<1> DEFINE d == [desk[p] EXCEPT !.pc = "written", !.new = row, !.bill = kind, !.verdict = v]
<1>3. Cargo!SoundRequest(d) /\ ship[d.ship].open
  <2>1. /\ desk[p].pc = "loaded" /\ kind \in Kinds \cup {Cargo!Unsaid}
        /\ row \in {Cargo!Updated(desk[p].copy, said) : said \in Readings} \cup {Cargo!Refused(desk[p].copy)}
    BY <1>1, <1>5, Zenon
  <2>2. d = [desk[p] EXCEPT !.pc = "written", !.new = row, !.bill = kind, !.verdict = v]
    OBVIOUS
  <2> HIDE DEF d
  <2> QED BY <1>2, <2>1, <2>2, NoteIsSound, Zenon
<1>4. Cargo!Become(p, d)
  BY <1>5, Zenon
<1> HIDE DEF d
<1> QED BY <1>3, <1>4, OneRequestMoves DEF Cargo!WriteBill, Cargo!ShipInv

\* What a request's commit makes of the shipment it is about, and of the others.
LEMMA CommitDeskWrites ==
    ASSUME Cargo!ShipConstants, Cargo!ShipInv, NEW p \in People, Cargo!CommitDesk(p)
    PROVE  /\ desk[p].ship \in Ships
           /\ ship[desk[p].ship] \in Cargo!ShipRow /\ desk[p].copy \in Cargo!ShipRow /\ desk[p].new \in Cargo!ShipRow
           /\ Cargo!Noted(desk[p].copy, desk[p].new)
           /\ DOMAIN ship' = Ships
           /\ \A s \in Ships : ship'[s] = IF s = desk[p].ship
                                        THEN Cargo!Written(ship[s], desk[p].copy, desk[p].new) ELSE ship[s]
BY DEF Cargo!CommitDesk, Cargo!ShipInv, Cargo!SoundRequest, Cargo!DeskRow, Cargo!SoundShip

LEMMA CommitDeskKeeps ==
    ASSUME Cargo!ShipConstants, Cargo!ShipInv, NEW p \in People, Cargo!CommitDesk(p)
    PROVE  Cargo!ShipInv'
<1> DEFINE of == desk[p].ship
<1>1. \A s \in Ships : ship[s] \in Cargo!ShipRow
  BY DEF Cargo!ShipInv, Cargo!SoundShip
<1>2. Cargo!Written(ship[of], desk[p].copy, desk[p].new) \in Cargo!ShipRow
      /\ Cargo!Written(ship[of], desk[p].copy, desk[p].new).open = ship[of].open
  BY CommitDeskWrites, WrittenIsARow DEF Cargo!Noted
<1>3. \A s \in Ships : ship'[s] \in Cargo!ShipRow /\ ship'[s].open = ship[s].open
  BY <1>1, <1>2, CommitDeskWrites
<1>4. ship[of].open
  BY DEF Cargo!CommitDesk, Cargo!ShipInv, Cargo!LoadedIsOpen
<1>5. \A s \in Ships : Cargo!SoundShip(ship[s])'
  <2> TAKE s \in Ships
  <2>1. Cargo!SoundShip(ship'[s])
    BY <1>3, <1>4, CommitDeskWrites DEF Cargo!SoundShip, Cargo!ShipInv
  <2> QED BY <2>1 DEF Cargo!SoundShip, Cargo!ShipRow, Cargo!NoShip
<1>6. \A q \in Replicas : Cargo!SoundSweep(sweep[q])'
  BY DEF Cargo!CommitDesk, Cargo!ShipInv, Cargo!SoundSweep, Cargo!SweepOf, Cargo!Noted
<1>7. DOMAIN desk' = People /\ \A q \in People : desk'[q] = Cargo!Idle \/ desk'[q] = desk[q]
  BY DEF Cargo!CommitDesk, Cargo!Become, Cargo!ShipInv
<1>8. \A q \in People : Cargo!SoundRequest(desk[q])'
  <2> TAKE q \in People
  <2>1. Cargo!SoundRequest(desk'[q])
    BY <1>7, IdleIsSound DEF Cargo!ShipInv
  <2> QED BY <2>1 DEF Cargo!SoundRequest, Cargo!DeskRow, Cargo!Noted
<1>9. Cargo!LoadedIsOpen'
  <2>1. ASSUME NEW q \in Replicas, NEW s \in DOMAIN sweep[q].copy PROVE ship'[s].open
    <3>1. s \in Ships
      BY <2>1 DEF Cargo!ShipInv, Cargo!SoundSweep, Cargo!SweepOf
    <3> QED BY <1>3, <2>1, <3>1 DEF Cargo!ShipInv, Cargo!LoadedIsOpen
  <2>2. ASSUME NEW q \in People, desk'[q].pc # "idle" PROVE ship'[desk'[q].ship].open
    <3>1. desk'[q] = desk[q]
      BY <1>7, <2>2 DEF Cargo!Idle
    <3> QED BY <1>3, <2>2, <3>1 DEF Cargo!ShipInv, Cargo!SoundRequest, Cargo!LoadedIsOpen
  <2> QED BY <2>1, <2>2 DEF Cargo!LoadedIsOpen, Cargo!CommitDesk
<1>10. bill' \in [Ships -> {"none"} \cup Kinds] /\ verdict' \in [Trades -> BOOLEAN]
  <2>1. desk[p] \in Cargo!DeskRow
    BY DEF Cargo!ShipInv, Cargo!SoundRequest
  <2> QED BY <2>1 DEF Cargo!CommitDesk, Cargo!ShipInv, Cargo!DeskRow, Cargo!Unsaid
<1> QED BY <1>5, <1>6, <1>7, <1>8, <1>9, <1>10, CommitDeskWrites DEF Cargo!ShipInv, Cargo!CommitDesk

LEMMA CloseCaseKeeps ==
    ASSUME Cargo!ShipConstants, Cargo!ShipInv, NEW t \in Trades, Cargo!CloseCase(t)
    PROVE  Cargo!ShipInv'
<1>1. changes' \in 0..MaxChanges /\ cases' \in [Trades -> Nat]
  BY DEF Cargo!CloseCase, Cargo!Worked, Cargo!ShipInv, Cargo!ShipConstants
<1>2. \A r \in Replicas : Cargo!SoundSweep(sweep[r])'
  BY DEF Cargo!CloseCase, Cargo!ShipInv, Cargo!SoundSweep, Cargo!SweepOf, Cargo!Noted
<1>3. \A p \in People : Cargo!SoundRequest(desk[p])'
  BY DEF Cargo!CloseCase, Cargo!ShipInv, Cargo!SoundRequest, Cargo!DeskRow, Cargo!Noted
<1>4. Cargo!LoadedIsOpen'
  BY DEF Cargo!CloseCase, Cargo!ShipInv, Cargo!LoadedIsOpen
<1> QED BY <1>1, <1>2, <1>3, <1>4 DEF Cargo!ShipInv, Cargo!CloseCase, Cargo!SoundShip,
        Cargo!ShipRow, Cargo!NoShip

LEMMA DayKeeps ==
    ASSUME Cargo!ShipConstants, Cargo!ShipInv, Cargo!DayPasses
    PROVE  Cargo!ShipInv'
<1>1. day' \in 1..MaxDay
  BY DEF Cargo!DayPasses, Cargo!ShipInv, Cargo!ShipConstants
<1>2. \A r \in Replicas : Cargo!SoundSweep(sweep[r])'
  BY DEF Cargo!DayPasses, Cargo!ShipInv, Cargo!SoundSweep, Cargo!SweepOf, Cargo!Noted
<1>3. \A p \in People : Cargo!SoundRequest(desk[p])'
  BY DEF Cargo!DayPasses, Cargo!ShipInv, Cargo!SoundRequest, Cargo!DeskRow, Cargo!Noted
<1>4. Cargo!LoadedIsOpen'
  BY DEF Cargo!DayPasses, Cargo!ShipInv, Cargo!LoadedIsOpen
<1> QED BY <1>1, <1>2, <1>3, <1>4 DEF Cargo!ShipInv, Cargo!DayPasses, Cargo!SoundShip,
        Cargo!ShipRow, Cargo!NoShip

LEMMA StandingStillKeeps ==
    ASSUME Cargo!ShipInv, UNCHANGED Cargo!vars
    PROVE  Cargo!ShipInv'
<1>1. \A r \in Replicas : Cargo!SoundSweep(sweep[r])'
  BY DEF Cargo!vars, Cargo!ShipInv, Cargo!SoundSweep, Cargo!SweepOf, Cargo!Noted
<1>2. \A p \in People : Cargo!SoundRequest(desk[p])'
  BY DEF Cargo!vars, Cargo!ShipInv, Cargo!SoundRequest, Cargo!DeskRow, Cargo!Noted
<1>3. Cargo!LoadedIsOpen'
  BY DEF Cargo!vars, Cargo!ShipInv, Cargo!LoadedIsOpen
<1> QED BY <1>1, <1>2, <1>3 DEF Cargo!ShipInv, Cargo!vars, Cargo!SoundShip, Cargo!ShipRow, Cargo!NoShip

LEMMA ShipStep ==
    ASSUME Cargo!ShipConstants, Cargo!ShipInv, [Cargo!Next]_(Cargo!vars)
    PROVE  Cargo!ShipInv'
<1>1. ASSUME NEW r \in Replicas, Cargo!Sweep(r) PROVE Cargo!ShipInv'
  BY <1>1, BeginSweepKeeps, CommitSweepKeeps, PassKeeps, AskKeeps DEF Cargo!Sweep
<1>2. ASSUME NEW r \in Replicas, Cargo!AbandonSweep(r) PROVE Cargo!ShipInv'
  BY <1>2, AbandonKeeps
<1>3. ASSUME NEW p \in People, Cargo!Serve(p) PROVE Cargo!ShipInv'
  BY <1>3, WriteKeeps, CommitDeskKeeps, WriteBillKeeps DEF Cargo!Serve
<1>4. ASSUME NEW p \in People, NEW s \in Ships, Cargo!Load(p, s) PROVE Cargo!ShipInv'
  BY <1>4, LoadKeeps
<1>5. ASSUME NEW s \in Ships, Cargo!Create(s) PROVE Cargo!ShipInv'
  BY <1>5, CreateKeeps
<1>6. ASSUME NEW t \in Trades, Cargo!CloseCase(t) PROVE Cargo!ShipInv'
  BY <1>6, CloseCaseKeeps
<1>7. CASE Cargo!DayPasses
  BY <1>7, DayKeeps
<1>8. CASE UNCHANGED Cargo!vars
  BY <1>8, StandingStillKeeps
<1> QED BY <1>1, <1>2, <1>3, <1>4, <1>5, <1>6, <1>7, <1>8 DEF Cargo!Next

LEMMA ShipInitially ==
    ASSUME Cargo!ShipConstants, Cargo!Init
    PROVE  Cargo!ShipInv
<1>1. \A s \in Ships : Cargo!SoundShip(ship[s])
  BY BlankRow DEF Cargo!Init, Cargo!SoundShip
<1>2. \A r \in Replicas : Cargo!SoundSweep(sweep[r]) /\ DOMAIN sweep[r].copy = {}
  <2>1. DOMAIN Cargo!Asleep.copy = {}
    BY BlankRow DEF Cargo!SweepOf
  <2> QED BY <2>1, SleepIsSound DEF Cargo!Init
<1>3. \A p \in People : Cargo!SoundRequest(desk[p]) /\ desk[p].pc = "idle"
  <2>1. Cargo!Idle.pc = "idle"
    BY DEF Cargo!Idle
  <2> QED BY <2>1, IdleIsSound DEF Cargo!Init
<1>4. Cargo!LoadedIsOpen
  BY <1>2, <1>3 DEF Cargo!LoadedIsOpen
<1>5. /\ DOMAIN ship = Ships /\ bill \in [Ships -> {"none"} \cup Kinds]
      /\ verdict \in [Trades -> BOOLEAN] /\ cases \in [Trades -> Nat]
      /\ DOMAIN sweep = Replicas /\ DOMAIN desk = People
      /\ day \in 1..MaxDay /\ changes \in 0..MaxChanges /\ faults \in 0..MaxFaults
  BY DEF Cargo!Init, Cargo!ShipConstants
<1> QED BY <1>1, <1>2, <1>3, <1>4, <1>5 DEF Cargo!ShipInv

\* The rows, the copies and what is in hand are what the columns allow, and what
\* a sweep or a request has loaded is open.
THEOREM ShipsAreSound == ASSUME Cargo!ShipConstants PROVE Cargo!Spec => []Cargo!ShipInv
<1>1. Cargo!Init => Cargo!ShipInv
  BY ShipInitially
<1>2. Cargo!ShipInv /\ [Cargo!Next]_(Cargo!vars) => Cargo!ShipInv'
  BY ShipStep
<1> QED BY <1>1, <1>2, PTL DEF Cargo!Spec

\* TypeOK of Shipments, from the same invariant.
THEOREM ShipTypes == ASSUME Cargo!ShipConstants PROVE Cargo!Spec => []Cargo!TypeOK
<1>1. ASSUME Cargo!ShipInv PROVE Cargo!TypeOK
  <2>1. \A r \in Replicas : sweep[r].pc \in {"asleep", "awake"} /\ sweep[r].left \subseteq Ships
    BY <1>1 DEF Cargo!ShipInv, Cargo!SoundSweep, Cargo!SweepOf
  <2>2. \A p \in People : desk[p].pc \in {"idle", "loaded", "written"}
    BY <1>1 DEF Cargo!ShipInv, Cargo!SoundRequest, Cargo!DeskRow
  <2>3. \A s \in Ships : ship[s] \in Cargo!ShipRow
    BY <1>1 DEF Cargo!ShipInv, Cargo!SoundShip
  <2>4. \A s \in Ships :
        /\ ship[s].open \in BOOLEAN /\ ship[s].flagged \in BOOLEAN
        /\ ship[s].status \in Cargo!Statuses /\ ship[s].milestone \in Cargo!Milestones
        /\ ship[s].since \in 0..MaxDay /\ ship[s].checked \in 0..MaxDay
        /\ ship[s].failures \in 0..FailureLimit + 1
    BY <2>3 DEF Cargo!ShipRow
  <2> QED BY <1>1, <2>1, <2>2, <2>4 DEF Cargo!TypeOK, Cargo!ShipInv
<1> QED BY <1>1, ShipsAreSound, PTL

-----------------------------------------------------------------------------
\* One sweep: what it is about to open has no case.
LEMMA ReminderStep ==
    ASSUME Cargo!ShipConstants, Cargo!OneSweep, Cargo!ShipInv, Cargo!OpensWhatIsMissing,
           Cargo!OneReminder, [Cargo!Next]_(Cargo!vars)
    PROVE  Cargo!OpensWhatIsMissing' /\ Cargo!OneReminder'
<1> USE DEF Cargo!OpensWhatIsMissing, Cargo!OneReminder
<1>1. ASSUME NEW r \in Replicas, NEW w, sweep' = [sweep EXCEPT ![r] = w], UNCHANGED cases,
             \A t \in w.opened : cases[t] = 0
      PROVE  Cargo!OpensWhatIsMissing' /\ Cargo!OneReminder'
  <2>1. \A q \in Replicas : sweep'[q] = w
    BY <1>1 DEF Cargo!OneSweep, Cargo!ShipInv
  <2> QED BY <1>1, <2>1
<1>2. ASSUME UNCHANGED sweep, UNCHANGED cases PROVE Cargo!OpensWhatIsMissing' /\ Cargo!OneReminder'
  BY <1>2
<1>3. ASSUME NEW r \in Replicas, Cargo!BeginSweep(r)
      PROVE  Cargo!OpensWhatIsMissing' /\ Cargo!OneReminder'
  <2>1. PICK chosen \in SUBSET Ships :
        sweep' = [sweep EXCEPT ![r] =
            [Cargo!Asleep EXCEPT !.pc = "awake", !.left = {s \in chosen : Cargo!IsActive(ship[s])},
                           !.copy = [s \in chosen |-> ship[s]]]]
    BY <1>3, Zenon DEF Cargo!BeginSweep
  <2> DEFINE left == {s \in chosen : Cargo!IsActive(ship[s])}
             copies == [s \in chosen |-> ship[s]]
             w == [Cargo!Asleep EXCEPT !.pc = "awake", !.left = left, !.copy = copies]
  <2>2. w.opened = {}
    <3> HIDE DEF left, copies
    <3> QED BY DEF Cargo!Asleep
  <2>3. sweep' = [sweep EXCEPT ![r] = w] /\ UNCHANGED cases
    BY <1>3, <2>1 DEF Cargo!BeginSweep
  <2> HIDE DEF w
  <2> QED BY <1>1, <2>2, <2>3
<1>4. ASSUME NEW r \in Replicas, NEW s \in Ships, Cargo!Pass(r, s)
      PROVE  Cargo!OpensWhatIsMissing' /\ Cargo!OneReminder'
  <2> DEFINE w == [sweep[r] EXCEPT !.left = @ \ {s}, !.opened = Cargo!Reported(r, s, sweep[r].copy[s])]
  <2>1. sweep' = [sweep EXCEPT ![r] = w] /\ UNCHANGED cases
    BY <1>4 DEF Cargo!Pass
  <2>2. w.opened = Cargo!Reported(r, s, sweep[r].copy[s])
    BY DEF Cargo!ShipInv, Cargo!SoundSweep, Cargo!SweepOf
  <2>3. \A t \in w.opened : cases[t] = 0
    BY <2>2 DEF Cargo!Reported
  <2> HIDE DEF w
  <2> QED BY <1>1, <2>1, <2>3
<1>5. ASSUME NEW r \in Replicas, NEW s \in Ships, Cargo!Ask(r, s)
      PROVE  Cargo!OpensWhatIsMissing' /\ Cargo!OneReminder'
  <2> DEFINE New(row) == [o \in DOMAIN sweep[r].new \cup {s} |-> IF o = s THEN row ELSE sweep[r].new[o]]
             w(row) == [sweep[r] EXCEPT !.left = @ \ {s}, !.opened = Cargo!Reported(r, s, row),
                        !.new = New(row)]
  <2>1. PICK row : sweep' = [sweep EXCEPT
            ![r].left = @ \ {s}, ![r].opened = Cargo!Reported(r, s, row),
            ![r].new = [o \in DOMAIN @ \cup {s} |-> IF o = s THEN row ELSE @[o]]]
    BY <1>5, Zenon DEF Cargo!Ask
  <2>2. sweep' = [sweep EXCEPT ![r] = w(row)] /\ UNCHANGED cases
    BY <1>5, <2>1 DEF Cargo!Ask
  <2>3. w(row).opened = Cargo!Reported(r, s, row)
    <3> HIDE DEF New
    <3> QED BY DEF Cargo!ShipInv, Cargo!SoundSweep, Cargo!SweepOf
  <2>4. \A t \in w(row).opened : cases[t] = 0
    BY <2>3 DEF Cargo!Reported
  <2> HIDE DEF w
  <2> QED BY <1>1, <2>2, <2>4
<1>6. ASSUME NEW r \in Replicas, Cargo!CommitSweep(r)
      PROVE  Cargo!OpensWhatIsMissing' /\ Cargo!OneReminder'
  <2>1. \A q \in Replicas : sweep'[q].opened = {}
    BY <1>6 DEF Cargo!CommitSweep, Cargo!ShipInv, Cargo!OneSweep, Cargo!Asleep
  <2>2. \A t \in Trades : cases[t] \in Nat
    BY DEF Cargo!ShipInv
  <2>3. \A t \in Trades : cases'[t] = IF t \in sweep[r].opened THEN cases[t] + 1 ELSE cases[t]
    BY <1>6 DEF Cargo!CommitSweep
  <2> QED BY <2>1, <2>2, <2>3
<1>7. ASSUME NEW r \in Replicas, Cargo!AbandonSweep(r)
      PROVE  Cargo!OpensWhatIsMissing' /\ Cargo!OneReminder'
  <2>1. Cargo!Asleep.opened = {}
    BY DEF Cargo!Asleep
  <2> QED BY <1>1, <1>7, <2>1 DEF Cargo!AbandonSweep
<1>8. ASSUME NEW t \in Trades, Cargo!CloseCase(t) PROVE Cargo!OpensWhatIsMissing' /\ Cargo!OneReminder'
  <2>1. \A u \in Trades : cases'[u] = IF u = t THEN 0 ELSE cases[u]
    BY <1>8 DEF Cargo!CloseCase, Cargo!ShipInv
  <2>2. \A r \in Replicas : sweep[r].opened \subseteq Trades
    BY DEF Cargo!ShipInv, Cargo!SoundSweep, Cargo!SweepOf
  <2> QED BY <1>8, <2>1, <2>2 DEF Cargo!CloseCase, Cargo!ShipInv
<1>9. ASSUME NEW p \in People, Cargo!Serve(p) PROVE Cargo!OpensWhatIsMissing' /\ Cargo!OneReminder'
  <2>1. UNCHANGED <<sweep, cases>>
    <3>1. CASE Cargo!Write(p)
      BY <3>1 DEF Cargo!Write
    <3>2. CASE Cargo!CommitDesk(p)
      BY <3>2 DEF Cargo!CommitDesk
    <3>3. CASE \E kind \in Kinds : Cargo!WriteBill(p, kind)
      BY <3>3 DEF Cargo!WriteBill
    <3> QED BY <1>9, <3>1, <3>2, <3>3 DEF Cargo!Serve
  <2> QED BY <1>2, <2>1
<1>10. ASSUME NEW p \in People, NEW s \in Ships, Cargo!Load(p, s)
       PROVE  Cargo!OpensWhatIsMissing' /\ Cargo!OneReminder'
  BY <1>2, <1>10 DEF Cargo!Load
<1>11. ASSUME NEW s \in Ships, Cargo!Create(s) PROVE Cargo!OpensWhatIsMissing' /\ Cargo!OneReminder'
  BY <1>2, <1>11 DEF Cargo!Create
<1>12. CASE Cargo!DayPasses \/ UNCHANGED Cargo!vars
  BY <1>2, <1>12 DEF Cargo!DayPasses, Cargo!vars
<1> QED BY <1>3, <1>4, <1>5, <1>6, <1>7, <1>8, <1>9, <1>10, <1>11, <1>12 DEF Cargo!Next, Cargo!Sweep

\* With one replica a trade whose cargo is silent has one reminder at most,
\* however many of its shipments are.
THEOREM OneReminderStays ==
    ASSUME Cargo!ShipConstants, Cargo!OneSweep
    PROVE  Cargo!Spec => []Cargo!OneReminder
<1>1. Cargo!Init => Cargo!OpensWhatIsMissing /\ Cargo!OneReminder
  <2>1. Cargo!Asleep.opened = {}
    BY DEF Cargo!Asleep
  <2> QED BY <2>1 DEF Cargo!Init, Cargo!OpensWhatIsMissing, Cargo!OneReminder
<1>2. Cargo!ShipInv /\ Cargo!OpensWhatIsMissing /\ Cargo!OneReminder /\ [Cargo!Next]_(Cargo!vars) =>
              Cargo!OpensWhatIsMissing' /\ Cargo!OneReminder'
  BY ReminderStep
<1> QED BY <1>1, <1>2, ShipsAreSound, PTL DEF Cargo!Spec

-----------------------------------------------------------------------------
\* One person: bills and verdicts.
LEMMA VerdictStep ==
    ASSUME Cargo!ShipConstants, Cargo!OneDesk, Cargo!ShipInv, Cargo!VerdictInHand,
           Cargo!VerdictKnowsTheBill, [Cargo!Next]_(Cargo!vars)
    PROVE  Cargo!VerdictInHand' /\ Cargo!VerdictKnowsTheBill'
<1>0. ASSUME UNCHANGED <<bill, verdict>> PROVE Cargo!VerdictKnowsTheBill'
  <2>1. bill' = bill /\ verdict' = verdict
    BY <1>0
  <2> QED BY <2>1, Zenon DEF Cargo!VerdictKnowsTheBill, Cargo!FinalBillHeld
<1>1. ASSUME UNCHANGED <<desk, bill, verdict>> PROVE Cargo!VerdictInHand' /\ Cargo!VerdictKnowsTheBill'
  <2>1. desk' = desk /\ bill' = bill
    BY <1>1
  <2>2. Cargo!VerdictInHand'
    BY <2>1, Zenon DEF Cargo!VerdictInHand, Cargo!FinalBillHeld
  <2> QED BY <1>0, <1>1, <2>2
<1>2. ASSUME NEW p \in People, NEW d, Cargo!Become(p, d), UNCHANGED <<bill, verdict>>,
             d.pc # "written" \/ d.bill = Cargo!Unsaid
      PROVE  Cargo!VerdictInHand' /\ Cargo!VerdictKnowsTheBill'
  <2>1. \A q \in People : desk'[q] = d
    BY <1>2 DEF Cargo!OneDesk, Cargo!ShipInv, Cargo!Become
  <2>2. Cargo!VerdictInHand'
    BY <1>2, <2>1 DEF Cargo!VerdictInHand
  <2> QED BY <1>0, <1>2, <2>2
<1>3. ASSUME NEW p \in People, NEW s \in Ships, Cargo!Load(p, s)
      PROVE  Cargo!VerdictInHand' /\ Cargo!VerdictKnowsTheBill'
  <2> DEFINE d == [Cargo!Idle EXCEPT !.pc = "loaded", !.ship = s, !.copy = ship[s]]
  <2>1. d.pc = "loaded"
    BY DEF Cargo!Idle
  <2>2. Cargo!Become(p, d) /\ UNCHANGED <<bill, verdict>>
    BY <1>3 DEF Cargo!Load
  <2> HIDE DEF d
  <2> QED BY <1>2, <2>1, <2>2
<1>4. ASSUME NEW p \in People, Cargo!Write(p) PROVE Cargo!VerdictInHand' /\ Cargo!VerdictKnowsTheBill'
  <2>1. PICK row : Cargo!Become(p, [desk[p] EXCEPT !.pc = "written", !.new = row])
    BY <1>4, Zenon DEF Cargo!Write
  <2>2. [desk[p] EXCEPT !.pc = "written", !.new = row].bill = Cargo!Unsaid
    BY <1>4 DEF Cargo!Write, Cargo!ShipInv, Cargo!SoundRequest, Cargo!DeskRow
  <2>3. UNCHANGED <<bill, verdict>>
    BY <1>4 DEF Cargo!Write
  <2> DEFINE d == [desk[p] EXCEPT !.pc = "written", !.new = row]
  <2>4. Cargo!Become(p, d) /\ d.bill = Cargo!Unsaid
    BY <2>1, <2>2, Zenon
  <2> HIDE DEF d
  <2> QED BY <1>2, <2>3, <2>4
<1>5. ASSUME NEW p \in People, NEW kind \in Kinds, Cargo!WriteBill(p, kind)
      PROVE  Cargo!VerdictInHand' /\ Cargo!VerdictKnowsTheBill'
  <2> DEFINE v == Cargo!FinalBillHeld(TradeOf[desk[p].ship], [bill EXCEPT ![desk[p].ship] = kind])
  <2>1. \E row : Cargo!Become(p, [desk[p] EXCEPT !.pc = "written", !.new = row, !.bill = kind,
                                  !.verdict = v])
    BY <1>5, Zenon DEF Cargo!WriteBill
  <2>2. UNCHANGED <<bill, verdict>>
    BY <1>5 DEF Cargo!WriteBill
  <2>3. v = Cargo!FinalBillHeld(TradeOf[desk[p].ship], [bill EXCEPT ![desk[p].ship] = kind])
    OBVIOUS
  <2> HIDE DEF v
  <2>4. PICK row : Cargo!Become(p, [desk[p] EXCEPT !.pc = "written", !.new = row, !.bill = kind,
                                    !.verdict = v])
    BY <2>1, Zenon
  <2> DEFINE d == [desk[p] EXCEPT !.pc = "written", !.new = row, !.bill = kind, !.verdict = v]
  <2>5. d.bill = kind /\ d.verdict = v /\ d.ship = desk[p].ship
    BY DEF Cargo!ShipInv, Cargo!SoundRequest, Cargo!DeskRow
  <2>6. Cargo!Become(p, d)
    BY <2>4, Zenon
  <2> HIDE DEF d
  <2>7. \A q \in People : desk'[q] = d
    BY <2>6 DEF Cargo!OneDesk, Cargo!ShipInv, Cargo!Become
  <2>8. d.verdict = Cargo!FinalBillHeld(TradeOf[d.ship], [bill EXCEPT ![d.ship] = d.bill])
    BY <2>3, <2>5, Zenon
  <2>9. bill' = bill
    BY <2>2
  <2>10. Cargo!VerdictInHand'
    BY <2>7, <2>8, <2>9, Zenon DEF Cargo!VerdictInHand, Cargo!FinalBillHeld
  <2> QED BY <1>0, <2>2, <2>10
<1>6. ASSUME NEW p \in People, Cargo!CommitDesk(p)
      PROVE  Cargo!VerdictInHand' /\ Cargo!VerdictKnowsTheBill'
  <2>1. \A q \in People : desk'[q].pc = "idle"
    BY <1>6 DEF Cargo!CommitDesk, Cargo!OneDesk, Cargo!ShipInv, Cargo!Become, Cargo!Idle
  <2>2. Cargo!VerdictInHand'
    BY <2>1 DEF Cargo!VerdictInHand
  <2>3. CASE desk[p].bill = Cargo!Unsaid
    BY <1>0, <1>6, <2>2, <2>3 DEF Cargo!CommitDesk, Cargo!Unsaid
  <2>4. CASE desk[p].bill # Cargo!Unsaid
    <3> DEFINE of == desk[p].ship
    <3>1. of \in Ships /\ bill' = [bill EXCEPT ![of] = desk[p].bill]
          /\ verdict' = [verdict EXCEPT ![TradeOf[of]] = desk[p].verdict]
      BY <1>6, <2>4, CommitDeskWrites DEF Cargo!CommitDesk, Cargo!Unsaid
    <3>2. desk[p].verdict = Cargo!FinalBillHeld(TradeOf[of], bill')
      <4>1. desk[p].verdict = Cargo!FinalBillHeld(TradeOf[of], [bill EXCEPT ![of] = desk[p].bill])
        BY <1>6, <2>4, Zenon DEF Cargo!CommitDesk, Cargo!VerdictInHand
      <4> QED BY <3>1, <4>1, Zenon
    <3>3. DOMAIN verdict = Trades /\ DOMAIN bill = Ships
      BY DEF Cargo!ShipInv
    <3>4. \A t \in Trades : verdict'[t] = Cargo!FinalBillHeld(t, bill')
      <4> TAKE t \in Trades
      <4>1. CASE t = TradeOf[of]
        <5>1. verdict'[t] = desk[p].verdict
          BY <3>1, <3>3, <4>1
        <5> QED BY <3>2, <4>1, <5>1, Zenon
      <4>2. CASE t # TradeOf[of]
        <5>1. verdict'[t] = verdict[t]
          BY <3>1, <3>3, <4>2
        <5>2. \A s \in Ships : TradeOf[s] = t => bill'[s] = bill[s]
          BY <3>1, <3>3, <4>2
        <5>3. verdict[t] = Cargo!FinalBillHeld(t, bill)
          BY Zenon DEF Cargo!VerdictKnowsTheBill
        <5>4. verdict[t] = (\E s \in Ships : TradeOf[s] = t /\ bill'[s] = "received")
          BY <5>2, <5>3 DEF Cargo!FinalBillHeld
        <5>5. verdict[t] = Cargo!FinalBillHeld(t, bill')
          BY <5>4, Zenon DEF Cargo!FinalBillHeld
        <5> QED BY <5>1, <5>5, Zenon
      <4> QED BY <4>1, <4>2
    <3> QED BY <2>2, <3>4 DEF Cargo!VerdictKnowsTheBill
  <2> QED BY <2>3, <2>4
<1>7. ASSUME NEW r \in Replicas, Cargo!Sweep(r) PROVE Cargo!VerdictInHand' /\ Cargo!VerdictKnowsTheBill'
  <2>1. UNCHANGED <<desk, bill, verdict>>
    <3>1. CASE Cargo!BeginSweep(r)
      BY <3>1 DEF Cargo!BeginSweep
    <3>2. CASE Cargo!CommitSweep(r)
      BY <3>2 DEF Cargo!CommitSweep
    <3>3. ASSUME NEW s \in Ships, Cargo!Pass(r, s) PROVE UNCHANGED <<desk, bill, verdict>>
      BY <3>3 DEF Cargo!Pass
    <3>4. ASSUME NEW s \in Ships, Cargo!Ask(r, s) PROVE UNCHANGED <<desk, bill, verdict>>
      BY <3>4 DEF Cargo!Ask
    <3> QED BY <1>7, <3>1, <3>2, <3>3, <3>4 DEF Cargo!Sweep
  <2> QED BY <1>1, <2>1
<1>8. ASSUME NEW r \in Replicas, Cargo!AbandonSweep(r)
      PROVE  Cargo!VerdictInHand' /\ Cargo!VerdictKnowsTheBill'
  BY <1>1, <1>8 DEF Cargo!AbandonSweep
<1>9. ASSUME NEW s \in Ships, Cargo!Create(s) PROVE Cargo!VerdictInHand' /\ Cargo!VerdictKnowsTheBill'
  BY <1>1, <1>9 DEF Cargo!Create
<1>10. ASSUME NEW t \in Trades, Cargo!CloseCase(t)
       PROVE  Cargo!VerdictInHand' /\ Cargo!VerdictKnowsTheBill'
  BY <1>1, <1>10 DEF Cargo!CloseCase
<1>11. CASE Cargo!DayPasses \/ UNCHANGED Cargo!vars
  BY <1>1, <1>11 DEF Cargo!DayPasses, Cargo!vars
<1> QED BY <1>3, <1>4, <1>5, <1>6, <1>7, <1>8, <1>9, <1>10, <1>11 DEF Cargo!Next, Cargo!Serve

\* With one person at the desk the newest validation of a trade knows of every
\* bill of lading that is in hand, and of no other.
THEOREM VerdictsKnowTheBills ==
    ASSUME Cargo!ShipConstants, Cargo!OneDesk
    PROVE  Cargo!Spec => []Cargo!VerdictKnowsTheBill
<1>1. Cargo!Init => Cargo!VerdictInHand /\ Cargo!VerdictKnowsTheBill
  <2>1. Cargo!Idle.pc = "idle"
    BY DEF Cargo!Idle
  <2>2. Cargo!Init => Cargo!VerdictInHand
    BY <2>1 DEF Cargo!Init, Cargo!VerdictInHand
  <2>3. Cargo!Init => Cargo!VerdictKnowsTheBill
    BY DEF Cargo!Init, Cargo!VerdictKnowsTheBill, Cargo!FinalBillHeld, Cargo!ShipConstants
  <2> QED BY <2>2, <2>3
<1>2. Cargo!ShipInv /\ Cargo!VerdictInHand /\ Cargo!VerdictKnowsTheBill /\ [Cargo!Next]_(Cargo!vars) =>
              Cargo!VerdictInHand' /\ Cargo!VerdictKnowsTheBill'
  BY VerdictStep
<1> QED BY <1>1, <1>2, ShipsAreSound, PTL DEF Cargo!Spec

-----------------------------------------------------------------------------
\* One writer: its copies are the held.
LEMMA LoneSweep ==
    ASSUME Cargo!OneWriter, Cargo!ShipInv, NEW r \in Replicas
    PROVE  People = {} /\ \A q \in Replicas : q = r
BY DEF Cargo!OneWriter, Cargo!OneSweep

LEMMA LoneDesk ==
    ASSUME Cargo!OneWriter, Cargo!ShipInv, NEW p \in People
    PROVE  Replicas = {} /\ \A q \in People : q = p
BY DEF Cargo!OneWriter, Cargo!OneDesk

LEMMA CurrentStep ==
    ASSUME Cargo!ShipConstants, Cargo!OneWriter, Cargo!ShipInv, Cargo!CopiesAreCurrent,
           [Cargo!Next]_(Cargo!vars)
    PROVE  Cargo!CopiesAreCurrent'
<1>1. ASSUME NEW r \in Replicas, NEW w, sweep' = [sweep EXCEPT ![r] = w],
             \A s \in DOMAIN w.copy : w.copy[s] = ship'[s]
      PROVE  Cargo!CopiesAreCurrent'
  <2>1. \A q \in Replicas : sweep'[q] = w
    BY <1>1, LoneSweep DEF Cargo!ShipInv
  <2>2. People = {}
    BY LoneSweep
  <2> QED BY <1>1, <2>1, <2>2 DEF Cargo!CopiesAreCurrent
<1>2. ASSUME NEW p \in People, NEW d, Cargo!Become(p, d), d.pc # "idle" => d.copy = ship'[d.ship]
      PROVE  Cargo!CopiesAreCurrent'
  <2>1. \A q \in People : desk'[q] = d
    BY <1>2, LoneDesk DEF Cargo!ShipInv, Cargo!Become
  <2>2. Replicas = {}
    BY LoneDesk
  <2> QED BY <1>2, <2>1, <2>2 DEF Cargo!CopiesAreCurrent
<1>3. ASSUME UNCHANGED <<ship, sweep, desk>> PROVE Cargo!CopiesAreCurrent'
  BY <1>3 DEF Cargo!CopiesAreCurrent
<1>4. ASSUME NEW r \in Replicas, Cargo!BeginSweep(r) PROVE Cargo!CopiesAreCurrent'
  <2>1. PICK chosen \in SUBSET Ships :
        sweep' = [sweep EXCEPT ![r] =
            [Cargo!Asleep EXCEPT !.pc = "awake", !.left = {s \in chosen : Cargo!IsActive(ship[s])},
                           !.copy = [s \in chosen |-> ship[s]]]]
    BY <1>4, Zenon DEF Cargo!BeginSweep
  <2> DEFINE left == {s \in chosen : Cargo!IsActive(ship[s])}
             copies == [s \in chosen |-> ship[s]]
             w == [Cargo!Asleep EXCEPT !.pc = "awake", !.left = left, !.copy = copies]
  <2>2. w.copy = copies
    <3> HIDE DEF left, copies
    <3> QED BY DEF Cargo!Asleep
  <2>3. \A s \in DOMAIN copies : copies[s] = ship[s]
    OBVIOUS
  <2>4. sweep' = [sweep EXCEPT ![r] = w]
    BY <2>1, Zenon
  <2>5. ship' = ship
    BY <1>4 DEF Cargo!BeginSweep
  <2> HIDE DEF w, copies
  <2> QED BY <1>1, <2>2, <2>3, <2>4, <2>5
<1>5. ASSUME NEW r \in Replicas, NEW s \in Ships, Cargo!Pass(r, s) PROVE Cargo!CopiesAreCurrent'
  <2> DEFINE w == [sweep[r] EXCEPT !.left = @ \ {s}, !.opened = Cargo!Reported(r, s, sweep[r].copy[s])]
  <2>1. sweep' = [sweep EXCEPT ![r] = w] /\ ship' = ship
    BY <1>5 DEF Cargo!Pass
  <2>2. w.copy = sweep[r].copy
    BY DEF Cargo!ShipInv, Cargo!SoundSweep, Cargo!SweepOf
  <2>3. \A o \in DOMAIN sweep[r].copy : sweep[r].copy[o] = ship[o]
    BY DEF Cargo!CopiesAreCurrent
  <2> HIDE DEF w
  <2> QED BY <1>1, <2>1, <2>2, <2>3
<1>6. ASSUME NEW r \in Replicas, NEW s \in Ships, Cargo!Ask(r, s) PROVE Cargo!CopiesAreCurrent'
  <2> DEFINE New(row) == [o \in DOMAIN sweep[r].new \cup {s} |-> IF o = s THEN row ELSE sweep[r].new[o]]
             w(row) == [sweep[r] EXCEPT !.left = @ \ {s}, !.opened = Cargo!Reported(r, s, row),
                        !.new = New(row)]
  <2>1. PICK row : sweep' = [sweep EXCEPT
            ![r].left = @ \ {s}, ![r].opened = Cargo!Reported(r, s, row),
            ![r].new = [o \in DOMAIN @ \cup {s} |-> IF o = s THEN row ELSE @[o]]]
    BY <1>6, Zenon DEF Cargo!Ask
  <2>2. sweep' = [sweep EXCEPT ![r] = w(row)]
    BY <2>1
  <2>3. w(row).copy = sweep[r].copy
    <3> HIDE DEF New
    <3> QED BY DEF Cargo!ShipInv, Cargo!SoundSweep, Cargo!SweepOf
  <2>4. ship' = ship
    BY <1>6 DEF Cargo!Ask
  <2>5. \A o \in DOMAIN sweep[r].copy : sweep[r].copy[o] = ship[o]
    BY DEF Cargo!CopiesAreCurrent
  <2> HIDE DEF w
  <2> QED BY <1>1, <2>2, <2>3, <2>4, <2>5
<1>7. ASSUME NEW r \in Replicas, Cargo!CommitSweep(r) \/ Cargo!AbandonSweep(r)
      PROVE  Cargo!CopiesAreCurrent'
  <2>1. sweep' = [sweep EXCEPT ![r] = Cargo!Asleep]
    BY <1>7 DEF Cargo!CommitSweep, Cargo!AbandonSweep
  <2>2. DOMAIN Cargo!Asleep.copy = {}
    BY BlankRow DEF Cargo!SweepOf
  <2> QED BY <1>1, <2>1, <2>2
<1>8. ASSUME NEW p \in People, NEW s \in Ships, Cargo!Load(p, s) PROVE Cargo!CopiesAreCurrent'
  <2> DEFINE d == [Cargo!Idle EXCEPT !.pc = "loaded", !.ship = s, !.copy = ship[s]]
  <2>1. d.copy = ship[s] /\ d.ship = s
    BY DEF Cargo!Idle
  <2>2. Cargo!Become(p, d)
    BY <1>8, Zenon DEF Cargo!Load
  <2>3. ship' = ship
    BY <1>8 DEF Cargo!Load
  <2> HIDE DEF d
  <2> QED BY <1>2, <2>1, <2>2, <2>3
<1>9. ASSUME NEW p \in People, Cargo!Write(p) PROVE Cargo!CopiesAreCurrent'
  <2>1. PICK row : Cargo!Become(p, [desk[p] EXCEPT !.pc = "written", !.new = row])
    BY <1>9, Zenon DEF Cargo!Write
  <2> DEFINE d == [desk[p] EXCEPT !.pc = "written", !.new = row]
  <2>2. d.copy = desk[p].copy /\ d.ship = desk[p].ship
    BY DEF Cargo!ShipInv, Cargo!SoundRequest, Cargo!DeskRow
  <2>3. Cargo!Become(p, d)
    BY <2>1, Zenon
  <2>4. ship' = ship /\ desk[p].pc = "loaded"
    BY <1>9 DEF Cargo!Write
  <2> HIDE DEF d
  <2> QED BY <1>2, <2>2, <2>3, <2>4 DEF Cargo!CopiesAreCurrent
<1>10. ASSUME NEW p \in People, NEW kind \in Kinds, Cargo!WriteBill(p, kind)
       PROVE  Cargo!CopiesAreCurrent'
  <2>1. PICK row, v : Cargo!Become(p, [desk[p] EXCEPT !.pc = "written", !.new = row,
                                       !.bill = kind, !.verdict = v])
    BY <1>10, Zenon DEF Cargo!WriteBill
  <2> DEFINE d == [desk[p] EXCEPT !.pc = "written", !.new = row, !.bill = kind, !.verdict = v]
  <2>2. d.copy = desk[p].copy /\ d.ship = desk[p].ship
    BY DEF Cargo!ShipInv, Cargo!SoundRequest, Cargo!DeskRow
  <2>3. Cargo!Become(p, d)
    BY <2>1, Zenon
  <2>4. ship' = ship /\ desk[p].pc = "loaded"
    BY <1>10 DEF Cargo!WriteBill
  <2> HIDE DEF d
  <2> QED BY <1>2, <2>2, <2>3, <2>4 DEF Cargo!CopiesAreCurrent
<1>11. ASSUME NEW p \in People, Cargo!CommitDesk(p) PROVE Cargo!CopiesAreCurrent'
  <2>1. Cargo!Become(p, Cargo!Idle) /\ Cargo!Idle.pc = "idle"
    BY <1>11 DEF Cargo!CommitDesk, Cargo!Idle
  <2> QED BY <1>2, <2>1
<1>12. ASSUME NEW s \in Ships, Cargo!Create(s) PROVE Cargo!CopiesAreCurrent'
  <2>1. ~ship[s].open /\ sweep' = sweep /\ desk' = desk /\ \A o \in Ships : o # s => ship'[o] = ship[o]
    BY <1>12, CreateKeeps DEF Cargo!Create
  <2>2. \A r \in Replicas : DOMAIN sweep[r].copy \subseteq Ships \ {s}
    BY <2>1 DEF Cargo!ShipInv, Cargo!LoadedIsOpen, Cargo!SoundSweep, Cargo!SweepOf
  <2>3. \A p \in People : desk[p].pc # "idle" => desk[p].ship \in Ships \ {s}
    BY <2>1 DEF Cargo!ShipInv, Cargo!LoadedIsOpen, Cargo!SoundRequest
  <2> QED BY <2>1, <2>2, <2>3 DEF Cargo!CopiesAreCurrent
<1>13. ASSUME NEW t \in Trades, Cargo!CloseCase(t) PROVE Cargo!CopiesAreCurrent'
  BY <1>3, <1>13 DEF Cargo!CloseCase
<1>14. CASE Cargo!DayPasses \/ UNCHANGED Cargo!vars
  BY <1>3, <1>14 DEF Cargo!DayPasses, Cargo!vars
<1> QED BY <1>4, <1>5, <1>6, <1>7, <1>8, <1>9, <1>10, <1>11, <1>12, <1>13, <1>14
        DEF Cargo!Next, Cargo!Sweep, Cargo!Serve

\* What one writer makes of a row: it stays, it is read, or it is begun.
LEMMA OneWriterNotes ==
    ASSUME Cargo!ShipConstants, Cargo!OneWriter, Cargo!ShipInv, Cargo!CopiesAreCurrent,
           [Cargo!Next]_(Cargo!vars), NEW s \in Ships
    PROVE  \/ ship'[s] = ship[s] \/ Cargo!Noted(ship[s], ship'[s])
           \/ ship[s].milestone \notin Cargo!Finished /\ ship'[s].failures = 0
<1>1. ASSUME NEW r \in Replicas, Cargo!CommitSweep(r)
      PROVE  ship'[s] = ship[s] \/ Cargo!Noted(ship[s], ship'[s])
  <2> DEFINE old == sweep[r]
  <2>1. PICK loaded \in SUBSET Ships : \E touched \in SUBSET loaded :
        old \in Cargo!SweepOf(loaded, touched) /\ \A o \in touched : Cargo!Noted(old.copy[o], old.new[o])
    BY DEF Cargo!ShipInv, Cargo!SoundSweep
  <2>2. PICK touched \in SUBSET loaded :
        old \in Cargo!SweepOf(loaded, touched) /\ \A o \in touched : Cargo!Noted(old.copy[o], old.new[o])
    BY <2>1
  <2>3. CASE s \in touched
    <3>1. ship'[s] = Cargo!Written(ship[s], old.copy[s], old.new[s])
      BY <1>1, <2>2, <2>3 DEF Cargo!CommitSweep, Cargo!SweepOf
    <3>2. ship[s] \in Cargo!ShipRow /\ old.copy[s] = ship[s] /\ old.new[s] \in Cargo!ShipRow
      BY <2>2, <2>3 DEF Cargo!SweepOf, Cargo!ShipInv, Cargo!SoundShip, Cargo!CopiesAreCurrent
    <3>3. ship'[s] = old.new[s]
      BY <3>1, <3>2, WrittenIsARow
    <3> QED BY <2>2, <2>3, <3>2, <3>3
  <2>4. CASE s \notin touched
    BY <1>1, <2>2, <2>4 DEF Cargo!CommitSweep, Cargo!SweepOf
  <2> QED BY <2>3, <2>4
<1>2. ASSUME NEW p \in People, Cargo!CommitDesk(p)
      PROVE  ship'[s] = ship[s] \/ Cargo!Noted(ship[s], ship'[s])
  <2>1. CASE s = desk[p].ship
    <3>1. desk[p].copy = ship[s]
      BY <1>2, <2>1 DEF Cargo!CommitDesk, Cargo!CopiesAreCurrent
    <3>2. ship'[s] = desk[p].new
      BY <1>2, <2>1, <3>1, CommitDeskWrites, WrittenIsARow
    <3> QED BY <1>2, <3>1, <3>2, CommitDeskWrites
  <2>2. CASE s # desk[p].ship
    BY <1>2, <2>2, CommitDeskWrites
  <2> QED BY <2>1, <2>2
<1>3. ASSUME NEW o \in Ships, Cargo!Create(o)
      PROVE  ship'[s] = ship[s] \/ (ship[s].milestone \notin Cargo!Finished /\ ship'[s].failures = 0)
  <2>1. CASE s # o
    BY <1>3, <2>1, CreateKeeps
  <2>2. CASE s = o
    <3>1. ship[s] = Cargo!NoShip
      BY <1>3, <2>2 DEF Cargo!Create, Cargo!ShipInv, Cargo!SoundShip
    <3>2. ship[s].milestone \notin Cargo!Finished
      BY <3>1 DEF Cargo!NoShip, Cargo!Finished
    <3>3. ship'[s].failures = 0
      BY <1>3, <2>2, CreateKeeps
    <3> QED BY <3>2, <3>3
  <2> QED BY <2>1, <2>2
<1>4. ASSUME ship' = ship PROVE ship'[s] = ship[s]
  BY <1>4
<1>5. ASSUME NEW r \in Replicas, Cargo!Sweep(r), ~Cargo!CommitSweep(r) PROVE ship' = ship
  <2>1. CASE Cargo!BeginSweep(r)
    BY <2>1 DEF Cargo!BeginSweep
  <2>2. ASSUME NEW o \in Ships, Cargo!Pass(r, o) PROVE ship' = ship
    BY <2>2 DEF Cargo!Pass
  <2>3. ASSUME NEW o \in Ships, Cargo!Ask(r, o) PROVE ship' = ship
    BY <2>3 DEF Cargo!Ask
  <2> QED BY <1>5, <2>1, <2>2, <2>3 DEF Cargo!Sweep
<1>6. ASSUME NEW p \in People, Cargo!Serve(p), ~Cargo!CommitDesk(p) PROVE ship' = ship
  <2>1. CASE Cargo!Write(p)
    BY <2>1 DEF Cargo!Write
  <2>2. ASSUME NEW kind \in Kinds, Cargo!WriteBill(p, kind) PROVE ship' = ship
    BY <2>2 DEF Cargo!WriteBill
  <2> QED BY <1>6, <2>1, <2>2 DEF Cargo!Serve
<1>7. ASSUME NEW r \in Replicas, Cargo!AbandonSweep(r) PROVE ship' = ship
  BY <1>7 DEF Cargo!AbandonSweep
<1>8. ASSUME NEW p \in People, NEW o \in Ships, Cargo!Load(p, o) PROVE ship' = ship
  BY <1>8 DEF Cargo!Load
<1>9. ASSUME NEW t \in Trades, Cargo!CloseCase(t) PROVE ship' = ship
  BY <1>9 DEF Cargo!CloseCase
<1>10. CASE Cargo!DayPasses \/ UNCHANGED Cargo!vars
  BY <1>10 DEF Cargo!DayPasses, Cargo!vars
<1> QED BY <1>1, <1>2, <1>3, <1>4, <1>5, <1>6, <1>7, <1>8, <1>9, <1>10 DEF Cargo!Next

LEMMA CurrentInitially ==
    ASSUME Cargo!ShipConstants, Cargo!Init
    PROVE  Cargo!CopiesAreCurrent
<1>1. DOMAIN Cargo!Asleep.copy = {} /\ Cargo!Idle.pc = "idle"
  BY BlankRow DEF Cargo!SweepOf, Cargo!Idle
<1> QED BY <1>1 DEF Cargo!Init, Cargo!CopiesAreCurrent

\* With one writer cargo that had finished a stage is not under way again without
\* the flag that asks somebody to look.
THEOREM RegressionsAreFlagged ==
    ASSUME Cargo!ShipConstants, Cargo!OneWriter
    PROVE  Cargo!Spec => [][Cargo!RegressionIsFlagged]_(Cargo!vars)
<1>1. Cargo!Init => Cargo!CopiesAreCurrent
  BY CurrentInitially
<1>2. Cargo!ShipInv /\ Cargo!CopiesAreCurrent /\ [Cargo!Next]_(Cargo!vars) => Cargo!CopiesAreCurrent'
  BY CurrentStep
<1>3. ASSUME Cargo!ShipInv, Cargo!CopiesAreCurrent, [Cargo!Next]_(Cargo!vars)
      PROVE  [Cargo!RegressionIsFlagged]_(Cargo!vars)
  <2>1. ASSUME NEW s \in Ships, ship[s].milestone \in Cargo!Finished,
         ship'[s].milestone \notin Cargo!Finished
        PROVE  ship'[s].flagged
    BY <1>3, <2>1, OneWriterNotes DEF Cargo!Noted
  <2> QED BY <2>1 DEF Cargo!RegressionIsFlagged
<1> QED BY <1>1, <1>2, <1>3, ShipsAreSound, PTL DEF Cargo!Spec

\* With one writer a check begins the count of failed attempts anew: whoever is
\* told of a carrier that never answers is told so of a shipment unheard of.
THEOREM ChecksEndTheCount ==
    ASSUME Cargo!ShipConstants, Cargo!OneWriter
    PROVE  Cargo!Spec => [][Cargo!CheckEndsTheCount]_(Cargo!vars)
<1>1. Cargo!Init => Cargo!CopiesAreCurrent
  BY CurrentInitially
<1>2. Cargo!ShipInv /\ Cargo!CopiesAreCurrent /\ [Cargo!Next]_(Cargo!vars) => Cargo!CopiesAreCurrent'
  BY CurrentStep
<1>3. ASSUME Cargo!ShipInv, Cargo!CopiesAreCurrent, [Cargo!Next]_(Cargo!vars)
      PROVE  [Cargo!CheckEndsTheCount]_(Cargo!vars)
  <2>1. ASSUME NEW s \in Ships, ship'[s].checked # ship[s].checked
        PROVE  ship'[s].failures <= 1
    BY <1>3, <2>1, OneWriterNotes DEF Cargo!Noted
  <2> QED BY <2>1 DEF Cargo!CheckEndsTheCount
<1> QED BY <1>1, <1>2, <1>3, ShipsAreSound, PTL DEF Cargo!Spec
=============================================================================
