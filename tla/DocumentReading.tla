---------------------------- MODULE DocumentReading ----------------------------
(***************************************************************************)
(* The intake pipeline of one request - classify it, classify and extract  *)
(* each document, reconcile, settle the job - and what people do meanwhile *)
(* in their own sessions: correct fields, reclassify (which queues a       *)
(* re-extraction), confirm, and override the category                      *)
(* (backend/app/services/document_service.py, classification_service.py,   *)
(* extraction_service.py, api/v1/documents.py, api/v1/requests.py).        *)
(*                                                                         *)
(* Sessions keep the rows they loaded (expire_on_commit is off, and a row  *)
(* already loaded is not refreshed by a later query) and write only the    *)
(* columns they changed.  A reader flushes 'processing' before it calls    *)
(* the model, which holds the row of the document until its commit; field  *)
(* rows are not held.  One field stands for all of a document.             *)
(***************************************************************************)
EXTENDS Integers, FiniteSets

CONSTANTS
    Documents,    \* documents of the request
    WithField,    \* types whose schema has the field
    Unschemed,    \* types without a schema
    Machine,      \* values the model may read
    Reruns,       \* re-extraction tasks
    People,       \* correcting users
    MaxVisits,    \* bound on what people do
    MaxFaults     \* bound on restarts of the process

Unknown == "unknown"
NoType == "none"
Pipeline == "pipeline"
Nobody == "nobody"
Human == "human"       \* what people type
NoValue == "nothing"
NoRow == [present |-> FALSE, value |-> NoValue, byHand |-> FALSE, original |-> NoValue]

\* No reading is mistaken for none.
ReadingConstants ==
    /\ Documents # {} /\ NoValue \notin Machine
    /\ {MaxVisits, MaxFaults} \subseteq Nat

Types == WithField \cup Unschemed \cup {Unknown}
Readers == Reruns \cup {Pipeline}
Sessions == Readers \cup People

DocumentRow == [status : {"pending", "processing", "completed", "failed"},
                type : Types \cup {NoType}, review : BOOLEAN,
                confirmed : BOOLEAN, kinds : {"none", "machine", "hand"},
                kindsByHand : BOOLEAN]
FieldRow == [present : BOOLEAN, value : Machine \cup {Human, NoValue},
             byHand : BOOLEAN, original : Machine \cup {NoValue}]
RequestRow == [status : {"received", "classified", "extraction_pending", "extracted"},
               review : BOOLEAN, overridden : BOOLEAN]
Copy == [request : RequestRow, doc : [Documents -> DocumentRow],
         field : [Documents -> FieldRow]]

VARIABLES
    request, doc, field,   \* committed rows
    job,        \* of the pipeline
    copy,       \* the rows as each session loaded or last flushed them
    pc, left, at,   \* each session: where, documents to come, document at hand
    holder,     \* who holds the row of a document
    visits, faults

rows == <<request, doc, field>>
vars == <<request, doc, field, job, copy, pc, left, at, holder, visits, faults>>

TypeOK ==
    /\ request \in RequestRow /\ doc \in [Documents -> DocumentRow]
    /\ field \in [Documents -> FieldRow]
    /\ job \in {"queued", "completed", "failed"}
    /\ copy \in [Sessions -> Copy]
    /\ pc \in [Sessions -> {"idle", "start", "classify", "begin", "read",
                            "reconcile", "open", "queued"}]
    /\ left \in [Sessions -> SUBSET Documents] /\ at \in [Sessions -> Documents]
    /\ holder \in [Documents -> Readers \cup {Nobody}]
    /\ visits \in 0..MaxVisits /\ faults \in 0..MaxFaults

-----------------------------------------------------------------------------
\* An UPDATE names the columns that differ from what was loaded.
Changed(row, before, after) ==
    [c \in DOMAIN row |-> IF before[c] = after[c] THEN row[c] ELSE after[c]]

Database == [request |-> request, doc |-> doc, field |-> field]

\* The session goes on with its own rows, not with what others committed.
Keep(s, rowset, place) ==
    /\ copy' = [copy EXCEPT ![s] = rowset]
    /\ pc' = [pc EXCEPT ![s] = place]

SomeDocument == CHOOSE d \in Documents : TRUE
NewDocument == [status |-> "pending", type |-> NoType, review |-> FALSE,
                confirmed |-> FALSE, kinds |-> "none", kindsByHand |-> FALSE]
NewRequest == [status |-> "received", review |-> FALSE, overridden |-> FALSE]
Blank == [request |-> NewRequest, doc |-> [d \in Documents |-> NewDocument],
          field |-> [d \in Documents |-> NoRow]]

Init ==
    /\ request = NewRequest /\ doc = Blank.doc /\ field = Blank.field
    /\ job = "queued"
    /\ copy = [s \in Sessions |-> Blank]
    /\ pc = [s \in Sessions |-> IF s = Pipeline THEN "start" ELSE "idle"]
    /\ left = [s \in Sessions |-> {}] /\ at = [s \in Sessions |-> SomeDocument]
    /\ holder = [d \in Documents |-> Nobody]
    /\ visits = 0 /\ faults = 0

\* A session that has ended keeps nothing.
End(s) ==
    /\ Keep(s, Blank, "idle")
    /\ left' = [left EXCEPT ![s] = {}] /\ at' = [at EXCEPT ![s] = SomeDocument]

-----------------------------------------------------------------------------
(* One document: process_document.                                         *)

\* What classification answers; a call that failed is an answer too.
Answers == {a \in [type : Types, doubtful : BOOLEAN] : a.type = Unknown => a.doubtful}

Classified(row, answer) ==
    [row EXCEPT !.type = answer.type, !.review = answer.doubtful,
                !.kinds = IF row.kindsByHand THEN @ ELSE "machine"]

Reading(v) == [present |-> TRUE, byHand |-> FALSE, value |-> v, original |-> v]

\* Slip: a reading replaces whatever is there.
OverwriteField(row, type, v) == IF type \in WithField THEN Reading(v) ELSE NoRow

\* _write_fields: a value a person fixed stays, whatever the schema asks for;
\* the machine's first value is written with the row.
ReadField(row, type, v) ==
    IF row.byHand THEN row
    ELSE IF type \notin WithField THEN NoRow
    ELSE IF row.present THEN [row EXCEPT !.value = v] ELSE Reading(v)

\* A row that was there when the session loaded is seen as it was then, a
\* later one as it is.
FieldSeen(s, d) ==
    IF field[d].present /\ copy[s].field[d].present THEN copy[s].field[d] ELSE field[d]

\* Inserted, deleted, or its changed columns written.
FieldWritten(s, d, after) ==
    IF after.present /\ field[d].present
    THEN Changed(field[d], FieldSeen(s, d), after) ELSE after

Failed(row) == [row EXCEPT !.status = "failed", !.review = TRUE]

Completed(row, doubtful) == [row EXCEPT !.status = "completed", !.review = @ \/ doubtful]

\* What one reading makes of the document's row and of its field: unreadable,
\* no schema for its type, nothing extracted, or extracted.
Outcomes(s, d, classify) ==
    LET row == copy[s].doc[d]
        old == FieldSeen(s, d)
        typed == IF classify THEN {Classified(row, a) : a \in Answers} ELSE {row}
        schemed == {t \in typed : t.type \notin Unschemed \cup {Unknown, NoType}}
    IN  {[row |-> Failed(t), field |-> old] : t \in typed \cup {row}}
        \cup {[row |-> Completed(t, doubtful), field |-> ReadField(old, t.type, v)]
              : t \in schemed, v \in Machine, doubtful \in BOOLEAN}

Begin(s) ==
    /\ pc[s] = "begin"
    /\ \E d \in left[s] :
        /\ holder[d] = Nobody /\ holder' = [holder EXCEPT ![d] = s]
        /\ left' = [left EXCEPT ![s] = @ \ {d}] /\ at' = [at EXCEPT ![s] = d]
        /\ Keep(s, [copy[s] EXCEPT !.doc[d].status = "processing"], "read")
    /\ UNCHANGED <<rows, job, visits, faults>>

ReadDocument(s) ==
    LET d == at[s]
    IN /\ pc[s] = "read"
       /\ \E o \in Outcomes(s, d, s = Pipeline) :
            /\ doc' = [doc EXCEPT ![d] = Changed(@, copy[s].doc[d], o.row)]
            /\ field' = [field EXCEPT ![d] = FieldWritten(s, d, o.field)]
            /\ \/ /\ s = Pipeline \/ left[s] # {}
                  /\ Keep(s, [copy[s] EXCEPT !.doc[d] = o.row, !.field[d] = o.field],
                          IF left[s] = {} THEN "reconcile" ELSE "begin")
                  /\ UNCHANGED <<left, at>>
               \/ s # Pipeline /\ left[s] = {} /\ End(s)
       /\ holder' = [holder EXCEPT ![d] = Nobody]
       /\ UNCHANGED <<request, job, visits, faults>>

-----------------------------------------------------------------------------
(* The pipeline: process_request.                                          *)

StartPipeline ==
    /\ pc[Pipeline] = "start" /\ Keep(Pipeline, Database, "classify")
    /\ UNCHANGED <<rows, job, left, at, holder, visits, faults>>

\* classify_request_row and the queries after it, which bring the documents.
ClassifyRequest ==
    /\ pc[Pipeline] = "classify"
    /\ \E doubtful \in BOOLEAN :
        LET seen == [copy[Pipeline].request EXCEPT
                        !.status = "extraction_pending", !.review = doubtful]
        IN /\ request' = Changed(request, copy[Pipeline].request, seen)
           /\ Keep(Pipeline, [Database EXCEPT !.request = seen], "begin")
    /\ left' = [left EXCEPT ![Pipeline] = Documents]
    /\ UNCHANGED <<doc, field, job, at, holder, visits, faults>>

\* A document the pipeline found doubtful, as it holds them itself.
SomethingDoubtful == \E d \in Documents : copy[Pipeline].doc[d].review

Doubts == SomethingDoubtful

Reconcile ==
    /\ pc[Pipeline] = "reconcile"
    /\ LET seen == [copy[Pipeline].request EXCEPT
                        !.status = "extracted", !.review = @ \/ Doubts]
       IN request' = Changed(request, copy[Pipeline].request, seen)
    /\ job' = "completed" /\ End(Pipeline)
    /\ UNCHANGED <<doc, field, holder, visits, faults>>

\* Slip: the exception is only logged.
BreakQuietly(s) ==
    /\ s \in Readers /\ pc[s] \in {"classify", "begin", "read", "reconcile"}
    /\ End(s)
    /\ holder' = [d \in Documents |-> IF holder[d] = s THEN Nobody ELSE holder[d]]
    /\ UNCHANGED <<rows, job, visits, faults>>

\* An exception: rolled back, and the job says so.
Break(s) ==
    /\ s \in Readers /\ pc[s] \in {"classify", "begin", "read", "reconcile"}
    /\ job' = IF s = Pipeline THEN "failed" ELSE job
    /\ End(s)
    /\ holder' = [d \in Documents |-> IF holder[d] = s THEN Nobody ELSE holder[d]]
    /\ UNCHANGED <<rows, visits, faults>>

\* The process stops: what was in hand is gone and nobody takes it up.
Crash ==
    /\ faults < MaxFaults /\ faults' = faults + 1
    /\ pc' = [s \in Sessions |-> "idle"] /\ copy' = [s \in Sessions |-> Blank]
    /\ left' = [s \in Sessions |-> {}] /\ at' = [s \in Sessions |-> SomeDocument]
    /\ holder' = [d \in Documents |-> Nobody]
    /\ UNCHANGED <<rows, job, visits>>

StartRerun(x) ==
    /\ pc[x] = "queued" /\ Keep(x, Database, "begin")
    /\ left' = [left EXCEPT ![x] = {at[x]}]
    /\ UNCHANGED <<rows, job, at, holder, visits, faults>>

-----------------------------------------------------------------------------
(* People, each request in a session of its own.                           *)

Open(h) ==
    /\ pc[h] = "idle" /\ Keep(h, Database, "open")
    /\ visits < MaxVisits /\ visits' = visits + 1
    /\ UNCHANGED <<rows, job, left, at, holder, faults>>

\* Their write waits for a reader that holds the row of the document.
SaveDocument(h, d, after) ==
    /\ holder[d] = Nobody
    /\ doc' = [doc EXCEPT ![d] = Changed(@, copy[h].doc[d], after)]

\* The machine's value is put aside the first time a row is touched.
Corrected(row) ==
    [row EXCEPT !.present = TRUE, !.value = Human, !.byHand = TRUE,
                !.original = IF @ = NoValue /\ ~row.byHand THEN row.value ELSE @]

\* A row that came or went since it was loaded fails the statement.
CorrectField(h, d) ==
    LET row == copy[h].field[d]
    IN /\ pc[h] = "open"
       /\ copy[h].doc[d].type \in WithField
       /\ field' = IF row.present # field[d].present THEN field
                   ELSE [field EXCEPT ![d] = Changed(@, row, Corrected(row))]
       /\ End(h) /\ UNCHANGED <<request, doc, job, holder, visits, faults>>

\* The row, then the task that reads the document again.
Reclassify(h, d, x) ==
    /\ pc[h] = "open" /\ pc[x] = "idle"
    /\ \E type \in Types \ {Unknown}, byHand \in BOOLEAN :
        SaveDocument(h, d,
            [copy[h].doc[d] EXCEPT !.type = type, !.status = "pending", !.confirmed = FALSE,
                                   !.kinds = IF byHand THEN "hand" ELSE @,
                                   !.kindsByHand = @ \/ byHand])
    /\ pc' = [pc EXCEPT ![h] = "idle", ![x] = "queued"]
    /\ copy' = [copy EXCEPT ![h] = Blank]
    /\ at' = [at EXCEPT ![x] = d]
    /\ UNCHANGED <<request, field, job, left, holder, visits, faults>>

Confirm(h, d) ==
    /\ pc[h] = "open" /\ copy[h].doc[d].status = "completed"
    /\ SaveDocument(h, d, [copy[h].doc[d] EXCEPT !.confirmed = TRUE, !.review = FALSE])
    /\ request' = Changed(request, copy[h].request,
                          [copy[h].request EXCEPT !.status = "extracted"])
    /\ End(h) /\ UNCHANGED <<field, job, holder, visits, faults>>

OverrideCategory(h) ==
    /\ pc[h] = "open"
    /\ request' = Changed(request, copy[h].request,
                          [copy[h].request EXCEPT !.overridden = TRUE, !.review = FALSE])
    /\ End(h) /\ UNCHANGED <<doc, field, job, holder, visits, faults>>

Leave(h) ==
    /\ pc[h] = "open" /\ End(h) /\ UNCHANGED <<rows, job, holder, visits, faults>>

Read(s) == Begin(s) \/ ReadDocument(s)
Pipe == StartPipeline \/ ClassifyRequest \/ Reconcile

Next ==
    \/ Pipe \/ Crash
    \/ \E s \in Readers : Read(s) \/ Break(s)
    \/ \E x \in Reruns : StartRerun(x)
    \/ \E h \in People :
        \/ Open(h) \/ OverrideCategory(h) \/ Leave(h)
        \/ \E d \in Documents :
            \/ CorrectField(h, d) \/ Confirm(h, d)
            \/ \E x \in Reruns : Reclassify(h, d, x)

Spec == Init /\ [][Next]_vars

\* A task that was started runs: calls to the model are bounded by a timeout.
FairSpec ==
    /\ Spec /\ WF_vars(Pipe)
    /\ \A s \in Readers : SF_vars(Read(s))
    /\ \A x \in Reruns : WF_vars(StartRerun(x))

-----------------------------------------------------------------------------
\* A document is never left as being read: the status a reader flushes is
\* gone with it, however it ends.
NoReadingLeftBehind ==
    \A d \in Documents : doc[d].status = "processing" => \E s \in Readers : holder[d] = s

\* The machine's first value is never rewritten as long as its row lives,
\* neither by another reading nor by a correction from an older copy.
OriginalIsKept ==
    [][\A d \in Documents :
        field[d].present /\ field'[d].present /\ field[d].original # NoValue
            => field'[d].original = field[d].original]_vars

\* A reader that has seen a correction leaves it alone, also when it reads
\* the document as another type.
SeenCorrectionIsKept ==
    [][\A s \in Readers :
        pc[s] = "read" /\ pc'[s] # "read" /\ FieldSeen(s, at[s]).byHand
            => field'[at[s]] = field[at[s]]]_vars

\* When the pipeline reports success its request shows every doubt it had,
\* unless a person has decided the category.
DoubtsReachTheRequest ==
    [][job # "completed" /\ job' = "completed" /\ SomethingDoubtful
        => request'.review \/ request'.overridden]_vars

\* document_service.py: a human decision outranks a re-run.
HumanValueStands ==
    \A d \in Documents :
        /\ field[d].byHand => field[d].value = Human
        /\ doc[d].kindsByHand => doc[d].kinds = "hand"

\* A pipeline settles its job, by its end or by its exception, unless the
\* process is stopped under it.
PipelineSettles == <>(job # "queued" \/ faults > 0)

-----------------------------------------------------------------------------
(* Why: what sessions hold of a field and of the request.                  *)

\* A row that is not there is blank, and one that no person has touched is as
\* the machine inserted it, but for its value.
Sound(row) ==
    /\ ~row.present => row = NoRow
    /\ row.present /\ ~row.byHand => row.original # NoValue

FieldsAreSound ==
    \A d \in Documents :
        Sound(field[d]) /\ \A s \in Sessions : Sound(copy[s].field[d])

\* What a reader flushes it does not commit.
NobodySeesAReading == \A d \in Documents : doc[d].status # "processing"

\* An override is for good; a doubt the pipeline has shown is still shown, or
\* was overridden.
DoubtStands ==
    /\ \A s \in Sessions : copy[s].request.overridden => request.overridden
    /\ copy[Pipeline].request.review => request.review \/ request.overridden

ReadingInv == TypeOK /\ FieldsAreSound /\ NobodySeesAReading /\ DoubtStands
=============================================================================
