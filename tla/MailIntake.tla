------------------------------ MODULE MailIntake ------------------------------
(***************************************************************************)
(* How a message of the shared mailbox becomes a request: the webhook and  *)
(* the delta poll, the single ingestion function both run, the request     *)
(* code it needs, and the job that starts the intake pipeline              *)
(* (backend/app/api/v1/graph_notifications.py, services/mailbox_worker.py, *)
(* email_ingestion.py, request_service.py, document_service.py,            *)
(* job_service.py).  A portal upload shares the codes and the jobs.        *)
(*                                                                         *)
(* Messages are numbered in the order the mailbox received them, so a      *)
(* delta link is the number of the last message it has handed out.  Two    *)
(* unique indexes arbitrate: a flush of a key another open transaction     *)
(* holds waits for it, a flush of a committed key fails.  Job rows are in  *)
(* the database, the task that works on one only in its process.           *)
(***************************************************************************)
EXTENDS Integers, FiniteSets

CONSTANTS
    LastMessage,   \* messages that may arrive: a bound
    Hooks,         \* webhook deliveries, a detached task each
    Pollers,       \* mailbox workers, one in each replica
    Uploads,       \* portal uploads
    HomeOf,        \* the replica each of these runs in
    MaxAttempts,   \* MAX_CODE_ATTEMPTS
    LastPadded,    \* the last code its zero padding still sorts: 9999
    MaxUploads,    \* bound on the requests a portal upload makes
    MaxFaults      \* bound on restarts of a replica and calls that fail

\* What the counts are, and that nobody captures in two ways.
IntakeConstants ==
    /\ {LastMessage, MaxUploads, MaxFaults} \subseteq Nat
    /\ {MaxAttempts, LastPadded} \subseteq Nat \ {0}
    /\ Hooks \cap (Pollers \cup Uploads) = {} /\ Pollers \cap Uploads = {}

Messages == 1..LastMessage
NoMessage == 0
NoCode == 0
Sessions == Hooks \cup Pollers \cup Uploads
Replicas == {HomeOf[s] : s \in Sessions}
Codes == 1..(LastPadded + MaxAttempts)

Max2(a, b) == IF a < b THEN b ELSE a
Top(S) == IF S = {} THEN 0 ELSE CHOOSE n \in S : \A k \in S : k <= n

\* A row of requests with the job of its pipeline.
RequestRow == [code : Codes, message : Messages \cup {NoMessage},
               job : {"none", "queued", "settled"}]

VARIABLES
    arrived,    \* messages the mailbox has received
    link,       \* the stored delta link
    emails,     \* email_messages, by provider_message_id
    requests,   \* rows of requests
    tasks,      \* codes being worked on, with the replica that does
    pc, msg, upto, email, code, try,    \* each session
    refused,    \* messages an ingestion of which has raised
    cut,        \* codes whose pipeline, or its start, was cut short
    faults

work == <<pc, msg, upto, email, code, try>>
vars == <<arrived, link, emails, requests, tasks, pc, msg, upto,
          email, code, try, refused, cut, faults>>

TypeOK ==
    /\ arrived \in 0..LastMessage /\ link \in 0..LastMessage
    /\ emails \subseteq Messages /\ requests \subseteq RequestRow
    /\ tasks \subseteq Codes \X Replicas
    /\ pc \in [Sessions -> {"idle", "page", "look", "store", "number",
                            "row", "attach", "queue"}]
    /\ msg \in [Sessions -> Messages \cup {NoMessage}]
    /\ upto \in [Sessions -> 0..LastMessage]
    /\ email \in [Sessions -> BOOLEAN]
    /\ code \in [Sessions -> Codes \cup {NoCode}]
    /\ try \in [Sessions -> 0..MaxAttempts]
    /\ refused \subseteq Messages /\ cut \subseteq Codes
    /\ faults \in 0..MaxFaults

Init ==
    /\ arrived = 0 /\ link = 0
    /\ emails = {} /\ requests = {} /\ tasks = {}
    /\ pc = [s \in Sessions |-> "idle"]
    /\ msg = [s \in Sessions |-> NoMessage]
    /\ upto = [s \in Sessions |-> 0]
    /\ email = [s \in Sessions |-> FALSE]
    /\ code = [s \in Sessions |-> NoCode]
    /\ try = [s \in Sessions |-> 0]
    /\ refused = {} /\ cut = {} /\ faults = 0

-----------------------------------------------------------------------------
TakenCodes == {r.code : r \in requests}
RowsOf(m) == {r \in requests : r.message = m}
Goto(s, place) == pc' = [pc EXCEPT ![s] = place]

\* The work on a message ends: a poll turns to the next one.
Done(s) == Goto(s, IF s \in Pollers THEN "page" ELSE "idle")

\* rollback: what the session flushed is gone.
Forget(s) ==
    /\ email' = [email EXCEPT ![s] = FALSE]
    /\ code' = [code EXCEPT ![s] = NoCode]
    /\ try' = [try EXCEPT ![s] = 0]

\* A call to Graph, the storage or the database fails.
Fault == faults < MaxFaults /\ faults' = faults + 1

\* An exception leaves the ingestion; both callers roll back, log and go on.
Raise(s) ==
    /\ Done(s) /\ Forget(s)
    /\ refused' = refused \cup ({msg[s]} \ {NoMessage})

-----------------------------------------------------------------------------
(* The mailbox and the two ways of capture.                                *)

Arrive ==
    /\ arrived < LastMessage /\ arrived' = arrived + 1
    /\ UNCHANGED <<link, emails, requests, tasks, work, refused, cut, faults>>

\* A notification of a message: any number of times, or never.
Notify(h) ==
    /\ pc[h] = "idle"
    /\ \E m \in 1..arrived : msg' = [msg EXCEPT ![h] = m]
    /\ Goto(h, "look")
    /\ UNCHANGED <<arrived, link, emails, requests, tasks, upto, email,
                   code, try, refused, cut, faults>>

\* A link that cannot be read asks for everything again.
StartPoll(p) ==
    /\ pc[p] = "idle"
    /\ \E from \in {link, 0} : msg' = [msg EXCEPT ![p] = from]
    /\ upto' = [upto EXCEPT ![p] = arrived]
    /\ Goto(p, "page")
    /\ UNCHANGED <<arrived, link, emails, requests, tasks, email, code,
                   try, refused, cut, faults>>

NextMessage(p) ==
    /\ pc[p] = "page" /\ msg[p] < upto[p]
    /\ msg' = [msg EXCEPT ![p] = @ + 1]
    /\ Goto(p, "look")
    /\ UNCHANGED <<arrived, link, emails, requests, tasks, upto, email,
                   code, try, refused, cut, faults>>

\* Slip: the link is saved as soon as the page is there.
SavedEarly(p) ==
    /\ pc[p] = "page" /\ Goto(p, IF msg[p] < upto[p] THEN "page" ELSE "idle")
    /\ link' = upto[p] /\ link # upto[p]
    /\ msg' = [msg EXCEPT ![p] = IF msg[p] < upto[p] THEN @ ELSE NoMessage]
    /\ UNCHANGED <<arrived, emails, requests, tasks, upto, email, code,
                   try, refused, cut, faults>>

\* After the page, the link; the page may carry none or the save may fail.
SaveLink(p) ==
    /\ pc[p] = "page" /\ msg[p] >= upto[p]
    /\ link' \in {link, upto[p]}
    /\ msg' = [msg EXCEPT ![p] = NoMessage] /\ Goto(p, "idle")
    /\ UNCHANGED <<arrived, emails, requests, tasks, upto, email, code,
                   try, refused, cut, faults>>

-----------------------------------------------------------------------------
(* ingest_message.                                                         *)

Look(s) ==
    /\ pc[s] = "look"
    /\ IF msg[s] \in emails THEN Done(s) ELSE Goto(s, "store")
    /\ UNCHANGED <<arrived, link, emails, requests, tasks, msg, upto,
                   email, code, try, refused, cut, faults>>

\* The message could not be had, or its row is flushed or refused.  That its
\* raw form cannot be stored stops nothing.
InsertEmail(s) ==
    /\ pc[s] = "store"
    /\ \/ Raise(s) /\ Fault
       \/ /\ \A o \in Sessions \ {s} : ~(email[o] /\ msg[o] = msg[s])
          /\ IF msg[s] \in emails
             THEN Done(s) /\ Forget(s)
             ELSE /\ email' = [email EXCEPT ![s] = TRUE] /\ Goto(s, "number")
                  /\ UNCHANGED <<code, try>>
          /\ UNCHANGED <<refused, faults>>
    /\ UNCHANGED <<arrived, link, emails, requests, tasks, msg, upto, cut>>

\* A portal upload, its files inspected, asks for a code the same way.
Upload(u) ==
    /\ pc[u] = "idle" /\ Cardinality(RowsOf(NoMessage)) < MaxUploads
    /\ Goto(u, "number")
    /\ UNCHANGED <<arrived, link, emails, requests, tasks, msg, upto,
                   email, code, try, refused, cut, faults>>

\* _next_sequence: the highest code as text, one more, and one more per
\* attempt.  Past its padding a code sorts below the padded ones.
NextSequence(s) ==
    LET padded == {c \in TakenCodes : c <= LastPadded}
    IN Top(IF padded = {} THEN TakenCodes ELSE padded) + 1 + try[s]

ReadSequence(s) ==
    /\ pc[s] = "number"
    /\ code' = [code EXCEPT ![s] = NextSequence(s)]
    /\ Goto(s, "row")
    /\ UNCHANGED <<arrived, link, emails, requests, tasks, msg, upto,
                   email, try, refused, cut, faults>>

\* The code another session holds in an open transaction.
Flushed(o) == IF pc[o] = "attach" THEN code[o] ELSE NoCode

\* A row whose message was rolled back refers to nothing.
Refused(s) == code[s] \in TakenCodes \/ (s \notin Uploads /\ ~email[s])

\* create_request: a refused row rolls the whole session back and asks for
\* the next code, MAX_CODE_ATTEMPTS times.
InsertRequest(s) ==
    /\ pc[s] = "row"
    /\ \A o \in Sessions \ {s} : Flushed(o) # code[s]
    /\ \/ /\ ~Refused(s) /\ Goto(s, "attach")
          /\ UNCHANGED <<email, code, try, refused>>
       \/ /\ Refused(s) /\ try[s] + 1 < MaxAttempts
          /\ try' = [try EXCEPT ![s] = @ + 1]
          /\ email' = [email EXCEPT ![s] = FALSE]
          /\ code' = [code EXCEPT ![s] = NoCode]
          /\ Goto(s, "number") /\ UNCHANGED refused
       \/ Refused(s) /\ try[s] + 1 >= MaxAttempts /\ Raise(s)
    /\ UNCHANGED <<arrived, link, emails, requests, tasks, msg, upto, cut, faults>>

NewRow(s) == [code |-> code[s], job |-> "none",
              message |-> IF s \in Uploads THEN NoMessage ELSE msg[s]]

\* Slip: the message is committed before it has a request.
CommitEmailFirst(s) ==
    /\ pc[s] = "attach"
    /\ \/ requests' = requests \cup {NewRow(s)} /\ Goto(s, "queue")
          /\ UNCHANGED <<email, try, code, refused, faults>>
       \/ UNCHANGED requests /\ Raise(s) /\ Fault
    /\ emails' = emails \cup (IF email[s] THEN {msg[s]} ELSE {})
    /\ UNCHANGED <<arrived, link, tasks, msg, upto, cut>>

\* The attachments and the commit.  An attachment that Graph or the inspection
\* refuses is skipped; a failure of the storage, or of the commit, raises.
Commit(s) ==
    /\ pc[s] = "attach"
    /\ \/ /\ emails' = emails \cup (IF email[s] THEN {msg[s]} ELSE {})
          /\ requests' = requests \cup {NewRow(s)}
          /\ email' = [email EXCEPT ![s] = FALSE] /\ Goto(s, "queue")
          /\ UNCHANGED <<code, try, refused, faults>>
       \/ Raise(s) /\ Fault /\ UNCHANGED <<emails, requests>>
    /\ UNCHANGED <<arrived, link, tasks, msg, upto, cut>>

-----------------------------------------------------------------------------
(* The pipeline's job.                                                     *)

WithJob(c, before, after) ==
    requests' = {IF r.code = c /\ r.job \in before THEN [r EXCEPT !.job = after] ELSE r
                 : r \in requests}

\* queue_request_processing, after the commit: the row, then the task.
Queue(s) ==
    /\ pc[s] = "queue"
    /\ \/ /\ WithJob(code[s], {"none"}, "queued")
          /\ tasks' = tasks \cup {<<code[s], HomeOf[s]>>}
          /\ UNCHANGED <<refused, cut, faults>>
       \/ /\ Fault /\ cut' = cut \cup {code[s]}
          /\ refused' = refused \cup ({msg[s]} \ {NoMessage})
          /\ UNCHANGED <<requests, tasks>>
    /\ Done(s) /\ Forget(s)
    /\ UNCHANGED <<arrived, link, emails, msg, upto>>

\* update_job_progress on the way, then complete_job, or fail_job when the pipeline raised.
Settle(t) ==
    /\ \E r \in requests : r.code = t[1] /\ r.job = "queued"
    /\ WithJob(t[1], {"queued"}, "settled")
    /\ tasks' = tasks \ {t}
    /\ UNCHANGED <<arrived, link, emails, work, refused, cut, faults>>

\* A replica stops, and starts again with nothing in memory.
Crash(r) ==
    LET here == {s \in Sessions : HomeOf[s] = r}
        lost == {t \in tasks : t[2] = r}
    IN /\ Fault
       /\ pc' = [s \in Sessions |-> IF s \in here THEN "idle" ELSE pc[s]]
       /\ msg' = [s \in Sessions |-> IF s \in here THEN NoMessage ELSE msg[s]]
       /\ email' = [s \in Sessions |-> IF s \in here THEN FALSE ELSE email[s]]
       /\ code' = [s \in Sessions |-> IF s \in here THEN NoCode ELSE code[s]]
       /\ try' = [s \in Sessions |-> IF s \in here THEN 0 ELSE try[s]]
       /\ tasks' = tasks \ lost
       /\ cut' = cut \cup {t[1] : t \in lost}
                     \cup {code[s] : s \in {o \in here : pc[o] = "queue"}}
       /\ UNCHANGED <<arrived, link, emails, requests, upto, refused>>

Ingest(s) ==
    \/ Look(s) \/ InsertEmail(s) \/ ReadSequence(s)
    \/ InsertRequest(s) \/ Commit(s) \/ Queue(s)

Poll(p) == StartPoll(p) \/ NextMessage(p) \/ SaveLink(p)

Next ==
    \/ Arrive
    \/ \E h \in Hooks : Notify(h)
    \/ \E p \in Pollers : Poll(p)
    \/ \E u \in Uploads : Upload(u)
    \/ \E s \in Sessions : Ingest(s)
    \/ \E t \in tasks : Settle(t)
    \/ \E r \in Replicas : Crash(r)

Spec == Init /\ [][Next]_vars

\* The pollers' timers run for ever, calls return, and a statement that waits
\* for another transaction is let through in its turn.
Fairness ==
    /\ \A p \in Pollers : WF_vars(Poll(p))
    /\ \A s \in Sessions : SF_vars(Ingest(s))
    /\ \A c \in Codes, r \in Replicas : WF_vars(<<c, r>> \in tasks /\ Settle(<<c, r>>))

FairSpec == Spec /\ Fairness

-----------------------------------------------------------------------------
\* One message never becomes two requests, and a captured message always has
\* the request its capture was for: both are one commit.
OneRequestPerMessage ==
    \A m \in Messages : Cardinality(RowsOf(m)) = (IF m \in emails THEN 1 ELSE 0)

\* A code identifies one request, whoever numbered theirs at the same time.
CodesAreUnique == \A a, b \in requests : a.code = b.code => a = b

\* A message the stored link has gone past is captured or its capture raised:
\* neither a restart in the middle of a page nor a second poller loses one.
NothingSkipped ==
    \A m \in 1..link : m \in emails \cup refused

\* mailbox_worker.py: a lost webhook delivery costs latency, never the
\* message.  Not so for a message whose capture raises: the link goes past it.
PollCatchesUp == \A m \in 1..link : m \in emails

\* A request whose pipeline has not settled is being worked on, unless it was
\* cut short between two commits: nothing looks for such rows again.
UnsettledIsInHand ==
    \A r \in requests :
        r.job \in {"none", "queued"} =>
            \/ r.code \in cut
            \/ \E t \in tasks : t[1] = r.code
            \/ \E s \in Sessions : pc[s] = "queue" /\ code[s] = r.code

-----------------------------------------------------------------------------
(* The inductive invariant behind the four.                                *)

\* What a session holds of its message: the row it flushed, until the commit
\* puts the message among the captured ones.
MessageInHand(s) ==
    /\ s \in Uploads => pc[s] \in {"idle", "number", "row", "attach", "queue"}
    /\ pc[s] = "page" => s \in Pollers
    /\ s \notin Uploads /\ pc[s] \notin {"idle", "page"} => msg[s] \in Messages
    /\ email[s] => /\ s \notin Uploads /\ msg[s] \notin emails
                   /\ pc[s] \in {"number", "row", "attach"}
    /\ s \notin Uploads /\ pc[s] = "attach" => email[s]
    /\ s \notin Uploads /\ pc[s] = "queue" => msg[s] \in emails

\* What it holds of its code: read, then flushed where nobody has it.
CodeInHand(s) ==
    /\ try[s] < MaxAttempts
    /\ email[s] \/ pc[s] \in {"idle", "page", "look", "store"} => try[s] = 0
    /\ pc[s] \in {"row", "attach", "queue"} => code[s] \in Codes
    /\ pc[s] = "attach" => code[s] \notin TakenCodes

\* Codes start at 1, so that one with its padding is always there to count from.
CountsFromOne ==
    /\ requests # {} => 1 \in TakenCodes
    /\ \A s \in Sessions :
        requests = {} /\ (s \in Uploads \/ email[s]) =>
            try[s] = 0 /\ (pc[s] \in {"row", "attach"} => code[s] = 1)

\* What a poll has turned from is captured or raised.
PollInHand(p) ==
    \A m \in 1..msg[p] :
        \/ m \in emails \cup refused
        \/ pc[p] = "idle"
        \/ pc[p] # "page" /\ m = msg[p]

\* The two unique indexes: an open transaction has its key for itself.
KeysAreHeldOnce ==
    \A s, o \in Sessions :
        /\ email[s] /\ email[o] /\ msg[s] = msg[o] => s = o
        /\ pc[s] = "attach" /\ pc[o] = "attach" /\ code[s] = code[o] => s = o

\* Captured messages and the requests that name one are the same thing.
RowsAreMail ==
    /\ \A m \in emails : \E r \in requests : r.message = m
    /\ \A r \in requests : r.message # NoMessage => r.message \in emails
    /\ \A a, b \in requests :
        a.message = b.message /\ a.message # NoMessage => a = b

IntakeInv ==
    /\ TypeOK /\ CountsFromOne /\ KeysAreHeldOnce /\ RowsAreMail
    /\ \A s \in Sessions : MessageInHand(s) /\ CodeInHand(s)
    /\ \A p \in Pollers : PollInHand(p)
    /\ CodesAreUnique /\ NothingSkipped /\ UnsettledIsInHand

-----------------------------------------------------------------------------
\* Whatever webhooks do, a message is captured in the end unless capturing it
\* has raised.
MailIsCaptured ==
    \A m \in Messages : (m <= arrived) ~> (m \in emails \cup refused)

\* A job that is not cut short comes to an end.
JobSettles ==
    \A c \in Codes :
        (\E r \in requests : r.code = c /\ r.job = "queued") ~>
            (c \in cut \/ \E r \in requests : r.code = c /\ r.job = "settled")
=============================================================================
