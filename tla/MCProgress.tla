------------------------------ MODULE MCProgress ------------------------------
(***************************************************************************)
(* What must happen in the end, module by module on instances small enough *)
(* for a temporal check.  A behaviour runs the part chosen at the start,   *)
(* under the fairness of that part.                                        *)
(***************************************************************************)
EXTENDS MCDelivery

CONSTANTS MaxVisits, LastMessage

VARIABLES
    txn, hubJob, due, posts, hubPc, todo, cur, view, wrote, txWrite, seen,
    outcome, rollbacks, reopens,
    arrived, link, emails, requests, tasks, mailPc, msg, upto, email, code,
    try, refused, cut, mailFaults,
    request, doc, field, job, copy, pc, left, at, holder, visits, faults

hubVars == <<txn, hubJob, due, posts, hubPc, todo, cur, view, wrote, txWrite,
             seen, outcome, rollbacks, reopens>>
mailVars == <<arrived, link, emails, requests, tasks, mailPc, msg, upto, email,
              code, try, refused, cut, mailFaults>>
readingVars == <<request, doc, field, job, copy, pc, left, at, holder, visits, faults>>
vars == <<part, hubVars, mailVars, readingVars, deliveryVars, outwardVars>>

\* One replica whose queue is longer than one page of its sweep.
Hub == INSTANCE IntegrationHub
    WITH Txns <- {"t1"}, Targets <- {"sap", "dms"}, Configured <- {"sap", "dms"},
         MayDefer <- {"dms"}, Sweepers <- {"w1"}, Approvers <- {"a1"}, Admins <- {},
         MaxAttempts <- 3, BatchSize <- 1, MaxRollbacks <- MaxFaults, MaxReopens <- 0,
         job <- hubJob, pc <- hubPc

\* A webhook in one replica, the poller in the other.
Mail == INSTANCE MailIntake
    WITH Hooks <- {"h1"}, Pollers <- {"p1"}, Uploads <- {},
         HomeOf <- ("h1" :> "A") @@ ("p1" :> "B"),
         MaxAttempts <- 2, LastPadded <- 1, MaxUploads <- 0,
         pc <- mailPc, faults <- mailFaults

Reading == INSTANCE DocumentReading
    WITH Documents <- {"d1"}, WithField <- {"invoice"}, Unschemed <- {"tracker"},
         Machine <- {"m1"}, Reruns <- {"x1"}, People <- {"clerk"}

HubStep(A) == part = "hub" /\ A /\ UNCHANGED <<part, mailVars, readingVars, deliveryVars, outwardVars>>
MailStep(A) == part = "mail" /\ A /\ UNCHANGED <<part, hubVars, readingVars, deliveryVars, outwardVars>>
ReadingStep(A) == part = "reading" /\ A /\ UNCHANGED <<part, hubVars, mailVars, deliveryVars, outwardVars>>

Init ==
    /\ part \in {"hub", "mail", "reading", "purchase", "shipments", "reports"} \cup {"watch", "mirror"}
    /\ Hub!Init /\ Mail!Init /\ Reading!Init /\ DeliveryInit

Next ==
    \/ HubStep(Hub!Next)
    \/ MailStep(Mail!Next)
    \/ ReadingStep(Reading!Next)
    \/ DeliveryNext /\ UNCHANGED <<hubVars, mailVars, readingVars>>

\* The fairness each module states, of its own part.
Fairness ==
    /\ \A s \in {"w1", "a1"} : WF_vars(HubStep(Hub!Proceed(s)))
    /\ SF_vars(HubStep(Hub!BeginSweep("w1")))
    /\ \A j \in {"t1"} \X {"sap", "dms"} : WF_vars(HubStep(Hub!BackoffElapses(j)))
    /\ WF_vars(MailStep(Mail!Poll("p1")))
    /\ \A s \in {"h1", "p1"} : SF_vars(MailStep(Mail!Ingest(s)))
    /\ \A c \in 1..2, r \in {"A", "B"} :
        WF_vars(MailStep(<<c, r>> \in tasks /\ Mail!Settle(<<c, r>>)))
    /\ WF_vars(ReadingStep(Reading!Pipe))
    /\ \A s \in {"x1", "pipeline"} : SF_vars(ReadingStep(Reading!Read(s)))
    /\ WF_vars(ReadingStep(Reading!StartRerun("x1")))

Spec == Init /\ [][Next]_vars /\ Fairness /\ DeliveryFairness

-----------------------------------------------------------------------------
\* A queued posting is attempted until it succeeds, waits on a person, or has
\* failed for good.
QueuedJobSettles == part = "hub" => Hub!QueuedJobSettles

\* With nobody else writing, a trade whose jobs all succeed is committed.
ResolvedTradeCommits == part = "hub" => Hub!ResolvedTradeCommits

\* A message is captured in the end unless capturing it has raised.
MailIsCaptured == part = "mail" => Mail!MailIsCaptured

\* A job of the intake that is not cut short comes to an end.
JobSettles == part = "mail" => Mail!JobSettles

\* A pipeline settles its job unless the process is stopped under it.
PipelineSettles == part = "reading" => Reading!PipelineSettles

-----------------------------------------------------------------------------
\* What is queued for the hub settles, and a trade whose jobs do is committed.
PostingsSettle == QueuedJobSettles /\ ResolvedTradeCommits

\* A message is captured, its job ends, and so does the reading of its documents.
IntakeSettles == MailIsCaptured /\ JobSettles /\ PipelineSettles
=============================================================================
