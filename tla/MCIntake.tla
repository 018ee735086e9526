------------------------------- MODULE MCIntake -------------------------------
(***************************************************************************)
(* Small instances of the modules of the intake.  A behaviour runs one of  *)
(* them, the part chosen at the start, so that the state spaces add up     *)
(* instead of multiplying.                                                 *)
(***************************************************************************)
EXTENDS MCAccess

CONSTANTS MaxFaults, MaxVisits, LastMessage

ASSUME IntakeBounds == {MaxFaults, MaxVisits, LastMessage} \subseteq Nat

VARIABLES
    arrived, link, emails, requests, tasks, mailPc, msg, upto, email, code,
    try, refused, cut, mailFaults,
    request, doc, field, job, copy, pc, left, at, holder, visits, faults

\* A webhook and the poller of one replica, an upload in the other.
HomeOfSession == ("h1" :> "A") @@ ("p1" :> "A") @@ ("u1" :> "B")

\* Two messages and an upload.
Mail == INSTANCE MailIntake
    WITH Hooks <- {"h1"}, Pollers <- {"p1"}, Uploads <- {"u1"}, HomeOf <- HomeOfSession,
         MaxAttempts <- 2, LastPadded <- 1, MaxUploads <- 1, MaxFaults <- 0,
         pc <- mailPc, faults <- mailFaults

\* Two messages, restarts and calls that fail.
Failing == INSTANCE MailIntake
    WITH Hooks <- {"h1"}, Pollers <- {"p1"}, Uploads <- {"u1"}, HomeOf <- HomeOfSession,
         MaxAttempts <- 2, LastPadded <- 1, MaxUploads <- 0, MaxFaults <- MaxFaults + 1,
         pc <- mailPc, faults <- mailFaults

\* One message and an upload, restarts and calls that fail.
Portal == INSTANCE MailIntake
    WITH Hooks <- {"h1"}, Pollers <- {"p1"}, Uploads <- {"u1"}, HomeOf <- HomeOfSession,
         MaxAttempts <- 2, LastPadded <- 1, MaxUploads <- 1, LastMessage <- 1,
         pc <- mailPc, faults <- mailFaults

\* What the proofs of IntakeProofs ask of the constants.
ASSUME IntakeAssumption ==
    Mail!IntakeConstants /\ Failing!IntakeConstants /\ Portal!IntakeConstants

MailParts == {"mail", "failing", "portal"}

Reading == INSTANCE DocumentReading
    WITH Documents <- {"d1"}, WithField <- {"invoice"}, Unschemed <- {"tracker"},
         Machine <- {"m1"}, Reruns <- {"x1"}, People <- {"clerk"}

ASSUME ReadingAssumption == Reading!ReadingConstants

mailVars == <<arrived, link, emails, requests, tasks, mailPc, msg, upto, email,
              code, try, refused, cut, mailFaults>>
readingVars == <<request, doc, field, job, copy, pc, left, at, holder, visits, faults>>
intakeVars == <<mailVars, readingVars, accessVars>>

IntakeInit == Mail!Init /\ Reading!Init /\ AccessInit

IntakeNext ==
    \/ /\ UNCHANGED <<readingVars, accessVars>>
       /\ \/ part = "mail" /\ Mail!Next
          \/ part = "failing" /\ Failing!Next
          \/ part = "portal" /\ Portal!Next
    \/ part = "reading" /\ Reading!Next /\ UNCHANGED <<mailVars, accessVars>>
    \/ AccessNext /\ UNCHANGED <<mailVars, readingVars>>

-----------------------------------------------------------------------------
\* The types of the mail intake (MailIntake.TypeOK).
MailTypeOK ==
    CASE part = "mail" -> Mail!TypeOK
      [] part = "failing" -> Failing!TypeOK
      [] part = "portal" -> Portal!TypeOK
      [] OTHER -> TRUE

\* However webhooks, polls and uploads race, a message has one request.
OneRequestPerMessage == part \in MailParts => Mail!OneRequestPerMessage

\* No two requests share a code, whatever the sequence read before showed.
CodesAreUnique == part \in MailParts => Mail!CodesAreUnique

\* The delta link never passes a message nobody has tried to store.
NothingSkipped == part \in MailParts => Mail!NothingSkipped

\* A request nobody has processed is in the hands of some task.
UnsettledIsInHand == part \in MailParts => Mail!UnsettledIsInHand

\* The types of the reading of documents (DocumentReading.TypeOK).
ReadingTypeOK == part = "reading" => Reading!TypeOK

\* A document is never left as being read.
NoReadingLeftBehind == part = "reading" => Reading!NoReadingLeftBehind

\* The machine's first value of a field is never rewritten.
OriginalIsKept == Reading!OriginalIsKept

\* A reader that has seen a correction leaves it alone.
SeenCorrectionIsKept == Reading!SeenCorrectionIsKept

\* A successful pipeline shows every doubt it had.
DoubtsReachTheRequest == Reading!DoubtsReachTheRequest

\* A human decision outranks a re-run (document_service.py:157).  Not so when the
\* reader looked at the row before.
HumanValueStands == Reading!HumanValueStands
=============================================================================
