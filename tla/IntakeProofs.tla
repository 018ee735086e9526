------------------------------ MODULE IntakeProofs ------------------------------
(***************************************************************************)
(* Proofs about the intake.  First how messages become requests            *)
(* (MailIntake), for every number of messages, webhooks, pollers, uploads  *)
(* and replicas, and every bound on attempts and faults; then how the      *)
(* documents of a request are read and corrected (DocumentReading, here    *)
(* Papers), for any documents, values, re-extractions and people.          *)
(*                                                                         *)
(* The two share the names of a place and of a fault; a theorem speaks of  *)
(* one of them.                                                            *)
(***************************************************************************)
EXTENDS MailIntake, FiniteSetTheorems, WellFoundedInduction, TLAPS

CONSTANTS Documents, WithField, Unschemed, Machine, Reruns, People, MaxVisits

VARIABLES request, doc, field, job, copy, left, at, holder, visits

Papers == INSTANCE DocumentReading

\* A set of numbers with a bound has a greatest one.
LEMMA HasTop ==
  ASSUME NEW B \in Nat, NEW S \in SUBSET (0..B), S # {}
  PROVE  \E n \in S : \A k \in S : k <= n
<1> DEFINE T == {B - k : k \in S}
<1>1. \A k \in S : k \in 0..B /\ B - k \in Nat
  OBVIOUS
<1>2. T \subseteq Nat /\ T # {}
  BY <1>1
<1>3. IsWellFoundedOn(OpToRel(<, Nat), Nat)
  BY NatLessThanWellFounded
<1>4. PICK x \in T : \A y \in T : ~(<<y, x>> \in OpToRel(<, Nat))
  <2> HIDE DEF T
  <2> QED BY <1>2, <1>3, WFMin, Zenon
<1>5. \A y \in T : ~(y < x)
  BY <1>2, <1>4 DEF OpToRel
<1>6. PICK n \in S : x = B - n
  OBVIOUS
<1>7. \A k \in S : B - k \in T
  OBVIOUS
<1> HIDE DEF T
<1>8. \A k \in S : ~(B - k < B - n)
  BY <1>5, <1>6, <1>7
<1> QED
  BY <1>8

LEMMA TopFacts ==
  ASSUME NEW B \in Nat, NEW S \in SUBSET (0..B)
  PROVE  /\ Top(S) \in 0..B
         /\ S # {} => Top(S) \in S
<1>1. CASE S = {}
  BY <1>1 DEF Top
<1>2. CASE S # {}
  <2>1. \E n \in S : \A k \in S : k <= n
    BY <1>2, HasTop
  <2>2. Top(S) \in S
    BY <1>2, <2>1, Zenon DEF Top
  <2> QED BY <2>2
<1> QED BY <1>1, <1>2

LEMMA ConstantFacts ==
  ASSUME IntakeConstants
  PROVE  /\ LastMessage \in Nat /\ MaxUploads \in Nat /\ MaxFaults \in Nat
         /\ MaxAttempts \in Nat /\ MaxAttempts >= 1
         /\ LastPadded \in Nat /\ LastPadded >= 1
         /\ Hooks \cap Pollers = {} /\ Hooks \cap Uploads = {} /\ Pollers \cap Uploads = {}
BY DEF IntakeConstants

\* The code that is read is one there can be, and the first is 1.
LEMMA SequenceFacts ==
  ASSUME IntakeConstants, TypeOK, CountsFromOne,
         NEW s \in Sessions, try[s] < MaxAttempts
  PROVE  /\ NextSequence(s) \in Codes
         /\ requests = {} => NextSequence(s) = 1 + try[s]
<1> DEFINE padded == {c \in TakenCodes : c <= LastPadded}
<1>1. TakenCodes \subseteq Codes
  BY DEF TypeOK, TakenCodes, RequestRow
<1>2. try[s] \in 0..MaxAttempts /\ LastPadded \in Nat /\ LastPadded >= 1 /\ MaxAttempts \in Nat
  BY ConstantFacts DEF TypeOK
<1>3. CASE requests = {}
  <2>1. TakenCodes = {} /\ padded = {}
    BY <1>3 DEF TakenCodes
  <2>2. NextSequence(s) = 0 + 1 + try[s]
    BY <2>1 DEF NextSequence, Top
  <2> QED BY <1>2, <1>3, <2>2 DEF Codes
<1>4. CASE requests # {}
  <2>1. 1 \in padded
    BY <1>2, <1>4 DEF CountsFromOne
  <2>2. padded \in SUBSET (0..LastPadded)
    <3>1. \A c \in Codes : c \in Int /\ c >= 1
      BY <1>2 DEF Codes
    <3> SUFFICES ASSUME NEW c \in padded PROVE c \in 0..LastPadded
      OBVIOUS
    <3> QED BY <1>1, <1>2, <3>1
  <2>3. Top(padded) \in 0..LastPadded
    <3> HIDE DEF padded
    <3> QED BY <1>2, <2>2, TopFacts
  <2>4. NextSequence(s) = Top(padded) + 1 + try[s]
    BY <2>1 DEF NextSequence
  <2> DEFINE top == Top(padded)
  <2>5. top \in 0..LastPadded /\ NextSequence(s) = top + 1 + try[s]
    BY <2>3, <2>4
  <2>6. try[s] + 1 \in 1..MaxAttempts
    BY <1>2
  <2> HIDE DEF top
  <2>7. top + 1 + try[s] \in Codes
    BY <1>2, <2>5, <2>6 DEF Codes
  <2> QED BY <1>4, <2>5, <2>7
<1> QED BY <1>3, <1>4

-----------------------------------------------------------------------------
(* A step of one session that commits nothing.                             *)

OthersStay(s) ==
    \A o \in Sessions \ {s} :
        /\ pc'[o] = pc[o] /\ msg'[o] = msg[o] /\ email'[o] = email[o]
        /\ code'[o] = code[o] /\ try'[o] = try[o]

\* Such a step keeps the invariant where the session's own part is kept and it
\* takes no key another holds.
LEMMA SessionStep ==
  ASSUME IntakeInv, NEW s \in Sessions, TypeOK', OthersStay(s),
         UNCHANGED <<emails, requests, tasks, cut>>, refused \subseteq refused',
         MessageInHand(s)', CodeInHand(s)', s \in Pollers => PollInHand(s)',
         NothingSkipped', pc[s] # "queue",
         email'[s] => \A o \in Sessions \ {s} : ~(email[o] /\ msg[o] = msg'[s]),
         pc'[s] = "attach" =>
            \A o \in Sessions \ {s} : ~(pc[o] = "attach" /\ code[o] = code'[s]),
         requests = {} /\ (s \in Uploads \/ email'[s]) =>
            try'[s] = 0 /\ (pc'[s] \in {"row", "attach"} => code'[s] = 1)
  PROVE  IntakeInv'
<1>1. TakenCodes' = TakenCodes
  BY DEF TakenCodes
<1>2. CountsFromOne'
  BY <1>1 DEF IntakeInv, CountsFromOne, OthersStay
<1>3. KeysAreHeldOnce'
  BY DEF IntakeInv, KeysAreHeldOnce, OthersStay
<1>4. RowsAreMail' /\ CodesAreUnique'
  BY DEF IntakeInv, RowsAreMail, CodesAreUnique
<1>5. \A o \in Sessions : MessageInHand(o)'
  BY DEF IntakeInv, MessageInHand, OthersStay
<1>6. \A o \in Sessions : CodeInHand(o)'
  BY <1>1 DEF IntakeInv, CodeInHand, OthersStay
<1>7. \A p \in Pollers : PollInHand(p)'
  <2> SUFFICES ASSUME NEW p \in Pollers, p # s PROVE PollInHand(p)'
    OBVIOUS
  <2>1. pc'[p] = pc[p] /\ msg'[p] = msg[p]
    BY DEF OthersStay, Sessions
  <2> QED BY <2>1 DEF IntakeInv, PollInHand
<1>8. UnsettledIsInHand'
  BY DEF IntakeInv, UnsettledIsInHand, OthersStay
<1> QED
  BY <1>2, <1>3, <1>4, <1>5, <1>6, <1>7, <1>8 DEF IntakeInv

-----------------------------------------------------------------------------
(* The steps, one by one.                                                  *)

LEMMA SessionFacts ==
  ASSUME IntakeInv, IntakeConstants, NEW s \in Sessions
  PROVE  /\ msg[s] \in 0..LastMessage /\ upto[s] \in 0..LastMessage
         /\ try[s] \in 0..MaxAttempts
         /\ MessageInHand(s) /\ CodeInHand(s) /\ (s \in Pollers => PollInHand(s))
         /\ LastMessage \in Nat /\ MaxAttempts \in Nat /\ MaxAttempts >= 1
<1>1. TypeOK BY DEF IntakeInv
<1>2. msg[s] \in Messages \cup {NoMessage} /\ LastMessage \in Nat
  BY <1>1, ConstantFacts DEF TypeOK
<1>3. msg[s] \in 0..LastMessage
  BY <1>2 DEF Messages, NoMessage
<1> QED BY <1>1, <1>3, ConstantFacts DEF IntakeInv, TypeOK

LEMMA NotifyStep ==
  ASSUME IntakeInv, IntakeConstants, NEW h \in Hooks, Notify(h)
  PROVE  IntakeInv'
<1>1. h \in Sessions /\ h \notin Uploads /\ h \notin Pollers
  BY ConstantFacts DEF Sessions
<1>2. PICK m \in 1..arrived : msg' = [msg EXCEPT ![h] = m]
  BY DEF Notify
<1>3. m \in Messages
  BY <1>2, ConstantFacts DEF IntakeInv, TypeOK, Messages
<1>4. TypeOK'
  BY <1>1, <1>2, <1>3 DEF IntakeInv, TypeOK, Notify, Goto
<1>5. pc[h] = "idle" /\ pc'[h] = "look" /\ msg'[h] = m
  BY <1>1, <1>2 DEF Notify, Goto, IntakeInv, TypeOK
<1>6. OthersStay(h) /\ UNCHANGED <<emails, requests, tasks, cut, refused, email, code, try, link>>
  BY <1>2 DEF Notify, Goto, OthersStay, IntakeInv, TypeOK
<1>7. MessageInHand(h)' /\ CodeInHand(h)' /\ email[h] = FALSE
  BY <1>1, <1>3, <1>5, <1>6, SessionFacts DEF MessageInHand, CodeInHand, IntakeInv, TypeOK
<1>8. NothingSkipped'
  BY <1>6 DEF IntakeInv, NothingSkipped
<1> QED BY <1>1, <1>4, <1>5, <1>6, <1>7, <1>8, SessionStep

LEMMA StartPollStep ==
  ASSUME IntakeInv, IntakeConstants, NEW p \in Pollers, StartPoll(p)
  PROVE  IntakeInv'
<1>1. p \in Sessions /\ p \notin Uploads
  BY ConstantFacts DEF Sessions
<1>2. PICK from \in {link, 0} : msg' = [msg EXCEPT ![p] = from]
  BY DEF StartPoll
<1>3. from \in Messages \cup {NoMessage}
  BY <1>2, ConstantFacts DEF IntakeInv, TypeOK, Messages, NoMessage
<1>4. TypeOK'
  BY <1>1, <1>2, <1>3 DEF IntakeInv, TypeOK, StartPoll, Goto
<1>5. pc[p] = "idle" /\ pc'[p] = "page" /\ msg'[p] = from
  BY <1>1, <1>2 DEF StartPoll, Goto, IntakeInv, TypeOK
<1>6. OthersStay(p) /\ UNCHANGED <<emails, requests, tasks, cut, refused, email, code, try, link>>
  BY <1>2 DEF StartPoll, Goto, OthersStay, IntakeInv, TypeOK
<1>7. MessageInHand(p)' /\ CodeInHand(p)' /\ email[p] = FALSE
  BY <1>1, <1>5, <1>6, SessionFacts DEF MessageInHand, CodeInHand, IntakeInv, TypeOK
<1>8. NothingSkipped' /\ PollInHand(p)'
  BY <1>2, <1>5, <1>6 DEF IntakeInv, NothingSkipped, PollInHand
<1> QED BY <1>1, <1>4, <1>5, <1>6, <1>7, <1>8, SessionStep

LEMMA NextMessageStep ==
  ASSUME IntakeInv, IntakeConstants, NEW p \in Pollers, NextMessage(p)
  PROVE  IntakeInv'
<1>1. p \in Sessions /\ p \notin Uploads
  BY ConstantFacts DEF Sessions
<1>2. msg[p] + 1 \in Messages
  BY <1>1, SessionFacts DEF NextMessage, Messages
<1>3. TypeOK'
  BY <1>1, <1>2 DEF IntakeInv, TypeOK, NextMessage, Goto
<1>4. pc[p] = "page" /\ pc'[p] = "look" /\ msg'[p] = msg[p] + 1
  BY <1>1, <1>2 DEF NextMessage, Goto, IntakeInv, TypeOK
<1>5. OthersStay(p) /\ UNCHANGED <<emails, requests, tasks, cut, refused, email, code, try, link>>
  BY DEF NextMessage, Goto, OthersStay, IntakeInv, TypeOK
<1>6. MessageInHand(p)' /\ CodeInHand(p)' /\ email[p] = FALSE
  BY <1>1, <1>2, <1>4, <1>5, SessionFacts DEF MessageInHand, CodeInHand, IntakeInv, TypeOK
<1>7. NothingSkipped'
  BY <1>5 DEF IntakeInv, NothingSkipped
<1>8. PollInHand(p)'
  <2> SUFFICES ASSUME NEW m \in 1..(msg[p] + 1), m # msg[p] + 1 PROVE m \in emails \cup refused
    BY <1>4, <1>5 DEF PollInHand
  <2>1. msg[p] \in 0..LastMessage /\ LastMessage \in Nat
    BY <1>1, SessionFacts
  <2>2. m \in 1..msg[p]
    BY <2>1
  <2> QED BY <1>1, <1>4, <2>2, SessionFacts DEF PollInHand
<1> QED BY <1>1, <1>3, <1>4, <1>5, <1>6, <1>7, <1>8, SessionStep

LEMMA SaveLinkStep ==
  ASSUME IntakeInv, IntakeConstants, NEW p \in Pollers, SaveLink(p)
  PROVE  IntakeInv'
<1>1. p \in Sessions /\ p \notin Uploads
  BY ConstantFacts DEF Sessions
<1>2. TypeOK'
  BY <1>1, SessionFacts DEF IntakeInv, TypeOK, SaveLink, Goto
<1>3. pc[p] = "page" /\ pc'[p] = "idle" /\ msg'[p] = NoMessage /\ msg[p] >= upto[p]
  BY <1>1 DEF SaveLink, Goto, IntakeInv, TypeOK
<1>4. OthersStay(p) /\ UNCHANGED <<emails, requests, tasks, cut, refused, email, code, try>>
  BY DEF SaveLink, Goto, OthersStay, IntakeInv, TypeOK
<1>5. MessageInHand(p)' /\ CodeInHand(p)' /\ email[p] = FALSE
  BY <1>1, <1>3, <1>4, SessionFacts DEF MessageInHand, CodeInHand, IntakeInv, TypeOK
<1>6. NothingSkipped'
  <2> SUFFICES ASSUME NEW m \in 1..link' PROVE m \in emails \cup refused
    BY <1>4 DEF NothingSkipped
  <2>1. CASE link' = link
    BY <2>1 DEF NothingSkipped, IntakeInv
  <2>2. CASE link' = upto[p]
    <3>1. m \in 1..msg[p]
      BY <1>1, <1>3, <2>2, SessionFacts
    <3> QED BY <1>1, <1>3, <3>1, SessionFacts DEF PollInHand
  <2> QED BY <2>1, <2>2 DEF SaveLink
<1>7. PollInHand(p)'
  BY <1>3 DEF PollInHand
<1> QED BY <1>1, <1>2, <1>3, <1>4, <1>5, <1>6, <1>7, SessionStep

LEMMA LookStep ==
  ASSUME IntakeInv, IntakeConstants, NEW s \in Sessions, Look(s)
  PROVE  IntakeInv'
<1>1. TypeOK'
  BY DEF IntakeInv, TypeOK, Look, Goto, Done
<1>2. pc[s] = "look" /\ UNCHANGED <<emails, requests, tasks, cut, refused, msg, email, code, try, link>>
  BY DEF Look
<1>3. OthersStay(s)
  BY DEF Look, Goto, Done, OthersStay, IntakeInv, TypeOK
<1>4. s \notin Uploads /\ email[s] = FALSE /\ msg[s] \in Messages
  BY <1>2, SessionFacts DEF MessageInHand, IntakeInv, TypeOK
<1>5. \/ msg[s] \in emails /\ s \in Pollers /\ pc'[s] = "page"
      \/ msg[s] \in emails /\ s \notin Pollers /\ pc'[s] = "idle"
      \/ pc'[s] = "store"
  BY DEF Look, Goto, Done, IntakeInv, TypeOK
<1>6. MessageInHand(s)' /\ CodeInHand(s)'
  BY <1>2, <1>4, <1>5, SessionFacts DEF MessageInHand, CodeInHand
<1>7. NothingSkipped'
  BY <1>2 DEF IntakeInv, NothingSkipped
<1>8. s \in Pollers => PollInHand(s)'
  BY <1>2, <1>5, SessionFacts DEF PollInHand
<1> QED BY <1>1, <1>2, <1>3, <1>4, <1>5, <1>6, <1>7, <1>8, SessionStep

LEMMA FaultFacts ==
  ASSUME IntakeInv, IntakeConstants, Fault
  PROVE  faults' \in 0..MaxFaults
BY ConstantFacts DEF Fault, IntakeInv, TypeOK

\* What a rollback leaves of a session and of its message.
LEMMA RaiseFacts ==
  ASSUME IntakeInv, IntakeConstants, NEW s \in Sessions, Raise(s), UNCHANGED <<msg, emails>>,
         pc[s] \in {"store", "row", "attach"}
  PROVE  /\ OthersStay(s) /\ refused \subseteq refused' /\ refused' \subseteq Messages
         /\ email'[s] = FALSE /\ code'[s] = NoCode /\ try'[s] = 0
         /\ pc'[s] = (IF s \in Pollers THEN "page" ELSE "idle")
         /\ MessageInHand(s)' /\ CodeInHand(s)' /\ (s \in Pollers => PollInHand(s)')
         /\ pc' \in [Sessions -> {"idle", "page", "look", "store", "number",
                                  "row", "attach", "queue"}]
         /\ email' \in [Sessions -> BOOLEAN]
         /\ code' \in [Sessions -> Codes \cup {NoCode}]
         /\ try' \in [Sessions -> 0..MaxAttempts]
<1>1. OthersStay(s)
  BY DEF Raise, Forget, Done, Goto, OthersStay, IntakeInv, TypeOK
<1>2. /\ email'[s] = FALSE /\ code'[s] = NoCode /\ try'[s] = 0
      /\ pc'[s] = (IF s \in Pollers THEN "page" ELSE "idle")
  BY DEF Raise, Forget, Done, Goto, IntakeInv, TypeOK
<1>3. refused \subseteq refused' /\ refused' \subseteq Messages
  BY DEF Raise, IntakeInv, TypeOK
<1>4. MessageInHand(s)' /\ CodeInHand(s)'
  BY <1>2, ConstantFacts DEF MessageInHand, CodeInHand
<1>5. s \in Pollers => PollInHand(s)'
  <2> SUFFICES ASSUME s \in Pollers, NEW m \in 1..msg[s] PROVE m \in emails' \cup refused'
    BY DEF PollInHand
  <2>1. s \notin Uploads
    BY ConstantFacts
  <2>2. msg[s] \in Messages
    BY <2>1, SessionFacts DEF MessageInHand
  <2>3. NoMessage \notin Messages
    BY ConstantFacts DEF Messages, NoMessage
  <2>4. msg[s] \in refused'
    BY <2>2, <2>3 DEF Raise
  <2> QED BY <1>3, <2>4, SessionFacts DEF PollInHand
<1>6. 0 \in 0..MaxAttempts
  BY ConstantFacts
<1> QED BY <1>1, <1>2, <1>3, <1>4, <1>5, <1>6 DEF Raise, Forget, Done, Goto, IntakeInv, TypeOK

LEMMA InsertEmailStep ==
  ASSUME IntakeInv, IntakeConstants, NEW s \in Sessions, InsertEmail(s)
  PROVE  IntakeInv'
<1>1. pc[s] = "store" /\ UNCHANGED <<emails, requests, tasks, cut, msg, link, upto, arrived>>
  BY DEF InsertEmail
<1>2. s \notin Uploads /\ email[s] = FALSE /\ msg[s] \in Messages
  BY <1>1, SessionFacts DEF MessageInHand, IntakeInv, TypeOK
<1>3. refused \subseteq refused' => NothingSkipped'
  BY <1>1 DEF IntakeInv, NothingSkipped
<1>4. CASE Raise(s) /\ Fault
  <2>1. TypeOK'
    BY <1>1, <1>4, RaiseFacts, FaultFacts DEF IntakeInv, TypeOK
  <2> QED BY <1>1, <1>2, <1>3, <1>4, <2>1, RaiseFacts, SessionStep
<1>5. CASE /\ msg[s] \in emails /\ Done(s) /\ Forget(s)
           /\ UNCHANGED <<refused, faults>>
  <2>1. OthersStay(s)
    BY <1>1, <1>5 DEF Forget, Done, Goto, OthersStay, IntakeInv, TypeOK
  <2>2. /\ email'[s] = FALSE /\ code'[s] = NoCode /\ try'[s] = 0
        /\ pc'[s] = (IF s \in Pollers THEN "page" ELSE "idle")
    BY <1>5 DEF Forget, Done, Goto, IntakeInv, TypeOK
  <2>3. 0 \in 0..MaxAttempts
    BY ConstantFacts
  <2>4. TypeOK'
    BY <1>1, <1>5, <2>3 DEF Forget, Done, Goto, IntakeInv, TypeOK
  <2>5. MessageInHand(s)' /\ CodeInHand(s)'
    BY <2>2, ConstantFacts DEF MessageInHand, CodeInHand
  <2>6. s \in Pollers => PollInHand(s)'
    BY <1>1, <1>5, SessionFacts DEF PollInHand
  <2> QED BY <1>1, <1>2, <1>3, <1>5, <2>1, <2>2, <2>4, <2>5, <2>6, SessionStep
<1>6. CASE /\ \A o \in Sessions \ {s} : ~(email[o] /\ msg[o] = msg[s])
           /\ msg[s] \notin emails /\ email' = [email EXCEPT ![s] = TRUE]
           /\ Goto(s, "number") /\ UNCHANGED <<code, try, refused, faults>>
  <2>1. OthersStay(s)
    BY <1>1, <1>6 DEF Goto, OthersStay, IntakeInv, TypeOK
  <2>2. email'[s] = TRUE /\ pc'[s] = "number"
    BY <1>6 DEF Goto, IntakeInv, TypeOK
  <2>3. TypeOK'
    BY <1>1, <1>6 DEF Goto, IntakeInv, TypeOK
  <2>4. MessageInHand(s)' /\ CodeInHand(s)' /\ try'[s] = 0
    BY <1>1, <1>2, <1>6, <2>2, SessionFacts DEF MessageInHand, CodeInHand
  <2>5. s \in Pollers => PollInHand(s)'
    BY <1>1, <1>6, <2>2, SessionFacts DEF PollInHand
  <2> QED BY <1>1, <1>2, <1>3, <1>6, <2>1, <2>2, <2>3, <2>4, <2>5, SessionStep
<1> QED BY <1>4, <1>5, <1>6 DEF InsertEmail

LEMMA UploadStep ==
  ASSUME IntakeInv, IntakeConstants, NEW u \in Uploads, Upload(u)
  PROVE  IntakeInv'
<1>1. u \in Sessions /\ u \notin Pollers
  BY ConstantFacts DEF Sessions
<1>2. pc[u] = "idle" /\ UNCHANGED <<emails, requests, tasks, cut, refused, msg, email, code, try, link>>
  BY DEF Upload
<1>3. TypeOK' /\ OthersStay(u) /\ pc'[u] = "number"
  BY <1>1 DEF Upload, Goto, OthersStay, IntakeInv, TypeOK
<1>4. MessageInHand(u)' /\ CodeInHand(u)' /\ email[u] = FALSE /\ try[u] = 0
  BY <1>1, <1>2, <1>3, SessionFacts DEF MessageInHand, CodeInHand, IntakeInv, TypeOK
<1>5. NothingSkipped'
  BY <1>2 DEF IntakeInv, NothingSkipped
<1> QED BY <1>1, <1>2, <1>3, <1>4, <1>5, SessionStep

LEMMA ReadSequenceStep ==
  ASSUME IntakeInv, IntakeConstants, NEW s \in Sessions, ReadSequence(s)
  PROVE  IntakeInv'
<1>1. pc[s] = "number" /\ UNCHANGED <<emails, requests, tasks, cut, refused, msg, email, try, link>>
  BY DEF ReadSequence
<1>2. NextSequence(s) \in Codes /\ (requests = {} => NextSequence(s) = 1 + try[s])
  BY SequenceFacts, SessionFacts DEF IntakeInv, CodeInHand
<1>3. TypeOK'
  BY <1>2 DEF ReadSequence, Goto, IntakeInv, TypeOK
<1>4. OthersStay(s) /\ pc'[s] = "row" /\ code'[s] = NextSequence(s)
  BY <1>2 DEF ReadSequence, Goto, OthersStay, IntakeInv, TypeOK
<1>5. MessageInHand(s)' /\ CodeInHand(s)'
  BY <1>1, <1>2, <1>4, SessionFacts DEF MessageInHand, CodeInHand
<1>6. NothingSkipped'
  BY <1>1 DEF IntakeInv, NothingSkipped
<1>7. s \in Pollers => PollInHand(s)'
  BY <1>1, <1>4, SessionFacts DEF PollInHand
<1>8. requests = {} /\ (s \in Uploads \/ email'[s]) => try'[s] = 0 /\ code'[s] = 1
  BY <1>1, <1>2, <1>4 DEF IntakeInv, CountsFromOne
<1>9. email'[s] => \A o \in Sessions \ {s} : ~(email[o] /\ msg[o] = msg'[s])
  BY <1>1 DEF IntakeInv, KeysAreHeldOnce
<1> QED BY <1>1, <1>3, <1>4, <1>5, <1>6, <1>7, <1>8, <1>9, SessionStep

LEMMA InsertRequestStep ==
  ASSUME IntakeInv, IntakeConstants, NEW s \in Sessions, InsertRequest(s)
  PROVE  IntakeInv'
<1>1. /\ pc[s] = "row"
      /\ UNCHANGED <<emails, requests, tasks, cut, msg, link, upto, arrived, faults>>
      /\ \A o \in Sessions \ {s} : Flushed(o) # code[s]
  BY DEF InsertRequest
<1>2. code[s] \in Codes /\ (s \notin Uploads => msg[s] \in Messages)
  BY <1>1, SessionFacts DEF MessageInHand, CodeInHand
<1>3. refused \subseteq refused' => NothingSkipped'
  BY <1>1 DEF IntakeInv, NothingSkipped
<1>4. \A o \in Sessions \ {s} : ~(email[s] /\ email[o] /\ msg[o] = msg[s])
  BY DEF IntakeInv, KeysAreHeldOnce
<1>5. requests = {} /\ (s \in Uploads \/ email[s]) => try[s] = 0 /\ code[s] = 1
  BY <1>1 DEF IntakeInv, CountsFromOne
<1>6. CASE ~Refused(s) /\ Goto(s, "attach") /\ UNCHANGED <<email, code, try, refused>>
  <2>1. TypeOK' /\ OthersStay(s) /\ pc'[s] = "attach"
    BY <1>1, <1>6 DEF Goto, OthersStay, IntakeInv, TypeOK
  <2>2. MessageInHand(s)' /\ CodeInHand(s)'
    BY <1>1, <1>6, <2>1, SessionFacts DEF MessageInHand, CodeInHand, Refused, TakenCodes
  <2>3. s \in Pollers => PollInHand(s)'
    BY <1>1, <1>6, <2>1, SessionFacts DEF PollInHand
  <2>4. \A o \in Sessions \ {s} : ~(pc[o] = "attach" /\ code[o] = code[s])
    BY <1>1 DEF Flushed
  <2> QED BY <1>1, <1>3, <1>4, <1>5, <1>6, <2>1, <2>2, <2>3, <2>4, SessionStep
<1>7. CASE /\ Refused(s) /\ try[s] + 1 < MaxAttempts
           /\ try' = [try EXCEPT ![s] = @ + 1]
           /\ email' = [email EXCEPT ![s] = FALSE]
           /\ code' = [code EXCEPT ![s] = NoCode]
           /\ Goto(s, "number") /\ UNCHANGED refused
  <2>1. try[s] + 1 \in 0..MaxAttempts
    BY <1>7, SessionFacts
  <2>2. TypeOK' /\ OthersStay(s)
    BY <1>1, <1>7, <2>1 DEF Goto, OthersStay, IntakeInv, TypeOK
  <2>3. pc'[s] = "number" /\ email'[s] = FALSE /\ try'[s] = try[s] + 1
    BY <1>7 DEF Goto, IntakeInv, TypeOK
  <2>4. MessageInHand(s)' /\ CodeInHand(s)'
    BY <1>1, <1>2, <1>7, <2>3, SessionFacts DEF MessageInHand, CodeInHand
  <2>5. s \in Pollers => PollInHand(s)'
    BY <1>1, <1>7, <2>3, SessionFacts DEF PollInHand
  <2>6. ~(requests = {} /\ s \in Uploads)
    BY <1>7, <1>5 DEF Refused, TakenCodes
  <2> QED BY <1>1, <1>3, <1>7, <2>2, <2>3, <2>4, <2>5, <2>6, SessionStep
<1>8. CASE Refused(s) /\ Raise(s)
  <2>1. TypeOK'
    BY <1>1, <1>8, RaiseFacts DEF IntakeInv, TypeOK
  <2> QED BY <1>1, <1>3, <1>8, <2>1, RaiseFacts, SessionStep
<1> QED BY <1>6, <1>7, <1>8 DEF InsertRequest

-----------------------------------------------------------------------------
(* The commit of a message with its request.                               *)

LEMMA CommitStep ==
  ASSUME IntakeInv, IntakeConstants, NEW s \in Sessions, Commit(s)
  PROVE  IntakeInv'
<1>1. pc[s] = "attach" /\ UNCHANGED <<tasks, cut, msg, link, upto, arrived>>
  BY DEF Commit
<1>2. /\ code[s] \in Codes /\ code[s] \notin TakenCodes
      /\ s \notin Uploads => email[s] /\ msg[s] \in Messages /\ msg[s] \notin emails
      /\ s \in Uploads => email[s] = FALSE
  BY <1>1, SessionFacts DEF MessageInHand, CodeInHand, IntakeInv, TypeOK
<1>3. CASE Raise(s) /\ Fault /\ UNCHANGED <<emails, requests>>
  <2>1. NothingSkipped'
    BY <1>1, <1>3, RaiseFacts DEF IntakeInv, NothingSkipped
  <2>2. TypeOK'
    BY <1>1, <1>3, RaiseFacts, FaultFacts DEF IntakeInv, TypeOK
  <2> QED BY <1>1, <1>2, <1>3, <2>1, <2>2, RaiseFacts, SessionStep
<1>4. CASE /\ emails' = emails \cup (IF email[s] THEN {msg[s]} ELSE {})
           /\ requests' = requests \cup {NewRow(s)}
           /\ email' = [email EXCEPT ![s] = FALSE] /\ Goto(s, "queue")
           /\ UNCHANGED <<code, try, refused, faults>>
  <2> DEFINE row == NewRow(s)
  <2>1. /\ row \in RequestRow /\ row.code = code[s] /\ row.job = "none"
        /\ row.message = (IF s \in Uploads THEN NoMessage ELSE msg[s])
    BY <1>2 DEF NewRow, RequestRow
  <2> HIDE DEF row
  <2>2. requests' = requests \cup {row} /\ TakenCodes' = TakenCodes \cup {code[s]}
    BY <1>4, <2>1 DEF TakenCodes, row
  <2>3. OthersStay(s) /\ pc'[s] = "queue" /\ email'[s] = FALSE
    BY <1>1, <1>4 DEF Goto, OthersStay, IntakeInv, TypeOK
  <2>4. emails' = emails \cup (IF s \in Uploads THEN {} ELSE {msg[s]})
    BY <1>2, <1>4
  <2>5. NoMessage \notin Messages /\ emails \subseteq Messages
    BY ConstantFacts DEF Messages, NoMessage, IntakeInv, TypeOK
  <2>6. TypeOK'
    BY <1>1, <1>2, <1>4, <2>1, <2>2, <2>4 DEF Goto, IntakeInv, TypeOK
  <2>7. CountsFromOne'
    <3>1. 1 \in TakenCodes'
      <4>1. CASE requests = {}
        BY <1>1, <1>2, <2>2, <4>1 DEF IntakeInv, CountsFromOne
      <4>2. CASE requests # {}
        BY <2>2, <4>2 DEF IntakeInv, CountsFromOne
      <4> QED BY <4>1, <4>2
    <3> QED BY <2>2, <3>1 DEF CountsFromOne
  <2>8. KeysAreHeldOnce'
    BY <1>1, <1>4, <2>3 DEF IntakeInv, KeysAreHeldOnce, OthersStay
  <2>9. RowsAreMail'
    BY <1>2, <2>1, <2>2, <2>4, <2>5 DEF IntakeInv, RowsAreMail
  <2>10. CodesAreUnique'
    BY <1>2, <2>1, <2>2 DEF IntakeInv, CodesAreUnique, TakenCodes
  <2>11. ASSUME NEW o \in Sessions PROVE MessageInHand(o)' /\ CodeInHand(o)'
    <3>1. CASE o = s
      BY <1>1, <1>2, <1>4, <2>3, <2>4, <3>1, SessionFacts DEF MessageInHand, CodeInHand
    <3>2. CASE o # s
      <4>1. email[o] => (email[s] /\ msg[o] # msg[s]) \/ s \in Uploads
        BY <1>2, <3>2 DEF IntakeInv, KeysAreHeldOnce
      <4>2. pc[o] = "attach" => code[o] # code[s]
        BY <1>1, <3>2 DEF IntakeInv, KeysAreHeldOnce
      <4>3. /\ pc'[o] = pc[o] /\ msg'[o] = msg[o] /\ email'[o] = email[o]
            /\ code'[o] = code[o] /\ try'[o] = try[o]
        BY <2>3, <3>2 DEF OthersStay
      <4>4. MessageInHand(o)'
        BY <2>4, <3>2, <4>1, <4>3 DEF IntakeInv, MessageInHand
      <4>5. CodeInHand(o)'
        BY <2>2, <3>2, <4>2, <4>3 DEF IntakeInv, CodeInHand
      <4> QED BY <4>4, <4>5
    <3> QED BY <3>1, <3>2
  <2>12. ASSUME NEW p \in Pollers PROVE PollInHand(p)'
    <3>1. p \in Sessions /\ p \notin Uploads /\ PollInHand(p)
      BY ConstantFacts DEF Sessions, IntakeInv
    <3>2. pc[p] = "idle" => pc'[p] = "idle"
      BY <1>1, <2>3, <3>1 DEF OthersStay
    <3>3. pc[p] # "page" => pc'[p] # "page"
      BY <1>1, <2>3, <3>1 DEF OthersStay
    <3> QED BY <1>1, <1>4, <2>4, <3>1, <3>2, <3>3 DEF PollInHand
  <2>13. NothingSkipped'
    BY <1>1, <1>4, <2>4 DEF IntakeInv, NothingSkipped
  <2>14. UnsettledIsInHand'
    BY <1>1, <1>4, <2>1, <2>2, <2>3 DEF IntakeInv, UnsettledIsInHand, OthersStay
  <2> QED BY <2>6, <2>7, <2>8, <2>9, <2>10, <2>11, <2>12, <2>13, <2>14 DEF IntakeInv
<1> QED BY <1>3, <1>4 DEF Commit

-----------------------------------------------------------------------------
(* The jobs, the mailbox and the restarts.                                 *)

\* WithJob moves jobs: the rows keep their code and their message.
LEMMA WithJobFacts ==
  ASSUME IntakeInv, NEW c, NEW before, NEW after \in {"none", "queued", "settled"},
         WithJob(c, before, after), UNCHANGED emails
  PROVE  /\ requests' \subseteq RequestRow /\ TakenCodes' = TakenCodes
         /\ requests' = {} <=> requests = {}
         /\ RowsAreMail' /\ CodesAreUnique'
         /\ \A a \in requests' : \E r \in requests :
              /\ a.code = r.code
              /\ \/ r.code = c /\ r.job \in before /\ a.job = after
                 \/ ~(r.code = c /\ r.job \in before) /\ a = r
<1> DEFINE image(r) == IF r.code = c /\ r.job \in before THEN [r EXCEPT !.job = after] ELSE r
<1>1. requests' = {image(r) : r \in requests}
  BY DEF WithJob
<1>2. requests \subseteq RequestRow
  BY DEF IntakeInv, TypeOK
<1>3. ASSUME NEW r \in requests
      PROVE  /\ image(r) \in RequestRow
             /\ image(r).code = r.code /\ image(r).message = r.message
             /\ \/ r.code = c /\ r.job \in before /\ image(r).job = after
                \/ ~(r.code = c /\ r.job \in before) /\ image(r) = r
  BY <1>2 DEF RequestRow
<1> HIDE DEF image
<1>4. requests' \subseteq RequestRow /\ (requests' = {} <=> requests = {})
  BY <1>1, <1>3
<1>5. TakenCodes' = TakenCodes
  BY <1>1, <1>3 DEF TakenCodes
<1>6. RowsAreMail'
  <2>1. \A m \in emails : \E a \in requests' : a.message = m
    BY <1>1, <1>3 DEF IntakeInv, RowsAreMail
  <2>2. \A a \in requests' : a.message # NoMessage => a.message \in emails
    BY <1>1, <1>3 DEF IntakeInv, RowsAreMail
  <2>3. \A a, b \in requests' : a.message = b.message /\ a.message # NoMessage => a = b
    BY <1>1, <1>3 DEF IntakeInv, RowsAreMail
  <2> QED BY <2>1, <2>2, <2>3 DEF RowsAreMail
<1>7. CodesAreUnique'
  BY <1>1, <1>3 DEF IntakeInv, CodesAreUnique
<1>8. ASSUME NEW a \in requests'
      PROVE  \E r \in requests :
              /\ a.code = r.code
              /\ \/ r.code = c /\ r.job \in before /\ a.job = after
                 \/ ~(r.code = c /\ r.job \in before) /\ a = r
  BY <1>1, <1>3
<1> QED BY <1>4, <1>5, <1>6, <1>7, <1>8

LEMMA QueueStep ==
  ASSUME IntakeInv, IntakeConstants, NEW s \in Sessions, Queue(s)
  PROVE  IntakeInv'
<1>1. /\ pc[s] = "queue" /\ Done(s) /\ Forget(s)
      /\ UNCHANGED <<arrived, link, emails, msg, upto>>
  BY DEF Queue
<1>2. /\ code[s] \in Codes /\ email[s] = FALSE
      /\ s \notin Uploads => msg[s] \in emails
  BY <1>1, SessionFacts DEF MessageInHand, CodeInHand, IntakeInv, TypeOK
<1>3. /\ email'[s] = FALSE /\ code'[s] = NoCode /\ try'[s] = 0
      /\ pc'[s] = (IF s \in Pollers THEN "page" ELSE "idle")
  BY <1>1 DEF Forget, Done, Goto, IntakeInv, TypeOK
<1>4. OthersStay(s)
  BY <1>1 DEF Forget, Done, Goto, OthersStay, IntakeInv, TypeOK
<1>5. 0 \in 0..MaxAttempts /\ NoMessage \notin Messages /\ HomeOf[s] \in Replicas
  BY ConstantFacts DEF NoMessage, Messages, Replicas
<1>6. /\ pc' \in [Sessions -> {"idle", "page", "look", "store", "number",
                                "row", "attach", "queue"}]
      /\ email' \in [Sessions -> BOOLEAN]
      /\ code' \in [Sessions -> Codes \cup {NoCode}]
      /\ try' \in [Sessions -> 0..MaxAttempts]
  BY <1>1, <1>5 DEF Forget, Done, Goto, IntakeInv, TypeOK
<1>7. /\ requests' \subseteq RequestRow /\ TakenCodes' = TakenCodes
      /\ requests' = {} <=> requests = {}
      /\ RowsAreMail' /\ CodesAreUnique'
      /\ tasks' \subseteq Codes \X Replicas /\ cut \subseteq cut' /\ cut' \subseteq Codes
      /\ refused \subseteq refused' /\ refused' \subseteq Messages /\ faults' \in 0..MaxFaults
      /\ UnsettledIsInHand'
  <2>1. CASE /\ WithJob(code[s], {"none"}, "queued")
             /\ tasks' = tasks \cup {<<code[s], HomeOf[s]>>}
             /\ UNCHANGED <<refused, cut, faults>>
    <3>1. \A a \in requests' : \E r \in requests :
            /\ a.code = r.code
            /\ \/ r.code = code[s] /\ r.job \in {"none"} /\ a.job = "queued"
               \/ ~(r.code = code[s] /\ r.job \in {"none"}) /\ a = r
      BY <1>1, <2>1, WithJobFacts
    <3>2. ASSUME NEW a \in requests', a.job \in {"none", "queued"}
          PROVE  \/ a.code \in cut'
                 \/ \E t \in tasks' : t[1] = a.code
                 \/ \E o \in Sessions : pc'[o] = "queue" /\ code'[o] = a.code
      <4>1. PICK r \in requests : a.code = r.code /\ r.job \in {"none", "queued"}
        BY <3>1, <3>2
      <4>2. CASE a.code = code[s]
        <5>1. <<code[s], HomeOf[s]>> \in tasks'
          BY <2>1
        <5> QED BY <4>2, <5>1
      <4>3. CASE a.code # code[s]
        <5>1. \/ r.code \in cut
              \/ \E t \in tasks : t[1] = r.code
              \/ \E o \in Sessions : pc[o] = "queue" /\ code[o] = r.code
          BY <4>1 DEF IntakeInv, UnsettledIsInHand
        <5> QED BY <1>4, <2>1, <4>1, <4>3, <5>1 DEF OthersStay
      <4> QED BY <4>2, <4>3
    <3>3. UnsettledIsInHand'
      BY <3>2 DEF UnsettledIsInHand
    <3>4. tasks' \subseteq Codes \X Replicas
      BY <1>2, <1>5, <2>1 DEF IntakeInv, TypeOK
    <3> QED BY <1>1, <2>1, <3>3, <3>4, WithJobFacts DEF IntakeInv, TypeOK
  <2>2. CASE /\ Fault /\ cut' = cut \cup {code[s]}
             /\ refused' = refused \cup ({msg[s]} \ {NoMessage})
             /\ UNCHANGED <<requests, tasks>>
    <3>1. UnsettledIsInHand'
      BY <1>4, <2>2 DEF IntakeInv, UnsettledIsInHand, OthersStay
    <3>2. RowsAreMail' /\ CodesAreUnique' /\ TakenCodes' = TakenCodes
      BY <1>1, <2>2 DEF IntakeInv, RowsAreMail, CodesAreUnique, TakenCodes
    <3>3. refused' \subseteq Messages /\ cut' \subseteq Codes
      BY <1>2, <2>2 DEF IntakeInv, TypeOK
    <3> QED BY <2>2, <3>1, <3>2, <3>3, FaultFacts DEF IntakeInv, TypeOK
  <2> QED BY <2>1, <2>2 DEF Queue
<1>8. TypeOK'
  BY <1>1, <1>6, <1>7 DEF IntakeInv, TypeOK
<1>9. CountsFromOne' /\ KeysAreHeldOnce'
  BY <1>1, <1>3, <1>4, <1>7 DEF IntakeInv, CountsFromOne, KeysAreHeldOnce, OthersStay
<1>10. ASSUME NEW o \in Sessions PROVE MessageInHand(o)' /\ CodeInHand(o)'
  <2>1. CASE o = s
    BY <1>1, <1>3, <2>1, ConstantFacts DEF MessageInHand, CodeInHand
  <2>2. CASE o # s
    BY <1>1, <1>4, <1>7, <2>2 DEF IntakeInv, MessageInHand, CodeInHand, OthersStay
  <2> QED BY <2>1, <2>2
<1>11. ASSUME NEW p \in Pollers PROVE PollInHand(p)'
  <2>1. p \in Sessions /\ p \notin Uploads /\ PollInHand(p)
    BY ConstantFacts DEF Sessions, IntakeInv
  <2>2. CASE p = s
    BY <1>1, <1>2, <1>7, <2>1, <2>2 DEF PollInHand
  <2>3. CASE p # s
    BY <1>1, <1>4, <1>7, <2>1, <2>3 DEF PollInHand, OthersStay
  <2> QED BY <2>2, <2>3
<1>12. NothingSkipped'
  BY <1>1, <1>7 DEF IntakeInv, NothingSkipped
<1> QED BY <1>7, <1>8, <1>9, <1>10, <1>11, <1>12 DEF IntakeInv

\* Nothing of any session changes, and the rest only grows.
LEMMA SessionsKept ==
  ASSUME IntakeInv, TypeOK', UNCHANGED <<link, emails, work, refused>>,
         TakenCodes' = TakenCodes, requests' = {} <=> requests = {},
         RowsAreMail', CodesAreUnique', UnsettledIsInHand'
  PROVE  IntakeInv'
<1>1. CountsFromOne' /\ KeysAreHeldOnce'
  BY DEF IntakeInv, CountsFromOne, KeysAreHeldOnce, work
<1>2. \A s \in Sessions : MessageInHand(s)' /\ CodeInHand(s)'
  BY DEF IntakeInv, MessageInHand, CodeInHand, work
<1>3. \A p \in Pollers : PollInHand(p)'
  BY DEF IntakeInv, PollInHand, work
<1>4. NothingSkipped'
  BY DEF IntakeInv, NothingSkipped
<1> QED BY <1>1, <1>2, <1>3, <1>4 DEF IntakeInv

LEMMA ArriveStep ==
  ASSUME IntakeInv, IntakeConstants, Arrive
  PROVE  IntakeInv'
<1>1. TypeOK'
  BY ConstantFacts DEF Arrive, IntakeInv, TypeOK, work
<1>2. RowsAreMail' /\ CodesAreUnique' /\ UnsettledIsInHand' /\ TakenCodes' = TakenCodes
  BY DEF Arrive, IntakeInv, RowsAreMail, CodesAreUnique, UnsettledIsInHand, TakenCodes, work
<1> QED BY <1>1, <1>2, SessionsKept DEF Arrive

LEMMA SettleStep ==
  ASSUME IntakeInv, NEW t \in tasks, Settle(t)
  PROVE  IntakeInv'
<1>1. /\ WithJob(t[1], {"queued"}, "settled") /\ tasks' = tasks \ {t}
      /\ UNCHANGED <<arrived, link, emails, work, refused, cut, faults>>
  BY DEF Settle
<1>2. PICK q \in requests : q.code = t[1] /\ q.job = "queued"
  BY DEF Settle
<1>3. /\ requests' \subseteq RequestRow /\ TakenCodes' = TakenCodes
      /\ requests' = {} <=> requests = {}
      /\ RowsAreMail' /\ CodesAreUnique'
      /\ \A a \in requests' : \E r \in requests :
           /\ a.code = r.code
           /\ \/ r.code = t[1] /\ r.job \in {"queued"} /\ a.job = "settled"
              \/ ~(r.code = t[1] /\ r.job \in {"queued"}) /\ a = r
  BY <1>1, WithJobFacts
<1>4. TypeOK'
  BY <1>1, <1>3 DEF IntakeInv, TypeOK, work
<1>5. ASSUME NEW a \in requests', a.job \in {"none", "queued"}
      PROVE  \/ a.code \in cut
             \/ \E k \in tasks \ {t} : k[1] = a.code
             \/ \E s \in Sessions : pc[s] = "queue" /\ code[s] = a.code
  <2>1. PICK r \in requests : a = r /\ ~(r.code = t[1] /\ r.job = "queued")
    BY <1>3, <1>5
  <2>2. a.code # t[1]
    BY <1>2, <2>1 DEF IntakeInv, CodesAreUnique
  <2> QED BY <1>5, <2>1, <2>2 DEF IntakeInv, UnsettledIsInHand
<1>6. UnsettledIsInHand'
  BY <1>1, <1>5 DEF UnsettledIsInHand, work
<1> QED BY <1>1, <1>3, <1>4, <1>6, SessionsKept

LEMMA CrashStep ==
  ASSUME IntakeInv, IntakeConstants, NEW r \in Replicas, Crash(r)
  PROVE  IntakeInv'
<1> DEFINE here == {s \in Sessions : HomeOf[s] = r}
           lost == {t \in tasks : t[2] = r}
<1>1. /\ Fault /\ tasks' = tasks \ lost
      /\ cut' = cut \cup {t[1] : t \in lost}
                    \cup {code[s] : s \in {o \in here : pc[o] = "queue"}}
      /\ UNCHANGED <<arrived, link, emails, requests, upto, refused>>
  BY DEF Crash
<1>2. \A s \in here : /\ pc'[s] = "idle" /\ msg'[s] = NoMessage /\ email'[s] = FALSE
                      /\ code'[s] = NoCode /\ try'[s] = 0
  BY DEF Crash
<1>3. \A s \in Sessions \ here : /\ pc'[s] = pc[s] /\ msg'[s] = msg[s]
                                 /\ email'[s] = email[s] /\ code'[s] = code[s]
                                 /\ try'[s] = try[s]
  BY DEF Crash
<1>4. /\ pc' \in [Sessions -> {"idle", "page", "look", "store", "number",
                                "row", "attach", "queue"}]
      /\ msg' \in [Sessions -> Messages \cup {NoMessage}]
      /\ email' \in [Sessions -> BOOLEAN]
      /\ code' \in [Sessions -> Codes \cup {NoCode}]
      /\ try' \in [Sessions -> 0..MaxAttempts]
  <2>1. 0 \in 0..MaxAttempts
    BY ConstantFacts
  <2> QED BY <2>1 DEF Crash, IntakeInv, TypeOK
<1>5. cut' \subseteq Codes
  <2>1. \A t \in lost : t[1] \in Codes
    BY DEF IntakeInv, TypeOK
  <2>2. \A s \in Sessions : pc[s] = "queue" => code[s] \in Codes
    BY DEF IntakeInv, CodeInHand
  <2>3. cut \subseteq Codes
    BY DEF IntakeInv, TypeOK
  <2> QED BY <1>1, <2>1, <2>2, <2>3
<1>6. TypeOK'
  BY <1>1, <1>4, <1>5, FaultFacts DEF IntakeInv, TypeOK
<1> HIDE DEF here
<1>7. CountsFromOne' /\ KeysAreHeldOnce' /\ TakenCodes' = TakenCodes
  <2>1. TakenCodes' = TakenCodes
    BY <1>1 DEF TakenCodes
  <2>2. CountsFromOne'
    BY <1>1, <1>2, <1>3, <2>1 DEF IntakeInv, CountsFromOne
  <2>3. KeysAreHeldOnce'
    BY <1>2, <1>3 DEF IntakeInv, KeysAreHeldOnce
  <2> QED BY <2>1, <2>2, <2>3
<1>8. RowsAreMail' /\ CodesAreUnique' /\ NothingSkipped'
  BY <1>1 DEF IntakeInv, RowsAreMail, CodesAreUnique, NothingSkipped
<1>9. ASSUME NEW s \in Sessions PROVE MessageInHand(s)' /\ CodeInHand(s)'
  <2>1. CASE s \in here
    BY <1>2, <2>1, ConstantFacts DEF MessageInHand, CodeInHand
  <2>2. CASE s \notin here
    BY <1>1, <1>3, <1>7, <2>2 DEF IntakeInv, MessageInHand, CodeInHand
  <2> QED BY <2>1, <2>2
<1>10. ASSUME NEW p \in Pollers PROVE PollInHand(p)'
  <2>1. p \in Sessions /\ PollInHand(p)
    BY DEF Sessions, IntakeInv
  <2> QED BY <1>1, <1>2, <1>3, <2>1 DEF PollInHand
<1>11. UnsettledIsInHand'
  <2> SUFFICES ASSUME NEW a \in requests, a.job \in {"none", "queued"}
               PROVE  \/ a.code \in cut'
                      \/ \E t \in tasks' : t[1] = a.code
                      \/ \E s \in Sessions : pc'[s] = "queue" /\ code'[s] = a.code
    BY <1>1 DEF UnsettledIsInHand
  <2>1. \/ a.code \in cut
        \/ \E t \in tasks : t[1] = a.code
        \/ \E s \in Sessions : pc[s] = "queue" /\ code[s] = a.code
    BY DEF IntakeInv, UnsettledIsInHand
  <2>2. CASE \E t \in tasks : t[1] = a.code
    <3>1. PICK t \in tasks : t[1] = a.code
      BY <2>2
    <3>2. t \in lost \/ t \in tasks'
      BY <1>1
    <3> QED BY <1>1, <3>1, <3>2
  <2>3. CASE \E s \in Sessions : pc[s] = "queue" /\ code[s] = a.code
    BY <1>1, <1>3, <2>3
  <2> QED BY <1>1, <2>1, <2>2, <2>3
<1> QED BY <1>6, <1>7, <1>8, <1>9, <1>10, <1>11 DEF IntakeInv

-----------------------------------------------------------------------------
(* The invariant of the specification, and what follows from it.           *)

LEMMA InitHolds ==
  ASSUME IntakeConstants, Init
  PROVE  IntakeInv
<1>1. 0 \in 0..MaxAttempts /\ 0 \in 0..LastMessage /\ 0 \in 0..MaxFaults /\ 0 < MaxAttempts
  BY ConstantFacts
<1>2. TypeOK
  BY <1>1 DEF Init, TypeOK
<1>3. CountsFromOne /\ KeysAreHeldOnce /\ RowsAreMail
  BY DEF Init, CountsFromOne, KeysAreHeldOnce, RowsAreMail
<1>4. \A s \in Sessions : MessageInHand(s) /\ CodeInHand(s)
  BY <1>1 DEF Init, MessageInHand, CodeInHand
<1>5. \A p \in Pollers : PollInHand(p)
  BY DEF Init, PollInHand, Sessions
<1>6. CodesAreUnique /\ NothingSkipped /\ UnsettledIsInHand
  BY DEF Init, CodesAreUnique, NothingSkipped, UnsettledIsInHand
<1> QED BY <1>2, <1>3, <1>4, <1>5, <1>6 DEF IntakeInv

LEMMA NextHolds ==
  ASSUME IntakeInv, IntakeConstants, [Next]_vars
  PROVE  IntakeInv'
<1>1. CASE UNCHANGED vars
  <2>1. TypeOK'
    BY <1>1 DEF vars, IntakeInv, TypeOK
  <2>2. /\ RowsAreMail' /\ CodesAreUnique' /\ UnsettledIsInHand'
        /\ TakenCodes' = TakenCodes /\ UNCHANGED <<link, emails, work, refused, requests>>
    BY <1>1 DEF vars, work, IntakeInv, RowsAreMail, CodesAreUnique, UnsettledIsInHand, TakenCodes
  <2> QED BY <2>1, <2>2, SessionsKept
<1>2. CASE Arrive
  BY <1>2, ArriveStep
<1>3. ASSUME NEW h \in Hooks, Notify(h) PROVE IntakeInv'
  BY <1>3, NotifyStep
<1>4. ASSUME NEW p \in Pollers, Poll(p) PROVE IntakeInv'
  BY <1>4, StartPollStep, NextMessageStep, SaveLinkStep DEF Poll
<1>5. ASSUME NEW u \in Uploads, Upload(u) PROVE IntakeInv'
  BY <1>5, UploadStep
<1>6. ASSUME NEW s \in Sessions, Ingest(s) PROVE IntakeInv'
  BY <1>6, LookStep, InsertEmailStep, ReadSequenceStep, InsertRequestStep, CommitStep,
     QueueStep DEF Ingest
<1>7. ASSUME NEW t \in tasks, Settle(t) PROVE IntakeInv'
  BY <1>7, SettleStep
<1>8. ASSUME NEW r \in Replicas, Crash(r) PROVE IntakeInv'
  BY <1>8, CrashStep
<1> QED BY <1>1, <1>2, <1>3, <1>4, <1>5, <1>6, <1>7, <1>8 DEF Next

\* The inductive invariant of the intake.
THEOREM IntakeIsInvariant ==
  ASSUME IntakeConstants
  PROVE  Spec => []IntakeInv
<1>1. Init => IntakeInv
  BY InitHolds
<1>2. IntakeInv /\ [Next]_vars => IntakeInv'
  BY NextHolds
<1> QED BY <1>1, <1>2, PTL DEF Spec

\* Every variable of the intake keeps its type; in particular no code beyond
\* the last attempt at the last padded one is ever asked for.
THEOREM IntakeTypes ==
  ASSUME IntakeConstants
  PROVE  Spec => []TypeOK
<1>1. IntakeInv => TypeOK
  BY DEF IntakeInv
<1> QED BY <1>1, IntakeIsInvariant, PTL

\* However many webhooks, pollers and restarts meet the same message, it has one
\* request once it is captured and none before (ingest_message).
THEOREM MessageHasOneRequest ==
  ASSUME IntakeConstants
  PROVE  Spec => []OneRequestPerMessage
<1>1. IntakeInv => OneRequestPerMessage
  <2> SUFFICES ASSUME IntakeInv, NEW m \in Messages
               PROVE  Cardinality(RowsOf(m)) = (IF m \in emails THEN 1 ELSE 0)
    BY DEF OneRequestPerMessage
  <2>1. m # NoMessage
    BY ConstantFacts DEF Messages, NoMessage
  <2>2. CASE m \in emails
    <3>1. PICK r \in requests : r.message = m
      BY <2>2 DEF IntakeInv, RowsAreMail
    <3>2. RowsOf(m) = {r}
      BY <2>1, <3>1 DEF IntakeInv, RowsAreMail, RowsOf
    <3> QED BY <2>2, <3>2, FS_Singleton
  <2>3. CASE m \notin emails
    <3>1. RowsOf(m) = {}
      BY <2>1, <2>3 DEF IntakeInv, RowsAreMail, RowsOf
    <3> QED BY <2>3, <3>1, FS_EmptySet
  <2> QED BY <2>2, <2>3
<1> QED BY <1>1, IntakeIsInvariant, PTL

\* No two requests share a code, whatever the sequence read before showed
\* (create_request).
THEOREM RequestCodesAreUnique ==
  ASSUME IntakeConstants
  PROVE  Spec => []CodesAreUnique
<1>1. IntakeInv => CodesAreUnique
  BY DEF IntakeInv
<1> QED BY <1>1, IntakeIsInvariant, PTL

\* The delta link never passes a message nobody has tried to capture, however
\* many pollers save theirs and wherever they are stopped (mailbox_worker.py).
THEOREM LinkSkipsNothing ==
  ASSUME IntakeConstants
  PROVE  Spec => []NothingSkipped
<1>1. IntakeInv => NothingSkipped
  BY DEF IntakeInv
<1> QED BY <1>1, IntakeIsInvariant, PTL

\* A request whose pipeline has not settled is in the hands of a task or of the
\* session that starts one, or is known to have been cut short.
THEOREM RequestIsInHand ==
  ASSUME IntakeConstants
  PROVE  Spec => []UnsettledIsInHand
<1>1. IntakeInv => UnsettledIsInHand
  BY DEF IntakeInv
<1> QED BY <1>1, IntakeIsInvariant, PTL

-----------------------------------------------------------------------------
(* What an UPDATE writes.                                                  *)

LEMMA ChangedField ==
    ASSUME NEW row \in Papers!FieldRow, NEW before \in Papers!FieldRow,
           NEW after \in Papers!FieldRow
    PROVE  /\ Papers!Changed(row, before, after) \in Papers!FieldRow
           /\ Papers!Changed(row, before, after) =
                [present |-> IF before.present = after.present THEN row.present ELSE after.present,
                 value |-> IF before.value = after.value THEN row.value ELSE after.value,
                 byHand |-> IF before.byHand = after.byHand THEN row.byHand ELSE after.byHand,
                 original |-> IF before.original = after.original THEN row.original ELSE after.original]
<1>1. DOMAIN row = {"present", "value", "byHand", "original"}
  BY DEF Papers!FieldRow
<1>2. Papers!Changed(row, before, after) =
        [present |-> IF before.present = after.present THEN row.present ELSE after.present,
         value |-> IF before.value = after.value THEN row.value ELSE after.value,
         byHand |-> IF before.byHand = after.byHand THEN row.byHand ELSE after.byHand,
         original |-> IF before.original = after.original THEN row.original ELSE after.original]
  BY <1>1 DEF Papers!Changed
<1> QED BY <1>2 DEF Papers!FieldRow

LEMMA ChangedDocument ==
    ASSUME NEW row \in Papers!DocumentRow, NEW before \in Papers!DocumentRow,
           NEW after \in Papers!DocumentRow
    PROVE  /\ Papers!Changed(row, before, after) \in Papers!DocumentRow
           /\ Papers!Changed(row, before, after).status =
                IF before.status = after.status THEN row.status ELSE after.status
<1>1. DOMAIN row = {"status", "type", "review", "confirmed", "kinds", "kindsByHand"}
  BY DEF Papers!DocumentRow
<1>2. Papers!Changed(row, before, after) =
        [status |-> IF before.status = after.status THEN row.status ELSE after.status,
         type |-> IF before.type = after.type THEN row.type ELSE after.type,
         review |-> IF before.review = after.review THEN row.review ELSE after.review,
         confirmed |-> IF before.confirmed = after.confirmed THEN row.confirmed ELSE after.confirmed,
         kinds |-> IF before.kinds = after.kinds THEN row.kinds ELSE after.kinds,
         kindsByHand |-> IF before.kindsByHand = after.kindsByHand THEN row.kindsByHand
                         ELSE after.kindsByHand]
  BY <1>1 DEF Papers!Changed
<1> QED BY <1>2 DEF Papers!DocumentRow

LEMMA ChangedRequest ==
    ASSUME NEW row \in Papers!RequestRow, NEW before \in Papers!RequestRow,
           NEW after \in Papers!RequestRow
    PROVE  /\ Papers!Changed(row, before, after) \in Papers!RequestRow
           /\ Papers!Changed(row, before, after).review =
                IF before.review = after.review THEN row.review ELSE after.review
           /\ Papers!Changed(row, before, after).overridden =
                IF before.overridden = after.overridden THEN row.overridden ELSE after.overridden
<1>1. DOMAIN row = {"status", "review", "overridden"}
  BY DEF Papers!RequestRow
<1>2. Papers!Changed(row, before, after) =
        [status |-> IF before.status = after.status THEN row.status ELSE after.status,
         review |-> IF before.review = after.review THEN row.review ELSE after.review,
         overridden |-> IF before.overridden = after.overridden THEN row.overridden
                        ELSE after.overridden]
  BY <1>1 DEF Papers!Changed
<1> QED BY <1>2 DEF Papers!RequestRow

-----------------------------------------------------------------------------
(* What sessions keep.                                                     *)

\* A copy whose fields are sound.
Fine(c) == c \in Papers!Copy /\ \A d \in Documents : Papers!Sound(c.field[d])

LEMMA BlankIsFine ==
    /\ Fine(Papers!Blank)
    /\ ~Papers!Blank.request.review /\ ~Papers!Blank.request.overridden
    /\ Papers!NewRequest \in Papers!RequestRow /\ Papers!NewDocument \in Papers!DocumentRow
       /\ Papers!NoRow \in Papers!FieldRow
    /\ Papers!Sound(Papers!NoRow)
<1>1. Papers!NewRequest \in Papers!RequestRow /\ Papers!NewDocument \in Papers!DocumentRow
      /\ Papers!NoRow \in Papers!FieldRow
  BY DEF Papers!NewRequest, Papers!RequestRow, Papers!NewDocument, Papers!DocumentRow,
       Papers!NoRow, Papers!FieldRow
<1>2. Papers!Sound(Papers!NoRow)
  BY DEF Papers!Sound, Papers!NoRow
<1>3. Papers!Blank \in Papers!Copy
  BY <1>1 DEF Papers!Blank, Papers!Copy
<1>4. \A d \in Documents : Papers!Blank.field[d] = Papers!NoRow
  BY DEF Papers!Blank
<1>5. ~Papers!Blank.request.review /\ ~Papers!Blank.request.overridden
  BY DEF Papers!Blank, Papers!NewRequest
<1> QED BY <1>1, <1>2, <1>3, <1>4, <1>5 DEF Fine

LEMMA DatabaseIsFine ==
    ASSUME Papers!ReadingInv PROVE Fine(Papers!Database)
BY DEF Papers!ReadingInv, Papers!TypeOK, Papers!FieldsAreSound, Fine, Papers!Database, Papers!Copy

LEMMA SomeDocumentIsOne ==
    ASSUME Papers!ReadingConstants PROVE Papers!SomeDocument \in Documents
BY DEF Papers!ReadingConstants, Papers!SomeDocument

Places == {"idle", "start", "classify", "begin", "read", "reconcile", "open", "queued"}

\* The rows a session goes on with are sound, and do not know of an override
\* that is not stored.
Carried(c) == Fine(c) /\ (c.request.overridden => request'.overridden)

LEMMA Holding ==
    ASSUME Papers!ReadingInv, NEW s \in Papers!Sessions, NEW c, Carried(c),
           copy' = [copy EXCEPT ![s] = c],
           request.overridden => request'.overridden, \A d \in Documents : Papers!Sound(field'[d]),
           s = Papers!Pipeline => (c.request.review => request'.review \/ request'.overridden),
           request.review \/ request.overridden => request'.review \/ request'.overridden \/ s = Papers!Pipeline
    PROVE  copy' \in [Papers!Sessions -> Papers!Copy] /\ Papers!FieldsAreSound'
           /\ Papers!DoubtStands'
<1>1. copy \in [Papers!Sessions -> Papers!Copy] /\ c \in Papers!Copy
  BY DEF Papers!ReadingInv, Papers!TypeOK, Carried, Fine
<1>2. /\ copy' \in [Papers!Sessions -> Papers!Copy] /\ copy'[s] = c
      /\ \A o \in Papers!Sessions : o # s => copy'[o] = copy[o]
  BY <1>1
<1>3. Papers!FieldsAreSound'
  <2> SUFFICES ASSUME NEW d \in Documents,
         NEW o \in Papers!Sessions PROVE Papers!Sound(copy'[o].field[d])
    BY DEF Papers!FieldsAreSound, Papers!Sound
  <2>1. CASE o = s
    BY <1>2, <2>1 DEF Carried, Fine
  <2>2. CASE o # s
    BY <1>2, <2>2 DEF Papers!ReadingInv, Papers!FieldsAreSound
  <2> QED BY <2>1, <2>2
<1>4. \A o \in Papers!Sessions : copy'[o].request.overridden => request'.overridden
  BY <1>2 DEF Carried, Papers!ReadingInv, Papers!DoubtStands
<1>5. copy'[Papers!Pipeline].request.review => request'.review \/ request'.overridden
  <2>1. Papers!Pipeline \in Papers!Sessions
    BY DEF Papers!Sessions, Papers!Readers
  <2>2. CASE s = Papers!Pipeline
    BY <1>2, <2>2
  <2>3. CASE s # Papers!Pipeline
    BY <1>2, <2>1, <2>3 DEF Papers!ReadingInv, Papers!DoubtStands
  <2> QED BY <2>2, <2>3
<1> QED BY <1>2, <1>3, <1>4, <1>5 DEF Papers!DoubtStands

LEMMA Keeping ==
    ASSUME Papers!ReadingInv, NEW s \in Papers!Sessions, NEW c, Carried(c), NEW place \in Places,
           Papers!Keep(s, c, place), request.overridden => request'.overridden,
           \A d \in Documents : Papers!Sound(field'[d]),
           s = Papers!Pipeline => (c.request.review => request'.review \/ request'.overridden),
           request.review \/ request.overridden => request'.review \/ request'.overridden \/ s = Papers!Pipeline
    PROVE  /\ copy' \in [Papers!Sessions -> Papers!Copy] /\ pc' \in [Papers!Sessions -> Places]
           /\ Papers!FieldsAreSound' /\ Papers!DoubtStands'
<1>1. copy' = [copy EXCEPT ![s] = c] /\ pc' = [pc EXCEPT ![s] = place]
  BY DEF Papers!Keep
<1>2. pc \in [Papers!Sessions -> Places]
  BY DEF Papers!ReadingInv, Papers!TypeOK, Places
<1>3. pc' \in [Papers!Sessions -> Places]
  BY <1>1, <1>2
<1> QED BY <1>1, <1>3, Holding

LEMMA Ending ==
    ASSUME Papers!ReadingConstants, Papers!ReadingInv, NEW s \in Papers!Sessions, Papers!End(s)
    PROVE  /\ Carried(Papers!Blank) /\ Papers!Keep(s, Papers!Blank, "idle") /\ "idle" \in Places
           /\ ~Papers!Blank.request.review
           /\ left' \in [Papers!Sessions -> SUBSET Documents]
              /\ at' \in [Papers!Sessions -> Documents]
<1>1. left \in [Papers!Sessions -> SUBSET Documents] /\ at \in [Papers!Sessions -> Documents]
  BY DEF Papers!ReadingInv, Papers!TypeOK
<1>2. left' \in [Papers!Sessions -> SUBSET Documents] /\ at' \in [Papers!Sessions -> Documents]
  BY <1>1, SomeDocumentIsOne DEF Papers!End
<1> QED BY <1>2, BlankIsFine DEF Papers!End, Carried, Places

\* What a reader sees of a field.
LEMMA SeenIsSound ==
    ASSUME Papers!ReadingInv, NEW s \in Papers!Sessions, NEW d \in Documents
    PROVE  /\ Papers!FieldSeen(s, d) \in Papers!FieldRow /\ Papers!Sound(Papers!FieldSeen(s, d))
           /\ field[d] \in Papers!FieldRow /\ Papers!Sound(field[d])
              /\ copy[s].field[d] \in Papers!FieldRow
           /\ Papers!FieldSeen(s, d).present = field[d].present
           /\ ~field[d].present => Papers!FieldSeen(s, d) = field[d]
<1>1. field[d] \in Papers!FieldRow /\ Papers!Sound(field[d])
  BY DEF Papers!ReadingInv, Papers!TypeOK, Papers!FieldsAreSound
<1>2. copy[s].field[d] \in Papers!FieldRow /\ Papers!Sound(copy[s].field[d])
  BY DEF Papers!ReadingInv, Papers!TypeOK, Papers!FieldsAreSound, Papers!Copy
<1>3. {field[d].present, copy[s].field[d].present} \subseteq BOOLEAN
  BY <1>1, <1>2 DEF Papers!FieldRow
<1> QED BY <1>1, <1>2, <1>3 DEF Papers!FieldSeen

\* Every reading keeps the first value of the row and what a person fixed.
LEMMA ReadFieldIsSound ==
    ASSUME Papers!ReadingConstants, NEW row \in Papers!FieldRow, Papers!Sound(row), NEW type,
           NEW v \in Machine
    PROVE  LET read == Papers!ReadField(row, type, v)
           IN /\ read \in Papers!FieldRow /\ Papers!Sound(read)
              /\ row.byHand => read = row
              /\ row.present /\ read.present => read.original = row.original /\ read.byHand = row.byHand
<1>1. Papers!NoRow \in Papers!FieldRow /\ Papers!Sound(Papers!NoRow)
  BY BlankIsFine
<1>2. /\ Papers!Reading(v) \in Papers!FieldRow /\ Papers!Reading(v).present
         /\ Papers!Reading(v).original # Papers!NoValue
      /\ ~Papers!Reading(v).byHand
  BY DEF Papers!Reading, Papers!FieldRow, Papers!ReadingConstants
<1>3. Papers!Sound(Papers!Reading(v))
  BY <1>2 DEF Papers!Sound
<1>4. /\ [row EXCEPT !.value = v] \in Papers!FieldRow
      /\ [row EXCEPT !.value = v].original = row.original
      /\ [row EXCEPT !.value = v].byHand = row.byHand
      /\ [row EXCEPT !.value = v].present = row.present
  BY DEF Papers!FieldRow
<1>5. row.present => Papers!Sound([row EXCEPT !.value = v])
  BY <1>4 DEF Papers!Sound
<1>6. CASE row.byHand
  BY <1>6 DEF Papers!ReadField
<1>7. CASE ~row.byHand /\ type \notin WithField
  BY <1>1, <1>7 DEF Papers!ReadField, Papers!NoRow
<1>8. CASE ~row.byHand /\ type \in WithField /\ row.present
  BY <1>4, <1>5, <1>8 DEF Papers!ReadField
<1>9. CASE ~row.byHand /\ type \in WithField /\ ~row.present
  BY <1>2, <1>3, <1>9 DEF Papers!ReadField
<1> QED BY <1>6, <1>7, <1>8, <1>9

LEMMA OutcomeIsSound ==
    ASSUME Papers!ReadingConstants, Papers!ReadingInv, NEW s \in Papers!Readers,
           NEW d \in Documents, NEW classify \in BOOLEAN,
           NEW o \in Papers!Outcomes(s, d, classify)
    PROVE  /\ o.row \in Papers!DocumentRow /\ o.row.status \in {"failed", "completed"}
           /\ o.field \in Papers!FieldRow /\ Papers!Sound(o.field)
           /\ Papers!FieldSeen(s, d).byHand => o.field = Papers!FieldSeen(s, d)
           /\ field[d].present /\ o.field.present =>
                 o.field.original = Papers!FieldSeen(s, d).original
                 /\ o.field.byHand = Papers!FieldSeen(s, d).byHand
           /\ o.field.present
              /\ ~field[d].present => o.field.byHand \/ o.field.original # Papers!NoValue
<1> DEFINE row == copy[s].doc[d]
           old == Papers!FieldSeen(s, d)
           typed == IF classify THEN {Papers!Classified(row, a) : a \in Papers!Answers} ELSE {row}
<1>1. s \in Papers!Sessions
  BY DEF Papers!Sessions
<1>2. row \in Papers!DocumentRow
  BY <1>1 DEF Papers!ReadingInv, Papers!TypeOK, Papers!Copy
<1>3. old \in Papers!FieldRow /\ Papers!Sound(old) /\ old.present = field[d].present
  BY <1>1, SeenIsSound
<1>4. \A t \in typed : t \in Papers!DocumentRow
  <2> SUFFICES ASSUME NEW a \in Papers!Answers PROVE Papers!Classified(row,
         a) \in Papers!DocumentRow
    BY <1>2
  <2>1. a.type \in Papers!Types /\ a.doubtful \in BOOLEAN
    BY DEF Papers!Answers
  <2> QED BY <1>2, <2>1 DEF Papers!Classified, Papers!DocumentRow
<1>5. \A t \in Papers!DocumentRow : Papers!Failed(t) \in Papers!DocumentRow
      /\ Papers!Failed(t).status = "failed"
  BY DEF Papers!Failed, Papers!DocumentRow
<1>6. \A t \in Papers!DocumentRow, b \in BOOLEAN :
          Papers!Completed(t, b) \in Papers!DocumentRow
          /\ Papers!Completed(t, b).status = "completed"
  BY DEF Papers!Completed, Papers!DocumentRow
<1>7. \/ \E t \in typed \cup {row} : o = [row |-> Papers!Failed(t), field |-> old]
      \/ \E t \in typed, v \in Machine, b \in BOOLEAN :
            o = [row |-> Papers!Completed(t, b), field |-> Papers!ReadField(old, t.type, v)]
  BY DEF Papers!Outcomes
<1> HIDE DEF row, old, typed
<1>8. ASSUME NEW t \in typed \cup {row}, o = [row |-> Papers!Failed(t), field |-> old]
      PROVE  /\ o.row \in Papers!DocumentRow /\ o.row.status \in {"failed", "completed"}
             /\ o.field = old
  BY <1>2, <1>4, <1>5, <1>8
<1>9. ASSUME NEW t \in typed, NEW v \in Machine, NEW b \in BOOLEAN,
             o = [row |-> Papers!Completed(t, b), field |-> Papers!ReadField(old, t.type, v)]
      PROVE  /\ o.row \in Papers!DocumentRow /\ o.row.status \in {"failed", "completed"}
             /\ o.field \in Papers!FieldRow /\ Papers!Sound(o.field)
             /\ old.byHand => o.field = old
             /\ old.present /\ o.field.present =>
                   o.field.original = old.original /\ o.field.byHand = old.byHand
  <2>1. o.row = Papers!Completed(t, b) /\ o.field = Papers!ReadField(old, t.type, v)
    BY <1>9
  <2>2. t \in Papers!DocumentRow
    BY <1>4
  <2> QED BY <1>3, <1>6, <2>1, <2>2, ReadFieldIsSound
<1>10. /\ o.row \in Papers!DocumentRow /\ o.row.status \in {"failed", "completed"}
       /\ o.field \in Papers!FieldRow /\ Papers!Sound(o.field)
       /\ old.byHand => o.field = old
       /\ old.present /\ o.field.present => o.field.original = old.original /\ o.field.byHand = old.byHand
  BY <1>3, <1>7, <1>8, <1>9
<1> QED BY <1>3, <1>10 DEF old, Papers!Sound, Papers!FieldRow

\* What is written of it.
LEMMA WrittenIsSound ==
    ASSUME Papers!ReadingConstants, Papers!ReadingInv, NEW s \in Papers!Readers,
           NEW d \in Documents, NEW classify \in BOOLEAN,
           NEW o \in Papers!Outcomes(s, d, classify)
    PROVE  LET w == Papers!FieldWritten(s, d, o.field)
           IN /\ w \in Papers!FieldRow /\ Papers!Sound(w)
              /\ Papers!FieldSeen(s, d).byHand => w = field[d]
              /\ field[d].present /\ w.present => w.original = field[d].original
<1> DEFINE seen == Papers!FieldSeen(s, d)
           w == Papers!FieldWritten(s, d, o.field)
<1>1. /\ seen \in Papers!FieldRow /\ Papers!Sound(seen) /\ field[d] \in Papers!FieldRow
         /\ Papers!Sound(field[d])
      /\ seen.present = field[d].present /\ (~field[d].present => seen = field[d])
  BY SeenIsSound DEF Papers!Sessions
<1>2. /\ o.field \in Papers!FieldRow /\ Papers!Sound(o.field) /\ (seen.byHand => o.field = seen)
      /\ field[d].present /\ o.field.present =>
           o.field.original = seen.original /\ o.field.byHand = seen.byHand
  BY OutcomeIsSound
<1>3. CASE o.field.present /\ field[d].present
  <2>1. w = Papers!Changed(field[d], seen, o.field)
    BY <1>3 DEF Papers!FieldWritten
  <2>2. /\ w \in Papers!FieldRow
        /\ w.present /\ w.original = field[d].original /\ w.byHand = field[d].byHand
        /\ o.field = seen => w = field[d]
    <3> HIDE DEF w, seen
    <3>1. w = [present |-> IF seen.present = o.field.present THEN field[d].present ELSE o.field.present,
               value |-> IF seen.value = o.field.value THEN field[d].value ELSE o.field.value,
               byHand |-> IF seen.byHand = o.field.byHand THEN field[d].byHand ELSE o.field.byHand,
               original |-> IF seen.original = o.field.original THEN field[d].original
                            ELSE o.field.original]
          /\ w \in Papers!FieldRow
      BY <1>1, <1>2, <2>1, ChangedField
    <3>2. w.present /\ w.original = field[d].original /\ w.byHand = field[d].byHand
      BY <1>2, <1>3, <3>1
    <3>3. o.field = seen => w.value = field[d].value /\ w.present = field[d].present
      BY <3>1
    <3>4. o.field = seen => w = field[d]
      BY <1>1, <3>1, <3>2, <3>3 DEF Papers!FieldRow
    <3> QED BY <3>1, <3>2, <3>4
  <2>3. Papers!Sound(w)
    BY <1>1, <1>3, <2>2 DEF Papers!Sound
  <2> QED BY <1>2, <2>2, <2>3
<1>4. CASE ~(o.field.present /\ field[d].present)
  <2>1. w = o.field
    BY <1>4 DEF Papers!FieldWritten
  <2>2. seen.byHand => w = field[d]
    <3> SUFFICES ASSUME seen.byHand PROVE w = field[d]
      OBVIOUS
    <3>1. seen.present
      BY <1>1 DEF Papers!Sound, Papers!NoRow
    <3>2. o.field = seen
      BY <1>2
    <3> QED BY <1>1, <1>4, <2>1, <3>1, <3>2
  <2> QED BY <1>2, <1>4, <2>1, <2>2
<1> QED BY <1>3, <1>4

-----------------------------------------------------------------------------
(* Every step keeps the invariant.                                         *)

\* What a step leaves of the rest.
LEMMA InvariantFromParts ==
    ASSUME request' \in Papers!RequestRow, doc' \in [Documents -> Papers!DocumentRow],
           field' \in [Documents -> Papers!FieldRow], job' \in {"queued", "completed", "failed"},
           copy' \in [Papers!Sessions -> Papers!Copy], pc' \in [Papers!Sessions -> Places],
           left' \in [Papers!Sessions -> SUBSET Documents], at' \in [Papers!Sessions -> Documents],
           holder' \in [Documents -> Papers!Readers \cup {Papers!Nobody}],
           visits' \in 0..MaxVisits, faults' \in 0..MaxFaults,
           Papers!FieldsAreSound', Papers!NobodySeesAReading', Papers!DoubtStands'
    PROVE  Papers!ReadingInv'
BY DEF Papers!ReadingInv, Papers!TypeOK, Places

\* What the invariant says of the committed rows and of one session.
LEMMA RowsAreTyped ==
    ASSUME Papers!ReadingInv, NEW s \in Papers!Sessions
    PROVE  /\ request \in Papers!RequestRow /\ doc \in [Documents -> Papers!DocumentRow]
           /\ field \in [Documents -> Papers!FieldRow]
              /\ \A d \in Documents : Papers!Sound(field[d])
           /\ \A d \in Documents : doc[d].status # "processing"
           /\ job \in {"queued", "completed", "failed"}
           /\ left \in [Papers!Sessions -> SUBSET Documents]
              /\ at \in [Papers!Sessions -> Documents]
           /\ holder \in [Documents -> Papers!Readers \cup {Papers!Nobody}]
           /\ visits \in 0..MaxVisits /\ faults \in 0..MaxFaults
           /\ Fine(copy[s]) /\ copy[s].request \in Papers!RequestRow
           /\ copy[s].doc \in [Documents -> Papers!DocumentRow]
              /\ copy[s].field \in [Documents -> Papers!FieldRow]
           /\ copy[s].request.overridden => request.overridden
           /\ pc \in [Papers!Sessions -> Places]
BY DEF Papers!ReadingInv, Papers!TypeOK, Papers!FieldsAreSound, Papers!NobodySeesAReading,
     Papers!DoubtStands, Fine, Papers!Copy, Places

LEMMA InitKeeps ==
    ASSUME Papers!ReadingConstants, Papers!Init PROVE Papers!ReadingInv
<1>1. /\ request = Papers!NewRequest /\ doc = [d \in Documents |-> Papers!NewDocument]
      /\ field = [d \in Documents |-> Papers!NoRow]
         /\ copy = [s \in Papers!Sessions |-> Papers!Blank]
  BY DEF Papers!Init, Papers!Blank
<1>2. Papers!Pipeline \in Papers!Sessions
  BY DEF Papers!Sessions, Papers!Readers
<1>3. Papers!FieldsAreSound
  BY <1>1, BlankIsFine DEF Papers!FieldsAreSound, Fine
<1>4. Papers!NobodySeesAReading
  BY <1>1 DEF Papers!NobodySeesAReading, Papers!NewDocument
<1>5. Papers!DoubtStands
  BY <1>1, <1>2, BlankIsFine DEF Papers!DoubtStands
<1>6. Papers!TypeOK
  <2>1. /\ request \in Papers!RequestRow /\ doc \in [Documents -> Papers!DocumentRow]
        /\ field \in [Documents -> Papers!FieldRow] /\ copy \in [Papers!Sessions -> Papers!Copy]
    BY <1>1, BlankIsFine DEF Fine
  <2>2. /\ job = "queued" /\ visits \in 0..MaxVisits /\ faults \in 0..MaxFaults
    BY DEF Papers!Init, Papers!ReadingConstants
  <2>3. /\ pc \in [Papers!Sessions -> {"idle", "start", "classify", "begin", "read",
                                "reconcile", "open", "queued"}]
        /\ left \in [Papers!Sessions -> SUBSET Documents] /\ at \in [Papers!Sessions -> Documents]
        /\ holder \in [Documents -> Papers!Readers \cup {Papers!Nobody}]
    BY SomeDocumentIsOne DEF Papers!Init
  <2> QED BY <2>1, <2>2, <2>3 DEF Papers!TypeOK
<1> QED BY <1>3, <1>4, <1>5, <1>6 DEF Papers!ReadingInv

LEMMA BeginKeeps ==
    ASSUME Papers!ReadingConstants, Papers!ReadingInv, NEW s \in Papers!Readers, Papers!Begin(s)
    PROVE  Papers!ReadingInv'
<1>1. PICK d \in left[s] :
        /\ holder' = [holder EXCEPT ![d] = s] /\ left' = [left EXCEPT ![s] = @ \ {d}]
        /\ at' = [at EXCEPT ![s] = d]
        /\ Papers!Keep(s, [copy[s] EXCEPT !.doc[d].status = "processing"], "read")
  BY DEF Papers!Begin
<1>2. s \in Papers!Sessions
  BY DEF Papers!Sessions
<1>3. UNCHANGED <<request, doc, field, job, visits, faults>>
  BY DEF Papers!Begin, Papers!rows
<1>4. d \in Documents
  BY <1>1, <1>2, RowsAreTyped
<1> DEFINE c == [copy[s] EXCEPT !.doc[d].status = "processing"]
<1>5. /\ c \in Papers!Copy /\ c.request = copy[s].request /\ c.field = copy[s].field
  <2>1. copy[s] \in Papers!Copy /\ copy[s].doc \in [Documents -> Papers!DocumentRow]
    BY <1>2, RowsAreTyped DEF Fine
  <2>2. [copy[s].doc[d] EXCEPT !.status = "processing"] \in Papers!DocumentRow
    BY <1>4, <2>1 DEF Papers!DocumentRow
  <2> DEFINE docs == [copy[s].doc EXCEPT ![d] = [copy[s].doc[d] EXCEPT !.status = "processing"]]
  <2>3. docs \in [Documents -> Papers!DocumentRow]
    BY <1>4, <2>1, <2>2
  <2>4. c = [copy[s] EXCEPT !.doc = docs]
    BY <1>4, <2>1 DEF Papers!Copy
  <2> HIDE DEF docs, c
  <2> QED BY <2>1, <2>3, <2>4 DEF Papers!Copy
<1>6. Carried(c)
  BY <1>2, <1>3, <1>5, RowsAreTyped DEF Carried, Fine
<1>7. s = Papers!Pipeline => (c.request.review => request'.review \/ request'.overridden)
  BY <1>3, <1>5 DEF Papers!ReadingInv, Papers!DoubtStands
<1> HIDE DEF c
<1>8. /\ copy' \in [Papers!Sessions -> Papers!Copy] /\ pc' \in [Papers!Sessions -> Places]
      /\ Papers!FieldsAreSound' /\ Papers!DoubtStands'
  BY <1>1, <1>2, <1>3, <1>6, <1>7, RowsAreTyped, Keeping DEF Places, c
<1>9. /\ holder' \in [Documents -> Papers!Readers \cup {Papers!Nobody}]
      /\ left' \in [Papers!Sessions -> SUBSET Documents] /\ at' \in [Papers!Sessions -> Documents]
  BY <1>1, <1>2, <1>4, RowsAreTyped
<1>10. Papers!NobodySeesAReading'
  BY <1>2, <1>3, RowsAreTyped DEF Papers!NobodySeesAReading
<1> QED BY <1>2, <1>3, <1>8, <1>9, <1>10, RowsAreTyped, InvariantFromParts

\* What a reading commits of its document.
LEMMA ReadingCommits ==
    ASSUME Papers!ReadingConstants, Papers!ReadingInv, NEW s \in Papers!Readers,
           Papers!ReadDocument(s)
    PROVE  \E o \in Papers!Outcomes(s, at[s], s = Papers!Pipeline) :
             /\ at[s] \in Documents /\ o.row \in Papers!DocumentRow
                /\ o.field \in Papers!FieldRow /\ Papers!Sound(o.field)
             /\ field' = [field EXCEPT ![at[s]] = Papers!FieldWritten(s, at[s], o.field)]
             /\ doc' \in [Documents -> Papers!DocumentRow]
                /\ field' \in [Documents -> Papers!FieldRow]
             /\ \A d \in Documents : Papers!Sound(field'[d]) /\ doc'[d].status # "processing"
             /\ \/ Papers!Keep(s, [copy[s] EXCEPT !.doc[at[s]] = o.row, !.field[at[s]] = o.field],
                        IF left[s] = {} THEN "reconcile" ELSE "begin") /\ UNCHANGED <<left, at>>
                \/ Papers!End(s)
<1> DEFINE d == at[s]
<1>1. s \in Papers!Sessions /\ d \in Documents
  BY RowsAreTyped DEF Papers!Sessions
<1>2. PICK o \in Papers!Outcomes(s, d, s = Papers!Pipeline) :
        /\ doc' = [doc EXCEPT ![d] = Papers!Changed(@, copy[s].doc[d], o.row)]
        /\ field' = [field EXCEPT ![d] = Papers!FieldWritten(s, d, o.field)]
        /\ \/ Papers!Keep(s, [copy[s] EXCEPT !.doc[d] = o.row, !.field[d] = o.field],
                   IF left[s] = {} THEN "reconcile" ELSE "begin") /\ UNCHANGED <<left, at>>
           \/ Papers!End(s)
  BY Zenon DEF Papers!ReadDocument
<1>3. (s = Papers!Pipeline) \in BOOLEAN
  OBVIOUS
<1>4. /\ o.row \in Papers!DocumentRow /\ o.row.status \in {"failed", "completed"}
      /\ o.field \in Papers!FieldRow /\ Papers!Sound(o.field)
  BY <1>1, <1>2, <1>3, OutcomeIsSound
<1>5. Papers!FieldWritten(s, d, o.field) \in Papers!FieldRow
      /\ Papers!Sound(Papers!FieldWritten(s, d, o.field))
  BY <1>1, <1>2, <1>3, WrittenIsSound
<1>6. field' \in [Documents -> Papers!FieldRow] /\ \A e \in Documents : Papers!Sound(field'[e])
  BY <1>1, <1>2, <1>5, RowsAreTyped
<1>7. /\ Papers!Changed(doc[d], copy[s].doc[d], o.row) \in Papers!DocumentRow
      /\ Papers!Changed(doc[d], copy[s].doc[d], o.row).status # "processing"
  <2>1. doc[d] \in Papers!DocumentRow /\ copy[s].doc[d] \in Papers!DocumentRow
        /\ doc[d].status # "processing"
    BY <1>1, RowsAreTyped
  <2> QED BY <1>4, <2>1, ChangedDocument
<1>8. doc' \in [Documents -> Papers!DocumentRow]
      /\ \A e \in Documents : doc'[e].status # "processing"
  BY <1>1, <1>2, <1>7, RowsAreTyped
<1> QED BY <1>1, <1>2, <1>4, <1>6, <1>8, Zenon

LEMMA ReadDocumentKeeps ==
    ASSUME Papers!ReadingConstants, Papers!ReadingInv, NEW s \in Papers!Readers,
           Papers!ReadDocument(s)
    PROVE  Papers!ReadingInv'
<1> DEFINE d == at[s]
<1>1. PICK o \in Papers!Outcomes(s, d, s = Papers!Pipeline) :
        /\ d \in Documents /\ o.row \in Papers!DocumentRow /\ o.field \in Papers!FieldRow
           /\ Papers!Sound(o.field)
        /\ doc' \in [Documents -> Papers!DocumentRow] /\ field' \in [Documents -> Papers!FieldRow]
        /\ \A e \in Documents : Papers!Sound(field'[e]) /\ doc'[e].status # "processing"
        /\ \/ Papers!Keep(s, [copy[s] EXCEPT !.doc[d] = o.row, !.field[d] = o.field],
                   IF left[s] = {} THEN "reconcile" ELSE "begin") /\ UNCHANGED <<left, at>>
           \/ Papers!End(s)
  BY ReadingCommits, Zenon
<1>2. s \in Papers!Sessions
  BY DEF Papers!Sessions
<1>3. UNCHANGED <<request, job, visits, faults>> /\ holder' = [holder EXCEPT ![d] = Papers!Nobody]
  BY DEF Papers!ReadDocument
<1>4. holder' \in [Documents -> Papers!Readers \cup {Papers!Nobody}]
  BY <1>2, <1>3, RowsAreTyped
<1>5. Papers!NobodySeesAReading'
  BY <1>1 DEF Papers!NobodySeesAReading
<1>6. CASE Papers!End(s)
  <2>1. /\ Carried(Papers!Blank) /\ Papers!Keep(s, Papers!Blank, "idle") /\ "idle" \in Places
           /\ ~Papers!Blank.request.review
        /\ left' \in [Papers!Sessions -> SUBSET Documents] /\ at' \in [Papers!Sessions -> Documents]
    BY <1>2, <1>6, Ending
  <2>2. /\ copy' \in [Papers!Sessions -> Papers!Copy] /\ pc' \in [Papers!Sessions -> Places]
        /\ Papers!FieldsAreSound' /\ Papers!DoubtStands'
    BY <1>1, <1>2, <1>3, <2>1, Keeping
  <2> QED BY <1>1, <1>2, <1>3, <1>4, <1>5, <2>1, <2>2, RowsAreTyped, InvariantFromParts
<1>7. CASE Papers!Keep(s, [copy[s] EXCEPT !.doc[d] = o.row, !.field[d] = o.field],
                IF left[s] = {} THEN "reconcile" ELSE "begin") /\ UNCHANGED <<left, at>>
  <2> DEFINE c == [copy[s] EXCEPT !.doc[d] = o.row, !.field[d] = o.field]
             place == IF left[s] = {} THEN "reconcile" ELSE "begin"
  <2>1. /\ c \in Papers!Copy /\ c.request = copy[s].request
        /\ \A e \in Documents : c.field[e] = IF e = d THEN o.field ELSE copy[s].field[e]
    <3>1. copy[s] \in Papers!Copy /\ copy[s].field \in [Documents -> Papers!FieldRow]
          /\ copy[s].doc \in [Documents -> Papers!DocumentRow]
      BY <1>2, RowsAreTyped DEF Fine
    <3> DEFINE docs == [copy[s].doc EXCEPT ![d] = o.row]
               values == [copy[s].field EXCEPT ![d] = o.field]
    <3>2. /\ docs \in [Documents -> Papers!DocumentRow] /\ values \in [Documents -> Papers!FieldRow]
          /\ \A e \in Documents : values[e] = IF e = d THEN o.field ELSE copy[s].field[e]
      BY <1>1, <3>1
    <3>3. c = [copy[s] EXCEPT !.doc = docs, !.field = values]
      BY <3>1 DEF Papers!Copy
    <3> HIDE DEF docs, values, c
    <3> QED BY <3>1, <3>2, <3>3 DEF Papers!Copy
  <2>2. Carried(c)
    BY <1>1, <1>2, <1>3, <2>1, RowsAreTyped DEF Carried, Fine
  <2>3. s = Papers!Pipeline => (c.request.review => request'.review \/ request'.overridden)
    BY <1>3, <2>1 DEF Papers!ReadingInv, Papers!DoubtStands
  <2>4. place \in Places
    BY DEF Places
  <2>5. Papers!Keep(s, c, place)
    BY <1>7
  <2> HIDE DEF c, place
  <2>6. /\ copy' \in [Papers!Sessions -> Papers!Copy] /\ pc' \in [Papers!Sessions -> Places]
        /\ Papers!FieldsAreSound' /\ Papers!DoubtStands'
    BY <1>1, <1>2, <1>3, <2>2, <2>3, <2>4, <2>5, Keeping
  <2> QED BY <1>1, <1>2, <1>3, <1>4, <1>5, <1>7, <2>6, RowsAreTyped, InvariantFromParts
<1> QED BY <1>1, <1>6, <1>7

\* A session that loads the stored rows.
LEMMA Loading ==
    ASSUME Papers!ReadingInv, NEW s \in Papers!Sessions, NEW place \in Places, Papers!Keep(s,
           Papers!Database, place),
           UNCHANGED <<request, field>>
    PROVE  /\ copy' \in [Papers!Sessions -> Papers!Copy] /\ pc' \in [Papers!Sessions -> Places]
           /\ Papers!FieldsAreSound' /\ Papers!DoubtStands'
<1>1. Fine(Papers!Database) /\ Papers!Database.request = request
  BY DatabaseIsFine DEF Papers!Database
<1>2. Carried(Papers!Database)
  BY <1>1 DEF Carried
<1>3. \A d \in Documents : Papers!Sound(field'[d])
  BY RowsAreTyped
<1> QED BY <1>1, <1>2, <1>3, Keeping

LEMMA StartPipelineKeeps ==
    ASSUME Papers!ReadingInv, Papers!StartPipeline PROVE Papers!ReadingInv'
<1>1. Papers!Pipeline \in Papers!Sessions /\ "classify" \in Places
  BY DEF Papers!Sessions, Papers!Readers, Places
<1>2. /\ Papers!Keep(Papers!Pipeline, Papers!Database, "classify")
      /\ UNCHANGED <<request, doc, field, job, left, at, holder, visits, faults>>
  BY DEF Papers!StartPipeline, Papers!rows
<1>3. /\ copy' \in [Papers!Sessions -> Papers!Copy] /\ pc' \in [Papers!Sessions -> Places]
      /\ Papers!FieldsAreSound' /\ Papers!DoubtStands'
  BY <1>1, <1>2, Loading
<1>4. Papers!NobodySeesAReading'
  BY <1>1, <1>2, RowsAreTyped DEF Papers!NobodySeesAReading
<1> QED BY <1>1, <1>2, <1>3, <1>4, RowsAreTyped, InvariantFromParts

LEMMA StartRerunKeeps ==
    ASSUME Papers!ReadingInv, NEW x \in Reruns, Papers!StartRerun(x) PROVE Papers!ReadingInv'
<1>1. x \in Papers!Sessions /\ "begin" \in Places
  BY DEF Papers!Sessions, Papers!Readers, Places
<1>2. /\ Papers!Keep(x, Papers!Database, "begin") /\ left' = [left EXCEPT ![x] = {at[x]}]
      /\ UNCHANGED <<request, doc, field, job, at, holder, visits, faults>>
  BY DEF Papers!StartRerun, Papers!rows
<1>3. /\ copy' \in [Papers!Sessions -> Papers!Copy] /\ pc' \in [Papers!Sessions -> Places]
      /\ Papers!FieldsAreSound' /\ Papers!DoubtStands'
  BY <1>1, <1>2, Loading
<1>4. Papers!NobodySeesAReading'
  BY <1>1, <1>2, RowsAreTyped DEF Papers!NobodySeesAReading
<1>5. left' \in [Papers!Sessions -> SUBSET Documents]
  BY <1>1, <1>2, RowsAreTyped
<1> QED BY <1>1, <1>2, <1>3, <1>4, <1>5, RowsAreTyped, InvariantFromParts

LEMMA OpenKeeps ==
    ASSUME Papers!ReadingConstants, Papers!ReadingInv, NEW h \in People,
           Papers!Open(h) PROVE Papers!ReadingInv'
<1>1. h \in Papers!Sessions /\ "open" \in Places
  BY DEF Papers!Sessions, Places
<1>2. /\ Papers!Keep(h, Papers!Database, "open") /\ visits < MaxVisits /\ visits' = visits + 1
      /\ UNCHANGED <<request, doc, field, job, left, at, holder, faults>>
  BY DEF Papers!Open, Papers!rows
<1>3. /\ copy' \in [Papers!Sessions -> Papers!Copy] /\ pc' \in [Papers!Sessions -> Places]
      /\ Papers!FieldsAreSound' /\ Papers!DoubtStands'
  BY <1>1, <1>2, Loading
<1>4. Papers!NobodySeesAReading'
  BY <1>1, <1>2, RowsAreTyped DEF Papers!NobodySeesAReading
<1>5. visits' \in 0..MaxVisits
  <2>1. visits \in 0..MaxVisits /\ MaxVisits \in Nat /\ visits < MaxVisits /\ visits' = visits + 1
    BY <1>1, <1>2, RowsAreTyped DEF Papers!ReadingConstants
  <2> QED BY ONLY <2>1
<1> QED BY <1>1, <1>2, <1>3, <1>4, <1>5, RowsAreTyped, InvariantFromParts

\* A session that ends, whatever it committed of the request and of fields.
LEMMA EndKeeps ==
    ASSUME Papers!ReadingConstants, Papers!ReadingInv, NEW s \in Papers!Sessions, Papers!End(s),
           request' \in Papers!RequestRow, doc' \in [Documents -> Papers!DocumentRow],
           field' \in [Documents -> Papers!FieldRow], \A d \in Documents : Papers!Sound(field'[d]),
           \A d \in Documents : doc'[d].status # "processing",
           request.overridden => request'.overridden,
           request.review \/ request.overridden => request'.review \/ request'.overridden \/ s = Papers!Pipeline,
           job' \in {"queued", "completed", "failed"},
           holder' \in [Documents -> Papers!Readers \cup {Papers!Nobody}], UNCHANGED <<visits,
           faults>>
    PROVE  Papers!ReadingInv'
<1>1. /\ Carried(Papers!Blank) /\ Papers!Keep(s, Papers!Blank, "idle") /\ "idle" \in Places
         /\ ~Papers!Blank.request.review
      /\ left' \in [Papers!Sessions -> SUBSET Documents] /\ at' \in [Papers!Sessions -> Documents]
  BY Ending
<1>2. /\ copy' \in [Papers!Sessions -> Papers!Copy] /\ pc' \in [Papers!Sessions -> Places]
      /\ Papers!FieldsAreSound' /\ Papers!DoubtStands'
  BY <1>1, Keeping
<1>3. Papers!NobodySeesAReading'
  BY DEF Papers!NobodySeesAReading
<1> QED BY <1>1, <1>2, <1>3, RowsAreTyped, InvariantFromParts

LEMMA BreakKeeps ==
    ASSUME Papers!ReadingConstants, Papers!ReadingInv, NEW s \in Papers!Readers,
           Papers!Break(s) PROVE Papers!ReadingInv'
<1>1. s \in Papers!Sessions
  BY DEF Papers!Sessions
<1>2. /\ Papers!End(s) /\ UNCHANGED <<request, doc, field, visits, faults>>
      /\ job' = IF s = Papers!Pipeline THEN "failed" ELSE job
      /\ holder' = [d \in Documents |-> IF holder[d] = s THEN Papers!Nobody ELSE holder[d]]
  BY DEF Papers!Break, Papers!rows
<1>3. job' \in {"queued", "completed", "failed"}
      /\ holder' \in [Documents -> Papers!Readers \cup {Papers!Nobody}]
  BY <1>1, <1>2, RowsAreTyped
<1> QED BY <1>1, <1>2, <1>3, RowsAreTyped, EndKeeps

LEMMA LeaveKeeps ==
    ASSUME Papers!ReadingConstants, Papers!ReadingInv, NEW h \in People,
           Papers!Leave(h) PROVE Papers!ReadingInv'
<1>1. h \in Papers!Sessions /\ Papers!End(h)
      /\ UNCHANGED <<request, doc, field, job, holder, visits, faults>>
  BY DEF Papers!Leave, Papers!rows, Papers!Sessions
<1> QED BY <1>1, RowsAreTyped, EndKeeps

\* What a correction makes of the row it has loaded.
LEMMA CorrectedIsSound ==
    ASSUME NEW row \in Papers!FieldRow, Papers!Sound(row)
    PROVE  /\ Papers!Corrected(row) \in Papers!FieldRow /\ Papers!Corrected(row).present
              /\ Papers!Corrected(row).byHand
           /\ row.present => Papers!Corrected(row).original = row.original
<1>1. /\ row.present \in BOOLEAN /\ row.byHand \in BOOLEAN
      /\ row.value \in Machine \cup {Papers!Human, Papers!NoValue}
         /\ row.original \in Machine \cup {Papers!NoValue}
  BY DEF Papers!FieldRow
<1>2. row.present => ~(row.original = Papers!NoValue /\ ~row.byHand)
  BY <1>1 DEF Papers!Sound
<1>3. ~row.present => row.original = Papers!NoValue /\ row.value = Papers!NoValue
  BY DEF Papers!Sound, Papers!NoRow
<1> DEFINE first == IF row.original = Papers!NoValue /\ ~row.byHand THEN row.value ELSE row.original
<1>4. first \in Machine \cup {Papers!NoValue} /\ (row.present => first = row.original)
  BY <1>1, <1>2, <1>3
<1>5. Papers!Corrected(row) = [row EXCEPT !.present = TRUE, !.value = Papers!Human, !.byHand = TRUE,
                                   !.original = first]
  BY DEF Papers!Corrected
<1> HIDE DEF first
<1>6. Papers!Corrected(row) = [present |-> TRUE, value |-> Papers!Human, byHand |-> TRUE,
       original |-> first]
  BY <1>5 DEF Papers!FieldRow
<1> QED BY <1>4, <1>6 DEF Papers!FieldRow

\* A correction leaves a sound row, with the original it had.
LEMMA CorrectionIsSound ==
    ASSUME Papers!ReadingInv, NEW h \in People, NEW d \in Documents, Papers!CorrectField(h, d)
    PROVE  /\ field' \in [Documents -> Papers!FieldRow]
              /\ \A e \in Documents : Papers!Sound(field'[e])
           /\ \A e \in Documents :
                 field[e].present => field'[e].original = field[e].original
<1>1. h \in Papers!Sessions
  BY DEF Papers!Sessions
<1> DEFINE row == copy[h].field[d]
           made == Papers!Changed(field[d], row, Papers!Corrected(row))
<1>2. row \in Papers!FieldRow /\ Papers!Sound(row) /\ field[d] \in Papers!FieldRow
      /\ Papers!Sound(field[d])
  BY <1>1, RowsAreTyped DEF Fine
<1>3. CASE row.present # field[d].present
  BY <1>1, <1>3, RowsAreTyped DEF Papers!CorrectField
<1>4. CASE row.present = field[d].present
  <2>1. field' = [field EXCEPT ![d] = made]
    BY <1>1, <1>4, RowsAreTyped DEF Papers!CorrectField
  <2>2. /\ Papers!Corrected(row) \in Papers!FieldRow /\ Papers!Corrected(row).present
           /\ Papers!Corrected(row).byHand
        /\ row.present => Papers!Corrected(row).original = row.original
    BY <1>2, CorrectedIsSound
  <2> HIDE DEF row
  <2>3. /\ made \in Papers!FieldRow
        /\ made = [present |-> IF row.present = Papers!Corrected(row).present THEN field[d].present
                               ELSE Papers!Corrected(row).present,
                   value |-> IF row.value = Papers!Corrected(row).value THEN field[d].value
                             ELSE Papers!Corrected(row).value,
                   byHand |-> IF row.byHand = Papers!Corrected(row).byHand THEN field[d].byHand
                              ELSE Papers!Corrected(row).byHand,
                   original |-> IF row.original = Papers!Corrected(row).original THEN field[d].original
                                ELSE Papers!Corrected(row).original]
    BY <1>2, <2>2, ChangedField
  <2> HIDE DEF made
  <2>4. {row.present, row.byHand, field[d].present, field[d].byHand,
         Papers!Corrected(row).present, Papers!Corrected(row).byHand} \subseteq BOOLEAN
    BY <1>2, <2>2 DEF Papers!FieldRow
  <2>5. made.present
    BY <1>4, <2>2, <2>3, <2>4
  <2>6. field[d].present => made.original = field[d].original
    BY <1>4, <2>2, <2>3
  <2>7. ~made.byHand => field[d].present /\ ~field[d].byHand
    <3> SUFFICES ASSUME ~made.byHand PROVE field[d].present /\ ~field[d].byHand
      OBVIOUS
    <3>1. row.byHand /\ ~field[d].byHand
      BY <2>2, <2>3, <2>4
    <3>2. row.present
      BY <1>2, <3>1 DEF Papers!Sound, Papers!NoRow
    <3> QED BY <1>4, <3>1, <3>2
  <2>8. Papers!Sound(made)
    BY <1>2, <2>5, <2>6, <2>7 DEF Papers!Sound
  <2> QED BY <1>1, <2>1, <2>3, <2>6, <2>8, RowsAreTyped
<1> QED BY <1>3, <1>4

LEMMA CorrectFieldKeeps ==
    ASSUME Papers!ReadingConstants, Papers!ReadingInv, NEW h \in People, NEW d \in Documents,
           Papers!CorrectField(h, d)
    PROVE  Papers!ReadingInv'
<1>1. h \in Papers!Sessions /\ Papers!End(h)
      /\ UNCHANGED <<request, doc, job, holder, visits, faults>>
  BY DEF Papers!CorrectField, Papers!Sessions
<1>2. field' \in [Documents -> Papers!FieldRow] /\ \A e \in Documents : Papers!Sound(field'[e])
  BY CorrectionIsSound
<1> QED BY <1>1, <1>2, RowsAreTyped, EndKeeps

\* What people write of a document.
LEMMA SavedDocument ==
    ASSUME Papers!ReadingInv, NEW h \in Papers!Sessions, NEW d \in Documents,
           NEW after \in Papers!DocumentRow,
           Papers!SaveDocument(h, d, after),
           after.status # "processing" \/ after.status = copy[h].doc[d].status
    PROVE  /\ doc' \in [Documents -> Papers!DocumentRow]
           /\ \A e \in Documents : doc'[e].status # "processing"
<1>1. doc[d] \in Papers!DocumentRow /\ copy[h].doc[d] \in Papers!DocumentRow
      /\ doc[d].status # "processing"
  BY RowsAreTyped
<1>2. /\ Papers!Changed(doc[d], copy[h].doc[d], after) \in Papers!DocumentRow
      /\ Papers!Changed(doc[d], copy[h].doc[d], after).status # "processing"
  BY <1>1, ChangedDocument
<1>3. doc' = [doc EXCEPT ![d] = Papers!Changed(doc[d], copy[h].doc[d], after)]
  BY DEF Papers!SaveDocument
<1> QED BY <1>2, <1>3, RowsAreTyped

LEMMA ConfirmKeeps ==
    ASSUME Papers!ReadingConstants, Papers!ReadingInv, NEW h \in People, NEW d \in Documents,
           Papers!Confirm(h, d)
    PROVE  Papers!ReadingInv'
<1> DEFINE after == [copy[h].doc[d] EXCEPT !.confirmed = TRUE, !.review = FALSE]
           asked == [copy[h].request EXCEPT !.status = "extracted"]
<1>1. /\ h \in Papers!Sessions /\ Papers!End(h) /\ UNCHANGED <<field, job, holder, visits, faults>>
      /\ Papers!SaveDocument(h, d, after)
         /\ request' = Papers!Changed(request, copy[h].request, asked)
  BY DEF Papers!Confirm, Papers!Sessions
<1>2. copy[h].doc[d] \in Papers!DocumentRow /\ copy[h].request \in Papers!RequestRow
      /\ request \in Papers!RequestRow
  BY <1>1, RowsAreTyped
<1>3. after \in Papers!DocumentRow /\ after.status = copy[h].doc[d].status
  BY <1>2 DEF Papers!DocumentRow
<1>4. /\ asked \in Papers!RequestRow /\ asked.review = copy[h].request.review
      /\ asked.overridden = copy[h].request.overridden
  BY <1>2 DEF Papers!RequestRow
<1> HIDE DEF after, asked
<1>5. doc' \in [Documents -> Papers!DocumentRow]
      /\ \A e \in Documents : doc'[e].status # "processing"
  BY <1>1, <1>3, SavedDocument
<1>6. request' \in Papers!RequestRow /\ request'.review = request.review
      /\ request'.overridden = request.overridden
  BY <1>1, <1>2, <1>4, ChangedRequest
<1> QED BY <1>1, <1>5, <1>6, RowsAreTyped, EndKeeps

LEMMA OverrideCategoryKeeps ==
    ASSUME Papers!ReadingConstants, Papers!ReadingInv, NEW h \in People, Papers!OverrideCategory(h)
    PROVE  Papers!ReadingInv'
<1> DEFINE asked == [copy[h].request EXCEPT !.overridden = TRUE, !.review = FALSE]
<1>1. /\ h \in Papers!Sessions /\ Papers!End(h)
         /\ UNCHANGED <<doc, field, job, holder, visits, faults>>
      /\ request' = Papers!Changed(request, copy[h].request, asked)
  BY DEF Papers!OverrideCategory, Papers!Sessions
<1>2. /\ copy[h].request \in Papers!RequestRow /\ request \in Papers!RequestRow
      /\ copy[h].request.overridden => request.overridden
  BY <1>1, RowsAreTyped
<1>3. asked \in Papers!RequestRow /\ asked.overridden = TRUE
  BY <1>2 DEF Papers!RequestRow
<1> HIDE DEF asked
<1>4. {copy[h].request.overridden, request.overridden} \subseteq BOOLEAN
  BY <1>2 DEF Papers!RequestRow
<1>5. request' \in Papers!RequestRow /\ request'.overridden
  BY <1>1, <1>2, <1>3, <1>4, ChangedRequest
<1> QED BY <1>1, <1>5, RowsAreTyped, EndKeeps

LEMMA ReclassifyKeeps ==
    ASSUME Papers!ReadingConstants, Papers!ReadingInv, NEW h \in People, NEW d \in Documents,
           NEW x \in Reruns,
           Papers!Reclassify(h, d, x)
    PROVE  Papers!ReadingInv'
<1>1. PICK type \in Papers!Types \ {Papers!Unknown}, byHand \in BOOLEAN :
        Papers!SaveDocument(h, d,
            [copy[h].doc[d] EXCEPT !.type = type, !.status = "pending", !.confirmed = FALSE,
                                   !.kinds = IF byHand THEN "hand" ELSE @,
                                   !.kindsByHand = @ \/ byHand])
  BY Zenon DEF Papers!Reclassify
<1>2. /\ h \in Papers!Sessions /\ x \in Papers!Sessions
      /\ pc' = [pc EXCEPT ![h] = "idle", ![x] = "queued"]
      /\ copy' = [copy EXCEPT ![h] = Papers!Blank] /\ at' = [at EXCEPT ![x] = d]
      /\ UNCHANGED <<request, field, job, left, holder, visits, faults>>
  BY DEF Papers!Reclassify, Papers!Sessions, Papers!Readers
<1> DEFINE row == copy[h].doc[d]
           kinds == IF byHand THEN "hand" ELSE row.kinds
           handed == row.kindsByHand \/ byHand
           after == [row EXCEPT !.type = type, !.status = "pending", !.confirmed = FALSE,
                                !.kinds = kinds, !.kindsByHand = handed]
<1>3. row \in Papers!DocumentRow
  BY <1>2, RowsAreTyped
<1>4. Papers!SaveDocument(h, d, after)
  BY <1>1
<1>5. kinds \in {"none", "machine", "hand"} /\ handed \in BOOLEAN
  BY <1>3 DEF Papers!DocumentRow
<1> HIDE DEF row, kinds, handed
<1>6. after \in Papers!DocumentRow /\ after.status = "pending"
  BY <1>3, <1>5 DEF Papers!DocumentRow
<1> HIDE DEF after
<1>7. doc' \in [Documents -> Papers!DocumentRow]
      /\ \A e \in Documents : doc'[e].status # "processing"
  BY <1>2, <1>4, <1>6, SavedDocument
<1>8. pc' \in [Papers!Sessions -> Places] /\ at' \in [Papers!Sessions -> Documents]
  <2>1. "idle" \in Places /\ "queued" \in Places /\ pc \in [Papers!Sessions -> Places]
        /\ at \in [Papers!Sessions -> Documents]
    BY <1>2, RowsAreTyped DEF Places
  <2> QED BY ONLY <1>2, <2>1, d \in Documents
<1>9. copy' \in [Papers!Sessions -> Papers!Copy] /\ Papers!FieldsAreSound' /\ Papers!DoubtStands'
  <2>1. Carried(Papers!Blank) /\ ~Papers!Blank.request.review
    BY BlankIsFine DEF Carried
  <2>2. \A e \in Documents : Papers!Sound(field'[e])
    BY <1>2, RowsAreTyped
  <2> QED BY <1>2, <2>1, <2>2, Holding
<1>10. Papers!NobodySeesAReading'
  BY <1>7 DEF Papers!NobodySeesAReading
<1> QED BY <1>2, <1>7, <1>8, <1>9, <1>10, RowsAreTyped, InvariantFromParts

LEMMA ClassifyRequestKeeps ==
    ASSUME Papers!ReadingConstants, Papers!ReadingInv,
           Papers!ClassifyRequest PROVE Papers!ReadingInv'
<1> DEFINE old == copy[Papers!Pipeline].request
<1>1. PICK doubtful \in BOOLEAN :
        LET seen == [old EXCEPT !.status = "extraction_pending", !.review = doubtful]
        IN /\ request' = Papers!Changed(request, old, seen)
           /\ Papers!Keep(Papers!Pipeline, [Papers!Database EXCEPT !.request = seen], "begin")
  BY Zenon DEF Papers!ClassifyRequest
<1> DEFINE seen == [old EXCEPT !.status = "extraction_pending", !.review = doubtful]
           c == [Papers!Database EXCEPT !.request = seen]
<1>2. /\ Papers!Pipeline \in Papers!Sessions /\ "begin" \in Places
      /\ left' = [left EXCEPT ![Papers!Pipeline] = Documents]
      /\ UNCHANGED <<doc, field, job, at, holder, visits, faults>>
  BY DEF Papers!ClassifyRequest, Papers!Sessions, Papers!Readers, Places
<1>3. /\ old \in Papers!RequestRow /\ request \in Papers!RequestRow
         /\ (old.overridden => request.overridden)
      /\ old.review => request.review \/ request.overridden
  BY <1>2, RowsAreTyped DEF Papers!ReadingInv, Papers!DoubtStands
<1>4. /\ request' = Papers!Changed(request, old, seen) /\ Papers!Keep(Papers!Pipeline, c, "begin")
  BY <1>1
<1>5. seen \in Papers!RequestRow /\ seen.review = doubtful /\ seen.overridden = old.overridden
  BY <1>3 DEF Papers!RequestRow
<1>6. /\ c \in Papers!Copy /\ c.request = seen /\ c.field = field
  BY <1>2, <1>5, RowsAreTyped DEF Papers!Copy, Papers!Database
<1> HIDE DEF old, seen, c
<1>7. {old.review, request.review, doubtful} \subseteq BOOLEAN
  BY <1>3 DEF Papers!RequestRow
<1>8. /\ request' \in Papers!RequestRow /\ request'.overridden = request.overridden
      /\ seen.review => request'.review \/ request'.overridden
  BY <1>3, <1>4, <1>5, <1>7, ChangedRequest
<1>9. Carried(c)
  BY <1>2, <1>3, <1>5, <1>6, <1>8, RowsAreTyped DEF Carried, Fine
<1>10. /\ copy' \in [Papers!Sessions -> Papers!Copy] /\ pc' \in [Papers!Sessions -> Places]
       /\ Papers!FieldsAreSound' /\ Papers!DoubtStands'
  <2>1. \A e \in Documents : Papers!Sound(field'[e])
    BY <1>2, RowsAreTyped
  <2> QED BY <1>2, <1>4, <1>6, <1>8, <1>9, <2>1, Keeping
<1>11. left' \in [Papers!Sessions -> SUBSET Documents]
  BY <1>2, RowsAreTyped
<1>12. Papers!NobodySeesAReading'
  BY <1>2, RowsAreTyped DEF Papers!NobodySeesAReading
<1> QED BY <1>2, <1>8, <1>10, <1>11, <1>12, RowsAreTyped, InvariantFromParts

\* What the end of the pipeline writes of its request.
LEMMA ReconcileShows ==
    ASSUME Papers!ReadingInv, Papers!Reconcile
    PROVE  /\ request' \in Papers!RequestRow /\ request'.overridden = request.overridden
           /\ Papers!SomethingDoubtful => request'.review \/ request'.overridden
<1> DEFINE old == copy[Papers!Pipeline].request
           seen == [old EXCEPT !.status = "extracted", !.review = old.review \/ Papers!Doubts]
<1>1. request' = Papers!Changed(request, old, seen)
  BY DEF Papers!Reconcile
<1>2. Papers!Pipeline \in Papers!Sessions
  BY DEF Papers!Sessions, Papers!Readers
<1>3. /\ old \in Papers!RequestRow /\ request \in Papers!RequestRow
      /\ old.review => request.review \/ request.overridden
  BY <1>2, RowsAreTyped DEF Papers!ReadingInv, Papers!DoubtStands
<1>4. Papers!Doubts \in BOOLEAN /\ (Papers!SomethingDoubtful => Papers!Doubts)
  BY DEF Papers!Doubts, Papers!SomethingDoubtful
<1>5. seen \in Papers!RequestRow /\ seen.overridden = old.overridden
      /\ seen.review = (old.review \/ Papers!Doubts)
  BY <1>3, <1>4 DEF Papers!RequestRow
<1> HIDE DEF old, seen
<1>6. {old.review, request.review, seen.review} \subseteq BOOLEAN
  BY <1>3, <1>5 DEF Papers!RequestRow
<1>7. /\ request' \in Papers!RequestRow /\ request'.overridden = request.overridden
      /\ request'.review = IF old.review = seen.review THEN request.review ELSE seen.review
  BY <1>1, <1>3, <1>5, ChangedRequest
<1> QED BY <1>3, <1>4, <1>5, <1>6, <1>7

LEMMA ReconcileKeeps ==
    ASSUME Papers!ReadingConstants, Papers!ReadingInv, Papers!Reconcile PROVE Papers!ReadingInv'
<1>1. /\ Papers!Pipeline \in Papers!Sessions /\ Papers!End(Papers!Pipeline) /\ job' = "completed"
      /\ UNCHANGED <<doc, field, holder, visits, faults>>
  BY DEF Papers!Reconcile, Papers!Sessions, Papers!Readers
<1>2. request' \in Papers!RequestRow /\ request'.overridden = request.overridden
  BY ReconcileShows
<1> QED BY <1>1, <1>2, RowsAreTyped, EndKeeps

LEMMA CrashKeeps ==
    ASSUME Papers!ReadingConstants, Papers!ReadingInv, Papers!Crash PROVE Papers!ReadingInv'
<1>1. /\ faults < MaxFaults /\ faults' = faults + 1
      /\ pc' = [s \in Papers!Sessions |-> "idle"]
         /\ copy' = [s \in Papers!Sessions |-> Papers!Blank]
      /\ left' = [s \in Papers!Sessions |-> {}]
         /\ at' = [s \in Papers!Sessions |-> Papers!SomeDocument]
      /\ holder' = [d \in Documents |-> Papers!Nobody]
      /\ UNCHANGED <<request, doc, field, job, visits>>
  BY DEF Papers!Crash, Papers!rows
<1>2. Papers!Pipeline \in Papers!Sessions
  BY DEF Papers!Sessions, Papers!Readers
<1>3. /\ copy' \in [Papers!Sessions -> Papers!Copy] /\ pc' \in [Papers!Sessions -> Places]
      /\ left' \in [Papers!Sessions -> SUBSET Documents] /\ at' \in [Papers!Sessions -> Documents]
      /\ holder' \in [Documents -> Papers!Readers \cup {Papers!Nobody}]
  BY <1>1, BlankIsFine, SomeDocumentIsOne DEF Fine, Places
<1>4. Papers!FieldsAreSound'
  BY <1>1, <1>2, BlankIsFine, RowsAreTyped DEF Papers!FieldsAreSound, Fine
<1>5. Papers!DoubtStands'
  BY <1>1, <1>2, BlankIsFine DEF Papers!DoubtStands
<1>6. Papers!NobodySeesAReading'
  BY <1>1, <1>2, RowsAreTyped DEF Papers!NobodySeesAReading
<1>7. faults' \in 0..MaxFaults
  <2>1. faults \in 0..MaxFaults /\ MaxFaults \in Nat /\ faults < MaxFaults /\ faults' = faults + 1
    BY <1>1, <1>2, RowsAreTyped DEF Papers!ReadingConstants
  <2> QED BY ONLY <2>1
<1> QED BY <1>1, <1>2, <1>3, <1>4, <1>5, <1>6, <1>7, RowsAreTyped, InvariantFromParts

LEMMA StepKeeps ==
    ASSUME Papers!ReadingConstants, Papers!ReadingInv,
           [Papers!Next]_(Papers!vars) PROVE Papers!ReadingInv'
<1>1. CASE Papers!StartPipeline
  BY <1>1, StartPipelineKeeps
<1>2. CASE Papers!ClassifyRequest
  BY <1>2, ClassifyRequestKeeps
<1>3. CASE Papers!Reconcile
  BY <1>3, ReconcileKeeps
<1>4. CASE Papers!Crash
  BY <1>4, CrashKeeps
<1>5. ASSUME NEW s \in Papers!Readers, Papers!Begin(s) PROVE Papers!ReadingInv'
  BY <1>5, BeginKeeps
<1>6. ASSUME NEW s \in Papers!Readers, Papers!ReadDocument(s) PROVE Papers!ReadingInv'
  BY <1>6, ReadDocumentKeeps
<1>7. ASSUME NEW s \in Papers!Readers, Papers!Break(s) PROVE Papers!ReadingInv'
  BY <1>7, BreakKeeps
<1>8. ASSUME NEW x \in Reruns, Papers!StartRerun(x) PROVE Papers!ReadingInv'
  BY <1>8, StartRerunKeeps
<1>9. ASSUME NEW h \in People,
       Papers!Open(h) \/ Papers!OverrideCategory(h) \/ Papers!Leave(h) PROVE Papers!ReadingInv'
  BY <1>9, OpenKeeps, OverrideCategoryKeeps, LeaveKeeps
<1>10. ASSUME NEW h \in People, NEW d \in Documents,
              Papers!CorrectField(h, d) \/ Papers!Confirm(h,
           d) \/ \E x \in Reruns : Papers!Reclassify(h, d, x)
       PROVE  Papers!ReadingInv'
  BY <1>10, CorrectFieldKeeps, ConfirmKeeps, ReclassifyKeeps
<1>11. CASE UNCHANGED Papers!vars
  BY <1>11 DEF Papers!vars, Papers!rows, Papers!ReadingInv, Papers!TypeOK, Papers!FieldsAreSound,
       Papers!NobodySeesAReading, Papers!DoubtStands
<1> QED BY <1>1, <1>2, <1>3, <1>4, <1>5, <1>6, <1>7, <1>8, <1>9, <1>10, <1>11 DEF Papers!Next,
     Papers!Pipe, Papers!Read

\* document_service.py: the inductive invariant of the pipeline of a request and
\* of those who correct it meanwhile.
THEOREM ReadingIsInvariant == Papers!ReadingConstants => (Papers!Spec => []Papers!ReadingInv)
<1> SUFFICES ASSUME Papers!ReadingConstants PROVE Papers!Spec => []Papers!ReadingInv
  OBVIOUS
<1>1. Papers!Init => Papers!ReadingInv
  BY InitKeeps
<1>2. Papers!ReadingInv /\ [Papers!Next]_(Papers!vars) => Papers!ReadingInv'
  BY StepKeeps
<1> QED BY <1>1, <1>2, PTL DEF Papers!Spec

\* document_service.process_document: no document is stored as being read, however
\* its reader ends.
THEOREM ReadingsEnd == Papers!ReadingConstants => (Papers!Spec => []Papers!NoReadingLeftBehind)
<1>1. Papers!ReadingInv => Papers!NoReadingLeftBehind
  BY DEF Papers!ReadingInv, Papers!NobodySeesAReading, Papers!NoReadingLeftBehind
<1> QED BY <1>1, ReadingIsInvariant, PTL

\* Who writes fields, and who reports that the pipeline is through.
LEMMA WhoWrites ==
    ASSUME Papers!ReadingInv, [Papers!Next]_(Papers!vars)
    PROVE  /\ \/ UNCHANGED field
              \/ \E s \in Papers!Readers : Papers!ReadDocument(s)
              \/ \E h \in People, d \in Documents : Papers!CorrectField(h, d)
           /\ job' = "completed" => job = "completed" \/ Papers!Reconcile
<1>1. CASE Papers!StartPipeline
  BY <1>1 DEF Papers!StartPipeline, Papers!rows
<1>2. CASE Papers!ClassifyRequest
  BY <1>2 DEF Papers!ClassifyRequest
<1>3. CASE Papers!Reconcile
  BY <1>3 DEF Papers!Reconcile
<1>4. CASE Papers!Crash
  BY <1>4 DEF Papers!Crash, Papers!rows
<1>5. ASSUME NEW s \in Papers!Readers, Papers!Begin(s) PROVE UNCHANGED <<field, job>>
  BY <1>5 DEF Papers!Begin, Papers!rows
<1>6. ASSUME NEW s \in Papers!Readers, Papers!ReadDocument(s) PROVE UNCHANGED job
  BY <1>6 DEF Papers!ReadDocument
<1>7. ASSUME NEW s \in Papers!Readers, Papers!Break(s) PROVE UNCHANGED field
             /\ (job' = job \/ job' = "failed")
  BY <1>7 DEF Papers!Break, Papers!rows
<1>8. ASSUME NEW x \in Reruns, Papers!StartRerun(x) PROVE UNCHANGED <<field, job>>
  BY <1>8 DEF Papers!StartRerun, Papers!rows
<1>9. ASSUME NEW h \in People, Papers!Open(h) \/ Papers!OverrideCategory(h) \/ Papers!Leave(h)
      PROVE  UNCHANGED <<field, job>>
  BY <1>9 DEF Papers!Open, Papers!OverrideCategory, Papers!Leave, Papers!rows
<1>10. ASSUME NEW h \in People, NEW d \in Documents, Papers!CorrectField(h, d) PROVE UNCHANGED job
  BY <1>10 DEF Papers!CorrectField
<1>11. ASSUME NEW h \in People, NEW d \in Documents, Papers!Confirm(h,
       d) \/ \E x \in Reruns : Papers!Reclassify(h, d, x)
       PROVE  UNCHANGED <<field, job>>
  BY <1>11 DEF Papers!Confirm, Papers!Reclassify
<1>12. CASE UNCHANGED Papers!vars
  BY <1>12 DEF Papers!vars, Papers!rows
<1> QED BY <1>1, <1>2, <1>3, <1>4, <1>5, <1>6, <1>7, <1>8, <1>9, <1>10, <1>11, <1>12
        DEF Papers!Next, Papers!Pipe, Papers!Read

\* document_service._write_fields, documents.py: what the machine first read
\* of a field is kept, through readings and corrections from whatever copy.
THEOREM OriginalStays == Papers!ReadingConstants => (Papers!Spec => Papers!OriginalIsKept)
<1> SUFFICES ASSUME Papers!ReadingConstants PROVE Papers!Spec => Papers!OriginalIsKept
  OBVIOUS
<1>1. ASSUME Papers!ReadingInv, [Papers!Next]_(Papers!vars), NEW d \in Documents,
       field[d].present, field'[d].present
      PROVE  field'[d].original = field[d].original
  <2>1. CASE UNCHANGED field
    BY <2>1
  <2>2. ASSUME NEW s \in Papers!Readers,
         Papers!ReadDocument(s) PROVE field'[d].original = field[d].original
    <3>1. PICK o \in Papers!Outcomes(s, at[s], s = Papers!Pipeline) :
            at[s] \in Documents
            /\ field' = [field EXCEPT ![at[s]] = Papers!FieldWritten(s, at[s], o.field)]
      BY <1>1, <2>2, ReadingCommits, Zenon
    <3>2. (s = Papers!Pipeline) \in BOOLEAN /\ field \in [Documents -> Papers!FieldRow]
      BY <1>1 DEF Papers!ReadingInv, Papers!TypeOK
    <3>3. field[at[s]].present /\ Papers!FieldWritten(s, at[s], o.field).present =>
              Papers!FieldWritten(s, at[s], o.field).original = field[at[s]].original
      BY <1>1, <3>1, <3>2, WrittenIsSound
    <3> QED BY <1>1, <3>1, <3>2, <3>3
  <2>3. ASSUME NEW h \in People, NEW e \in Documents, Papers!CorrectField(h, e)
        PROVE  field'[d].original = field[d].original
    BY <1>1, <2>3, CorrectionIsSound
  <2> QED BY <1>1, <2>1, <2>2, <2>3, WhoWrites
<1>2. Papers!ReadingInv /\ [Papers!Next]_(Papers!vars) =>
        [\A d \in Documents :
            field[d].present /\ field'[d].present /\ field[d].original # Papers!NoValue
                => field'[d].original = field[d].original]_(Papers!vars)
  BY <1>1
<1> QED BY <1>2, ReadingIsInvariant, PTL DEF Papers!Spec, Papers!OriginalIsKept

\* Only a session of its own moves a reader.
LEMMA OnlyItself ==
    ASSUME Papers!ReadingConstants, Papers!ReadingInv, NEW s \in Papers!Readers, pc[s] = "read"
    PROVE  /\ \A r \in Papers!Readers : Papers!ReadDocument(r) /\ r # s => pc'[s] = "read"
           /\ \A h \in People, d \in Documents : Papers!CorrectField(h, d) => pc'[s] = "read"
<1>1. s \in Papers!Sessions /\ pc \in [Papers!Sessions -> Places]
  BY RowsAreTyped DEF Papers!Sessions
<1>2. ASSUME NEW r \in Papers!Readers, Papers!ReadDocument(r), r # s PROVE pc'[s] = "read"
  <2>1. \E c, place : Papers!Keep(r, c, place)
    <3>1. \/ Papers!Keep(r, Papers!Blank, "idle")
          \/ \E o : Papers!Keep(r, [copy[r] EXCEPT !.doc[at[r]] = o.row, !.field[at[r]] = o.field],
                         IF left[r] = {} THEN "reconcile" ELSE "begin")
      BY <1>2, ReadingCommits, Zenon DEF Papers!End
    <3> QED BY <3>1, Zenon
  <2> QED BY <1>1, <1>2, <2>1 DEF Papers!Keep
<1>3. ASSUME NEW h \in People, NEW d \in Documents, Papers!CorrectField(h, d) PROVE pc'[s] = "read"
  <2>1. pc[h] = "open" /\ Papers!Keep(h, Papers!Blank, "idle")
    BY <1>3 DEF Papers!CorrectField, Papers!End
  <2> QED BY <1>1, <2>1 DEF Papers!Keep
<1> QED BY <1>2, <1>3

\* document_service._write_fields: a reading that finds a value fixed by hand
\* leaves it, also when the schema of its type no longer asks for it.
THEOREM SeenCorrectionStays == Papers!ReadingConstants => (Papers!Spec => Papers!SeenCorrectionIsKept)
<1> SUFFICES ASSUME Papers!ReadingConstants PROVE Papers!Spec => Papers!SeenCorrectionIsKept
  OBVIOUS
<1>1. ASSUME Papers!ReadingInv, [Papers!Next]_(Papers!vars), NEW s \in Papers!Readers,
       pc[s] = "read", pc'[s] # "read",
             Papers!FieldSeen(s, at[s]).byHand
      PROVE  field'[at[s]] = field[at[s]]
  <2>1. CASE UNCHANGED field
    BY <2>1
  <2>2. CASE Papers!ReadDocument(s)
    <3>1. PICK o \in Papers!Outcomes(s, at[s], s = Papers!Pipeline) :
            at[s] \in Documents
            /\ field' = [field EXCEPT ![at[s]] = Papers!FieldWritten(s, at[s], o.field)]
      BY <1>1, <2>2, ReadingCommits, Zenon
    <3>2. (s = Papers!Pipeline) \in BOOLEAN /\ field \in [Documents -> Papers!FieldRow]
      BY <1>1 DEF Papers!ReadingInv, Papers!TypeOK
    <3>3. Papers!FieldWritten(s, at[s], o.field) = field[at[s]]
      BY <1>1, <3>1, <3>2, WrittenIsSound
    <3> QED BY <3>1, <3>2, <3>3
  <2> QED BY <1>1, <2>1, <2>2, WhoWrites, OnlyItself
<1>2. Papers!ReadingInv /\ [Papers!Next]_(Papers!vars) =>
        [\A s \in Papers!Readers :
            pc[s] = "read" /\ pc'[s] # "read" /\ Papers!FieldSeen(s, at[s]).byHand
                => field'[at[s]] = field[at[s]]]_(Papers!vars)
  BY <1>1
<1> QED BY <1>2, ReadingIsInvariant, PTL DEF Papers!Spec, Papers!SeenCorrectionIsKept

\* document_service.process_request: a pipeline that reports success leaves a
\* request that shows its doubts, whatever was decided about it meanwhile.
THEOREM DoubtsAreShown == Papers!ReadingConstants => (Papers!Spec => Papers!DoubtsReachTheRequest)
<1> SUFFICES ASSUME Papers!ReadingConstants PROVE Papers!Spec => Papers!DoubtsReachTheRequest
  OBVIOUS
<1>1. Papers!ReadingInv /\ [Papers!Next]_(Papers!vars) =>
        [job # "completed" /\ job' = "completed" /\ Papers!SomethingDoubtful
            => request'.review \/ request'.overridden]_(Papers!vars)
  BY WhoWrites, ReconcileShows
<1> QED BY <1>1, ReadingIsInvariant, PTL DEF Papers!Spec, Papers!DoubtsReachTheRequest
=============================================================================
