------------------------------ MODULE MailReplies ------------------------------
(***************************************************************************)
(* Answers to a counterparty on the thread their message came in on:       *)
(* composed by one request, sent or withdrawn by another, each by a        *)
(* person.  The row of a reply lives here, its draft in the mailbox, and   *)
(* nothing locks the row while the provider is asked.                      *)
(***************************************************************************)
EXTENDS Integers, Sequences

CONSTANTS
    Replies,     \* replies somebody may compose
    People,      \* those who send and withdraw them
    MayBeLost,   \* whether the answer to a call that went through may be lost
    MaxFaults,   \* calls that fail
    MaxCrashes   \* requests cut between the provider and the commit

ReplyBounds == MayBeLost \in BOOLEAN /\ {MaxFaults, MaxCrashes} \subseteq Nat

VARIABLES
    row,      \* reply -> its status and the mailbox draft it remembers, 0 for none
    mailbox,  \* drafts in the order the provider made them: reply and state
    act,      \* person -> the request being served
    faults,
    crashes

rvars == <<row, mailbox, act, faults, crashes>>

Statuses == {"none", "draft", "sent", "failed", "withdrawn"}
NoAct == [doing |-> "nothing"]

Init ==
    /\ row = [r \in Replies |-> [status |-> "none", draft |-> 0]]
    /\ mailbox = <<>>
    /\ act = [p \in People |-> NoAct]
    /\ faults = 0 /\ crashes = 0

\* The call went through and said so; it was refused, or did not arrive; it
\* went through and the answer was lost or makes no sense.
Fine == UNCHANGED faults
Fault == faults < MaxFaults /\ faults' = faults + 1
Lost == MayBeLost /\ Fault

Carry(p, what) == act' = [act EXCEPT ![p].doing = what]
Close(p) == act' = [act EXCEPT ![p] = NoAct]

Compose(r) ==
    /\ row[r].status = "none"
    /\ row' = [row EXCEPT ![r].status = "draft"]
    /\ UNCHANGED <<mailbox, act, faults, crashes>>

\* A reply that was sent or withdrawn is not sent.
OpenSend(p, r) ==
    /\ act[p] = NoAct
    /\ row[r].status \in {"draft", "failed"}
    /\ act' = [act EXCEPT ![p] =
                [doing |-> IF row[r].draft = 0 THEN "drafting" ELSE "sending",
                 reply |-> r, seen |-> row[r], draft |-> row[r].draft]]
    /\ UNCHANGED <<row, mailbox, faults, crashes>>

\* Mutant: a draft with no id is taken for one.
CreateWithoutId(p) ==
    /\ act[p].doing = "drafting"
    /\ \/ /\ Fine \/ Lost
          /\ mailbox' = Append(mailbox, [reply |-> act[p].reply, state |-> "draft"])
          /\ act' = [act EXCEPT ![p].doing = "sending",
                                ![p].draft = IF faults' = faults THEN Len(mailbox) + 1 ELSE 0]
       \/ Fault /\ Carry(p, "failing") /\ UNCHANGED mailbox
    /\ UNCHANGED <<row, crashes>>

\* A reply whose provider draft has no id is a failure.
Create(p) ==
    /\ act[p].doing = "drafting"
    /\ \/ /\ Fine \/ Lost
          /\ mailbox' = Append(mailbox, [reply |-> act[p].reply, state |-> "draft"])
          /\ act' = [act EXCEPT ![p] = [act[p] EXCEPT
                        !.doing = IF faults' = faults THEN "sending" ELSE "failing",
                        !.draft = IF faults' = faults THEN Len(mailbox) + 1 ELSE 0]]
       \/ Fault /\ Carry(p, "failing") /\ UNCHANGED mailbox
    /\ UNCHANGED <<row, crashes>>

Post(p) ==
    /\ act[p].doing = "sending"
    /\ \/ /\ mailbox[act[p].draft].state = "draft"
          /\ mailbox' = [mailbox EXCEPT ![act[p].draft].state = "sent"]
          /\ \/ Fine /\ Carry(p, "recording")
             \/ Lost /\ Carry(p, "failing")
       \/ Fault /\ Carry(p, "failing") /\ UNCHANGED mailbox
       \/ /\ mailbox[act[p].draft].state # "draft"
          /\ Fine /\ Carry(p, "failing") /\ UNCHANGED mailbox
    /\ UNCHANGED <<row, crashes>>

\* The commit writes the columns this request changed.
RecordSent(p) ==
    LET r == act[p].reply IN
    /\ act[p].doing = "recording"
    /\ row' = [row EXCEPT ![r] =
                [status |-> "sent",
                 draft |-> IF act[p].draft = act[p].seen.draft THEN @.draft ELSE act[p].draft]]
    /\ Close(p)
    /\ UNCHANGED <<mailbox, faults, crashes>>

\* Mutant: the draft that was made is lost with the rollback.
RecordFailureOnly(p) ==
    /\ act[p].doing = "failing"
    /\ row' = [row EXCEPT ![act[p].reply].status = "failed"]
    /\ Close(p)
    /\ UNCHANGED <<mailbox, faults, crashes>>

RecordFailure(p) ==
    /\ act[p].doing = "failing"
    /\ row' = [row EXCEPT ![act[p].reply] = [status |-> "failed", draft |-> act[p].draft]]
    /\ Close(p)
    /\ UNCHANGED <<mailbox, faults, crashes>>

OpenWithdraw(p, r) ==
    /\ act[p] = NoAct
    /\ row[r].status \notin {"none", "sent"}
    /\ act' = [act EXCEPT ![p] =
                [doing |-> IF row[r].draft = 0 THEN "withdrawing" ELSE "discarding",
                 reply |-> r, seen |-> row[r], draft |-> row[r].draft]]
    /\ UNCHANGED <<row, mailbox, faults, crashes>>

\* A draft that cannot be discarded does not stop the withdrawal.
Discard(p) ==
    /\ act[p].doing = "discarding"
    /\ \/ /\ mailbox[act[p].draft].state = "draft"
          /\ mailbox' = [mailbox EXCEPT ![act[p].draft].state = "deleted"]
          /\ Fine \/ Lost
       \/ Fault /\ UNCHANGED mailbox
       \/ mailbox[act[p].draft].state # "draft" /\ Fine /\ UNCHANGED mailbox
    /\ Carry(p, "withdrawing")
    /\ UNCHANGED <<row, crashes>>

Withdraw(p) ==
    /\ act[p].doing = "withdrawing"
    /\ row' = IF act[p].seen.status = "withdrawn" THEN row
              ELSE [row EXCEPT ![act[p].reply].status = "withdrawn"]
    /\ Close(p)
    /\ UNCHANGED <<mailbox, faults, crashes>>

\* The process stops before the commit: the row knows of nothing.
Crash(p) ==
    /\ act[p] # NoAct /\ crashes < MaxCrashes
    /\ crashes' = crashes + 1
    /\ Close(p)
    /\ UNCHANGED <<row, mailbox, faults>>

Next ==
    \/ \E r \in Replies : Compose(r)
    \/ \E p \in People, r \in Replies : OpenSend(p, r) \/ OpenWithdraw(p, r)
    \/ \E p \in People :
        \/ Create(p) \/ Post(p) \/ RecordSent(p) \/ RecordFailure(p)
        \/ Discard(p) \/ Withdraw(p) \/ Crash(p)

Spec == Init /\ [][Next]_rvars

-----------------------------------------------------------------------------
\* Types, and: whoever sends or discards holds a draft of this reply.
TypeOK ==
    /\ \A r \in Replies : row[r].status \in Statuses /\ row[r].draft \in 0..Len(mailbox)
    /\ \A p \in People :
        act[p].doing \in {"sending", "recording", "discarding"} =>
            /\ act[p].draft \in DOMAIN mailbox
            /\ mailbox[act[p].draft].reply = act[p].reply

SentDrafts(r) == {i \in DOMAIN mailbox : mailbox[i] = [reply |-> r, state |-> "sent"]}

\* email_reply_service.py: a row never says "sent" of a reply the provider did
\* not accept, whoever else is at it and whatever is lost.
SaidSentWasAccepted ==
    \A r \in Replies : row[r].status = "sent" => SentDrafts(r) # {}

\* The retry of a failed send uses the draft that was made: one person at a
\* time sends a counterparty one message, also when the answer to a send that
\* went through was lost.
OneMessageLeaves == \A r \in Replies, i, j \in DOMAIN mailbox :
    {i, j} \subseteq SentDrafts(r) => i = j

\* requests.py, "Withdrawn. Nothing was sent.": one person at a time and with
\* no answer lost.
WithdrawnWasNotSent ==
    \A r \in Replies : row[r].status = "withdrawn" => SentDrafts(r) = {}

\* What a row says of the mailbox is so: sent was accepted; one person at a time
\* whose process does not stop sends it once; and if no answer is lost either,
\* withdrawn was not sent.
RepliesAreHonest ==
    LET alone == (\A p, q \in People : p = q) /\ MaxCrashes = 0
    IN /\ SaidSentWasAccepted
       /\ alone => OneMessageLeaves
       /\ alone /\ ~MayBeLost => WithdrawnWasNotSent

-----------------------------------------------------------------------------
(* Why: what a row and a request remember of the mailbox. *)

Act == [doing : {"drafting", "sending", "recording", "failing", "discarding", "withdrawing"},
        reply : Replies, seen : [status : Statuses, draft : Nat], draft : Nat]
Mail == [reply : Replies, state : {"draft", "sent", "deleted"}]
Busy(p) == act[p].doing # "nothing"

Fields ==
    /\ row \in [Replies -> [status : Statuses, draft : Nat]]
    /\ mailbox \in Seq(Mail)
    /\ act \in [People -> Act \cup {NoAct}]
    /\ faults \in Nat /\ crashes \in Nat

\* 0, or a draft of this reply.
DraftOf(r, i) == i = 0 \/ (i \in DOMAIN mailbox /\ mailbox[i].reply = r)

OwnDrafts ==
    /\ \A r \in Replies : DraftOf(r, row[r].draft)
    /\ \A p \in People : Busy(p) => DraftOf(act[p].reply, act[p].draft)
    /\ \A p \in People : act[p].doing \in {"sending", "recording", "discarding"} => act[p].draft # 0

\* Who records a sent reply has seen its draft accepted.
RecordedWasSent ==
    \A p \in People : act[p].doing = "recording" => mailbox[act[p].draft].state = "sent"

ReplyInv == Fields /\ OwnDrafts /\ RecordedWasSent /\ SaidSentWasAccepted

\* One person at a time: what a request has read of its reply stands, and of
\* what is sent the row remembers the draft, or the one request does.
ReadStands ==
    \A p \in People : Busy(p) =>
        /\ act[p].seen = row[act[p].reply] /\ act[p].seen.status # "none"
        /\ act[p].seen.draft # 0 => act[p].draft = act[p].seen.draft
        /\ act[p].doing = "drafting" => act[p].seen.draft = 0

SentIsRemembered ==
    \A r \in Replies : \A i \in SentDrafts(r) :
        \/ row[r].draft = i
        \/ /\ row[r].draft = 0
           /\ \E p \in People : /\ act[p].doing \in {"recording", "failing"}
                               /\ act[p].reply = r /\ act[p].draft = i

\* And no answer lost: what is sent says so, or is about to.
SentIsSaid ==
    /\ \A p \in People :
        /\ act[p].doing \in {"drafting", "sending", "recording", "failing"} =>
               act[p].seen.status \in {"draft", "failed"}
        /\ act[p].doing \in {"discarding", "withdrawing"} => act[p].seen.status # "sent"
    /\ \A r \in Replies : SentDrafts(r) # {} =>
        row[r].status = "sent" \/ \E p \in People : act[p].doing = "recording" /\ act[p].reply = r
=============================================================================
