------------------------------- MODULE MCOutward -------------------------------
(***************************************************************************)
(* Small instances of what the platform asks of the mailbox and of the     *)
(* identity provider.  A behaviour runs the part chosen at the start.      *)
(***************************************************************************)
EXTENDS Integers, FiniteSets, TLC

CONSTANT MaxSlips

ASSUME OutwardBounds == MaxSlips \in Nat

VARIABLES
    part,
    row, mailbox, act, mailSlips, crashes,
    live, held, awake, ever, lapses, drops,
    realm, granted, token, mirror, work, asking, overrides, slips

replyVars == <<row, mailbox, act, mailSlips, crashes>>
watchVars == <<live, held, awake, ever, lapses, drops>>
roleVars == <<realm, granted, token, mirror, work, asking, overrides, slips>>
outwardVars == <<replyVars, watchVars, roleVars>>
ovars == <<part, outwardVars>>

\* One person who answers two threads.
Clerk == INSTANCE MailReplies
    WITH Replies <- {"r1", "r2"}, People <- {"p1"}, MayBeLost <- TRUE,
         MaxFaults <- MaxSlips + 1, MaxCrashes <- 0, faults <- mailSlips

\* One person, every answer of the provider arrives.
Prompt == INSTANCE MailReplies
    WITH Replies <- {"r1", "r2"}, People <- {"p1"}, MayBeLost <- FALSE,
         MaxFaults <- MaxSlips + 1, MaxCrashes <- 0, faults <- mailSlips

\* Two people at one reply, whose process may stop.
Writers == INSTANCE MailReplies
    WITH Replies <- {"r1"}, People <- {"p1", "p2"}, MayBeLost <- TRUE,
         MaxFaults <- MaxSlips, MaxCrashes <- 1, faults <- mailSlips

\* A subscription whose margin is longer than the calls that fail.
Watch == INSTANCE MailboxWatch
    WITH Ids <- 1..2, Ttl <- 4, Margin <- 2, MaxFaults <- MaxSlips, MaxDrops <- 1, due <- awake

FirstRoles == {"sales", "offline"}

\* One administrator, and one request of the person at a time.
Mirror == INSTANCE RoleMirror
    WITH Roles <- {"sales", "finance"}, Foreign <- {"offline"}, Admins <- {"a1"},
         Requests <- {"q1"}, MaxChanges <- 2, MaxFaults <- MaxSlips,
         ever <- granted, row <- mirror, request <- asking, changes <- overrides

\* Two administrators, and two requests.
Mirrors == INSTANCE RoleMirror
    WITH Roles <- {"sales", "finance"}, Foreign <- {"offline"}, Admins <- {"a1", "a2"},
         Requests <- {"q1", "q2"}, MaxChanges <- 2, MaxFaults <- MaxSlips,
         ever <- granted, row <- mirror, request <- asking, changes <- overrides

ASSUME OutwardConstants ==
    /\ Clerk!ReplyBounds /\ Prompt!ReplyBounds /\ Writers!ReplyBounds
    /\ Watch!WatchBounds /\ Mirror!MirrorBounds /\ Mirrors!MirrorBounds

OutwardParts == {"replies", "prompt", "writers", "watch", "mirror", "mirrors"}

OutwardInit ==
    /\ IF part = "writers" THEN Writers!Init ELSE Clerk!Init
    /\ Watch!Init
    /\ IF part = "mirrors" THEN Mirrors!Init ELSE Mirror!Init

OutwardNext ==
    /\ UNCHANGED part
    /\ \/ /\ UNCHANGED <<watchVars, roleVars>>
          /\ \/ part = "replies" /\ Clerk!Next
             \/ part = "prompt" /\ Prompt!Next
             \/ part = "writers" /\ Writers!Next
       \/ part = "watch" /\ Watch!Next /\ UNCHANGED <<replyVars, roleVars>>
       \/ /\ UNCHANGED <<replyVars, watchVars>>
          /\ \/ part = "mirror" /\ Mirror!Next
             \/ part = "mirrors" /\ Mirrors!Next

WatchStep(A) == part = "watch" /\ A /\ UNCHANGED <<part, replyVars, roleVars>>
MirrorStep(A) == part = "mirror" /\ A /\ UNCHANGED <<part, replyVars, watchVars>>

\* The fairness of the worker, of requests and of a person who signs in.
OutwardFairness ==
    /\ WF_ovars(WatchStep(Watch!Ensure)) /\ WF_ovars(WatchStep(Watch!Tick))
    /\ WF_ovars(MirrorStep(Mirror!Override("a1"))) /\ WF_ovars(MirrorStep(Mirror!SignIn))
    /\ WF_ovars(MirrorStep(Mirror!Serve("q1")))

-----------------------------------------------------------------------------
\* The types of the replies (MailReplies.TypeOK).
ReplyTypeOK ==
    /\ part \in {"replies", "prompt"} => Clerk!TypeOK
    /\ part = "writers" => Writers!TypeOK

\* The types of the mailbox subscription (MailboxWatch.TypeOK).
WatchTypeOK == part = "watch" => Watch!TypeOK

\* A renewal that fails and a restart leave the mailbox watched.
StaysWatched == part = "watch" => Watch!StaysWatched

\* A dropped subscription is replaced in the end.
WatchedAgain == (part = "watch") => Watch!WatchedAgain

\* The types of the role mirror (RoleMirror.TypeOK).
MirrorTypeOK ==
    /\ part = "mirror" => Mirror!TypeOK
    /\ part = "mirrors" => Mirrors!TypeOK

\* No role in the platform's row that the provider never granted.
MirrorWasGranted == Mirror!MirrorWasGranted

\* An override leaves the provider's own roles alone.
ForeignStays == Mirror!ForeignStays

\* One administrator at a time: confirmed is what the provider holds.
ConfirmedIsHeld == part = "mirror" => Mirror!ConfirmedIsHeld

\* The mirror agrees with the provider in the end.
MirrorCatchesUp == (part = "mirror") => Mirror!MirrorCatchesUp

-----------------------------------------------------------------------------
\* Replies, the mailbox subscription and the role mirror have their types.
OutwardTypeOK == ReplyTypeOK /\ WatchTypeOK /\ MirrorTypeOK

\* What the row of a reply says of the mailbox is so: sent was accepted, whoever
\* races; one person sends it once; no answer lost, withdrawn was not sent.
RepliesAreHonest ==
    /\ part = "replies" => Clerk!RepliesAreHonest
    /\ part = "prompt" => Prompt!RepliesAreHonest
    /\ part = "writers" => Writers!RepliesAreHonest

\* The provider decides on roles: the platform's row holds nothing it did not
\* grant, confirms nothing it does not hold, and takes nothing else from it.
RolesAreTheProviders == MirrorWasGranted /\ ConfirmedIsHeld /\ ForeignStays

\* What is watched and mirrored recovers from a lost subscription, a failed call
\* and an old token.
OutsideCatchesUp == WatchedAgain /\ MirrorCatchesUp
=============================================================================
