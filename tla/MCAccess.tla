-------------------------------- MODULE MCAccess --------------------------------
(***************************************************************************)
(* Small instances of the keys and tokens that requests in and out of the  *)
(* platform are checked by, beside what MCOutward asks of the providers.   *)
(***************************************************************************)
EXTENDS MCOutward

VARIABLES
    keyNow, since, gone, keys, fetchedAt, keyQueue, asker, keyFaults,
    tokenNow, revoked, cached, cachedUntil, tokenQueue, call, tokenFaults

keyVars == <<keyNow, since, gone, keys, fetchedAt, keyQueue, asker, keyFaults>>
tokenVars == <<tokenNow, revoked, cached, cachedUntil, tokenQueue, call, tokenFaults>>
accessVars == <<keyVars, tokenVars, outwardVars>>

\* One request at a time, and calls that fail.
Key == INSTANCE SigningKeys
    WITH Kids <- {"k1", "k2"}, FirstKid <- "k1", Requests <- {"r1"}, Ttl <- 2, Flight <- 1,
         LastTick <- 5, MaxFaults <- MaxSlips,
         now <- keyNow, queue <- keyQueue, request <- asker, faults <- keyFaults

\* Two requests that wait for one read.
Keys == INSTANCE SigningKeys
    WITH Kids <- {"k1", "k2"}, FirstKid <- "k1", Requests <- {"r1", "r2"}, Ttl <- 1, Flight <- 1,
         LastTick <- 3, MaxFaults <- 0,
         now <- keyNow, queue <- keyQueue, request <- asker, faults <- keyFaults

\* One call at a time, and tokens that are taken back twice.
Token == INSTANCE MailboxToken
    WITH Calls <- {"c1"}, Life <- 4, Margin <- 2, Flight <- 1,
         LastTick <- 9, MaxFaults <- MaxSlips, MaxRevocations <- 2,
         now <- tokenNow, queue <- tokenQueue, faults <- tokenFaults

\* Two calls at once.
Tokens == INSTANCE MailboxToken
    WITH Calls <- {"c1", "c2"}, Life <- 4, Margin <- 2, Flight <- 1,
         LastTick <- 6, MaxFaults <- MaxSlips, MaxRevocations <- 1,
         now <- tokenNow, queue <- tokenQueue, faults <- tokenFaults

ASSUME AccessConstants ==
    Key!KeyBounds /\ Keys!KeyBounds /\ Token!TokenBounds /\ Tokens!TokenBounds

AccessParts == OutwardParts \cup {"key", "keys", "token", "tokens"}

AccessInit ==
    /\ OutwardInit
    /\ IF part = "keys" THEN Keys!Init ELSE Key!Init
    /\ IF part = "tokens" THEN Tokens!Init ELSE Token!Init

AccessNext ==
    \/ OutwardNext /\ UNCHANGED <<keyVars, tokenVars>>
    \/ /\ UNCHANGED <<part, tokenVars, outwardVars>>
       /\ \/ part = "key" /\ Key!Next
          \/ part = "keys" /\ Keys!Next
    \/ /\ UNCHANGED <<part, keyVars, outwardVars>>
       /\ \/ part = "token" /\ Token!Next
          \/ part = "tokens" /\ Tokens!Next

-----------------------------------------------------------------------------
\* The types of the keys and the tokens (SigningKeys.TypeOK, MailboxToken.TypeOK).
AccessTypeOK ==
    /\ OutwardTypeOK
    /\ part = "key" => Key!TypeOK
    /\ part = "keys" => Keys!TypeOK
    /\ part = "token" => Token!TypeOK
    /\ part = "tokens" => Tokens!TypeOK

\* A withdrawn key opens nothing once no cache of before can be in use.
WithdrawnKeyEnds ==
    /\ part = "key" => Key!WithdrawnKeyEnds
    /\ part = "keys" => Keys!WithdrawnKeyEnds

\* No request is told that a key is unknown which its read must have held.
UnknownIsNotPublished ==
    /\ part = "key" => Key!UnknownIsNotPublished
    /\ part = "keys" => Keys!UnknownIsNotPublished

\* A token nobody took back is not refused for its age.
RefusedWasTakenBack ==
    /\ part = "token" => Token!RefusedWasTakenBack
    /\ part = "tokens" => Tokens!RefusedWasTakenBack

\* A call that is refused twice saw a revocation of its own.
RefusalIsNew ==
    /\ part = "token" => Token!RefusalIsNew
    /\ part = "tokens" => Tokens!RefusalIsNew

\* One call at a time: two refusals are of two revocations.
RefusedTwiceWasRevokedTwice == part = "token" => Token!RefusedTwiceWasRevokedTwice

-----------------------------------------------------------------------------
\* What the providers decide is what counts here: the roles they granted, the
\* keys they publish, the tokens they have not taken back.
AccessIsTheProviders ==
    /\ RolesAreTheProviders
    /\ WithdrawnKeyEnds /\ UnknownIsNotPublished
    /\ RefusedWasTakenBack /\ RefusalIsNew /\ RefusedTwiceWasRevokedTwice
=============================================================================
