------------------------------ MODULE MailboxToken ------------------------------
(***************************************************************************)
(* The application token every call to Microsoft Graph carries: cached for *)
(* the process until shortly before its end, asked for by one call at a    *)
(* time, and dropped and asked for once more when a call is refused.       *)
(***************************************************************************)
EXTENDS Integers, Sequences

CONSTANTS
    Calls,
    Life,     \* how long a token is good
    Margin,   \* before its end it is not used any more
    Flight,   \* how long a request takes at most
    LastTick, MaxFaults, MaxRevocations

TokenBounds ==
    /\ {Life, Margin, Flight, LastTick, MaxFaults, MaxRevocations} \subseteq Nat
    /\ 2 * Flight <= Margin /\ 2 * Flight < Life

VARIABLES
    now,
    revoked,     \* times the provider took back every token it had given
    cached,      \* the token in hand, or NoToken
    cachedUntil, \* when it is not used any more
    queue,       \* who holds the lock, and who waits for it
    call,        \* call -> where it is
    faults

tvars == <<now, revoked, cached, cachedUntil, queue, call, faults>>

NoToken == [until |-> 0, era |-> -1]
Over == {"idle", "done", "lost", "refused"}
NoCall == [pc |-> "idle", tries |-> 0, token |-> NoToken, at |-> 0, before |-> 0]

Ended(how) == [NoCall EXCEPT !.pc = how]

\* What the provider says of a token.
Good(t) == now < t.until /\ t.era = revoked

Init ==
    /\ now = 0 /\ revoked = 0
    /\ cached = NoToken /\ cachedUntil = 0 /\ queue = <<>>
    /\ call = [c \in Calls |-> NoCall]
    /\ faults = 0

Usable(t, until) == t # NoToken /\ now < until
Sent(from, t) == [from EXCEPT !.pc = "sent", !.token = t, !.at = now, !.tries = @ + 1]

\* GraphClient.access_token, up to the call it may wait for, with what is in
\* hand then.
Need(c, from, t, until) ==
    \/ /\ Usable(t, until)
       /\ call' = [call EXCEPT ![c] = Sent(from, t)]
       /\ UNCHANGED queue
    \/ /\ ~Usable(t, until)
       /\ call' = [call EXCEPT ![c] =
                      [from EXCEPT !.pc = IF queue = <<>> THEN "asking" ELSE "waiting", !.at = now]]
       /\ queue' = Append(queue, c)

Begin(c) ==
    /\ call[c].pc \in Over
    /\ Need(c, [NoCall EXCEPT !.before = revoked], cached, cachedUntil)
    /\ UNCHANGED <<now, revoked, cached, cachedUntil, faults>>

Holds(c, pc) == queue # <<>> /\ Head(queue) = c /\ call[c].pc = pc

\* The lock is free: what another call fetched meanwhile is used.
Resume(c) ==
    /\ Holds(c, "waiting")
    /\ \/ /\ Usable(cached, cachedUntil)
          /\ call' = [call EXCEPT ![c] = Sent(@, cached)]
          /\ queue' = Tail(queue)
       \/ /\ ~Usable(cached, cachedUntil)
          /\ call' = [call EXCEPT ![c].pc = "asking", ![c].at = now]
          /\ UNCHANGED queue
    /\ UNCHANGED <<now, revoked, cached, cachedUntil, faults>>

\* The provider gives a token.
Issue(c) ==
    /\ Holds(c, "asking")
    /\ call' = [call EXCEPT ![c].pc = "issued", ![c].token = [until |-> now + Life, era |-> revoked]]
    /\ UNCHANGED <<now, revoked, cached, cachedUntil, queue, faults>>

\* How long a token that arrives is used: its life as of its arrival, less the
\* margin, and not at all where nothing is left.
UsedUntil == now + (IF Life > Margin THEN Life - Margin ELSE 0)

Take(c) ==
    /\ Holds(c, "issued")
    /\ cached' = call[c].token /\ cachedUntil' = UsedUntil
    /\ queue' = Tail(queue)
    /\ call' = [call EXCEPT ![c] = Sent(@, @.token)]
    /\ UNCHANGED <<now, revoked, faults>>

\* The provider answers the request itself.
Judge(c) ==
    /\ call[c].pc = "sent"
    /\ call' = [call EXCEPT ![c].pc = IF Good(call[c].token) THEN "fine" ELSE "unauthorised"]
    /\ UNCHANGED <<now, revoked, cached, cachedUntil, queue, faults>>

\* Whatever is in hand is dropped, be it the token that was refused or not.
ClearToken(c) ==
    /\ cached' = NoToken /\ cachedUntil' = 0
    /\ Need(c, call[c], NoToken, 0)

\* GraphClient._request, when it has its answer.
Receive(c) ==
    /\ \/ /\ call[c].pc = "fine"
          /\ call' = [call EXCEPT ![c] = Ended("done")]
          /\ UNCHANGED <<cached, cachedUntil, queue>>
       \/ call[c].pc = "unauthorised" /\ call[c].tries = 1 /\ ClearToken(c)
       \/ /\ call[c].pc = "unauthorised" /\ call[c].tries = 2
          /\ call' = [call EXCEPT ![c].pc = "refused"]
          /\ UNCHANGED <<cached, cachedUntil, queue>>
    /\ UNCHANGED <<now, revoked, faults>>

\* No connection, or a token that is not given or not to be read.
Fail(c) ==
    /\ faults < MaxFaults /\ faults' = faults + 1
    /\ \/ /\ Holds(c, "asking") \/ Holds(c, "issued")
          /\ queue' = Tail(queue)
       \/ call[c].pc \in {"sent", "fine", "unauthorised"} /\ UNCHANGED queue
    /\ call' = [call EXCEPT ![c] = Ended("lost")]
    /\ UNCHANGED <<now, revoked, cached, cachedUntil>>

Revoke ==
    /\ revoked < MaxRevocations /\ revoked' = revoked + 1
    /\ UNCHANGED <<now, cached, cachedUntil, queue, call, faults>>

\* No request outlives Flight, and whoever gets the lock goes on at once.
Tick ==
    /\ now < LastTick /\ now' = now + 1
    /\ queue # <<>> => call[Head(queue)].pc # "waiting"
    /\ \A c \in Calls : call[c].pc \in Over \cup {"waiting"} \/ now < call[c].at + Flight
    /\ UNCHANGED <<revoked, cached, cachedUntil, queue, call, faults>>

Next ==
    \/ \E c \in Calls :
        Begin(c) \/ Resume(c) \/ Issue(c) \/ Take(c) \/ Judge(c) \/ Receive(c) \/ Fail(c)
    \/ Revoke \/ Tick

Spec == Init /\ [][Next]_tvars

-----------------------------------------------------------------------------
\* Types, and: only the head of the queue is past the lock.
TypeOK ==
    /\ now \in 0..LastTick /\ revoked \in 0..MaxRevocations
    /\ cached.era \in -1..revoked
    /\ \A c \in Calls :
        /\ call[c].pc \in Over \cup {"waiting", "asking", "issued", "sent", "fine", "unauthorised"}
        /\ call[c].tries \in 0..2
        /\ call[c].pc \in {"asking", "issued"} => Head(queue) = c
        /\ call[c].pc \in {"waiting", "asking", "issued"} <=> \E i \in DOMAIN queue : queue[i] = c

\* graph_service.py: the margin is enough, so a token nobody took back is not
\* refused for its age, wherever the calls were when it came.
RefusedWasTakenBack ==
    \A c \in Calls : call[c].pc \in {"unauthorised", "refused"} => call[c].token.era < revoked

\* graph_service.py: the second attempt survives what was taken back before the
\* call began, so a call that is refused twice saw a revocation of its own.
RefusalIsNew == \A c \in Calls : call[c].pc = "refused" => call[c].before < revoked

\* One call at a time: two refusals are of two revocations.
RefusedTwiceWasRevokedTwice == \A c \in Calls : call[c].pc = "refused" => revoked >= 2

-----------------------------------------------------------------------------
\* Why the first two hold: the fields;
Tokens == [until : Nat, era : Nat \cup {-1}]
InLine == {"waiting", "asking", "issued"}
Asked == {"sent", "fine", "unauthorised"}
CallRow == [pc : Over \cup InLine \cup Asked, tries : 0..2, token : Tokens, at : Nat, before : Nat]

Fields ==
    /\ now \in 0..LastTick /\ revoked \in 0..MaxRevocations /\ faults \in Nat
    /\ cached \in Tokens /\ cachedUntil \in Nat
    /\ queue \in Seq(Calls) /\ call \in [Calls -> CallRow]

\* the lock is held by one call, and those that wait stand once in the line;
OneLine ==
    /\ \A i, j \in DOMAIN queue : queue[i] = queue[j] => i = j
    /\ \A c \in Calls :
        /\ call[c].pc \in InLine <=> \E i \in DOMAIN queue : queue[i] = c
        /\ call[c].pc \in {"asking", "issued"} => queue[1] = c

\* nobody tries more than twice, and no call saw a revocation that was not;
Counts == \A c \in Calls :
    /\ call[c].tries = 0 => call[c].pc \notin Asked
    /\ call[c].pc = "refused" => call[c].tries = 2
    /\ call[c].tries = 2 => call[c].pc \in Asked \cup {"refused"}
    /\ call[c].token.era <= revoked /\ call[c].before <= revoked

\* a request that carries a token is answered before the token ends, because the
\* cached one is given up a margin before that;
InTime ==
    /\ cached.era <= revoked
    /\ cached = NoToken \/ cachedUntil <= now \/ cachedUntil + Margin <= cached.until + Flight
    /\ \A c \in Calls :
        /\ call[c].pc \in {"asking", "issued"} \cup Asked =>
            call[c].at <= now /\ now <= call[c].at + Flight
        /\ call[c].pc = "issued" => call[c].at + Life <= call[c].token.until
        /\ call[c].pc = "sent" => call[c].at + Flight < call[c].token.until

\* and what a second attempt carries was given after the call began: as long as
\* a token is asked for none is in hand, and before that everybody had begun
\* whose first attempt it will not serve.
Renewed ==
    /\ \A c \in Calls :
        /\ call[c].pc \in {"asking", "issued"} => ~Usable(cached, cachedUntil)
        /\ call[c].pc = "issued" =>
            \A d \in Calls : call[d].tries = 1 => call[d].before <= call[c].token.era
        /\ call[c].tries = 1 /\ call[c].pc \in InLine /\ Usable(cached, cachedUntil) =>
            call[c].before <= cached.era
        /\ call[c].tries = 2 => call[c].before <= call[c].token.era

TokenInv == Fields /\ OneLine /\ Counts /\ InTime /\ Renewed /\ RefusedWasTakenBack

\* Where one call is made at a time, its second token is of a later era.
LoneCall == \A c \in Calls :
    /\ call[c].tries = 1 /\ call[c].pc \in InLine => revoked >= 1 /\ ~Usable(cached, cachedUntil)
    /\ call[c].tries = 1 /\ call[c].pc = "issued" => call[c].token.era >= 1
    /\ call[c].tries = 2 => call[c].token.era >= 1
    /\ call[c].pc \in Asked \cup {"issued"} => call[c].token.era >= 0
    /\ Usable(cached, cachedUntil) => cached.era >= 0
=============================================================================
