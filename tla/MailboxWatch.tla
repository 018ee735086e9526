------------------------------ MODULE MailboxWatch ------------------------------
(***************************************************************************)
(* The change-notification subscription on the mailbox, and the keeper     *)
(* that makes and renews it on every turn of the mailbox worker.  Time is  *)
(* what a subscription has left, in turns of the worker.                   *)
(***************************************************************************)
EXTENDS Integers

CONSTANTS
    Ids,        \* what the provider calls its subscriptions
    Ttl,        \* turns a new or renewed one lives
    Margin,     \* turns before its end at which it is renewed
    MaxFaults,  \* calls that fail, restarts
    MaxDrops    \* subscriptions the provider drops before their time

WatchBounds == Ttl \in Nat /\ Margin \in 0..Ttl /\ {MaxFaults, MaxDrops} \subseteq Nat

VARIABLES
    live,   \* provider: subscription -> turns left, 0 when there is none
    held,   \* keeper: the subscription it knows and what it has left, or NoHandle
    due,    \* whether the keeper's turn has come
    ever,   \* whether a subscription was made since the start
    lapses, \* faults and
    drops   \* drops so far

wvars == <<live, held, due, ever, lapses, drops>>

NoHandle == [known |-> FALSE]

Init ==
    /\ live = [i \in Ids |-> 0]
    /\ held = NoHandle /\ due = TRUE /\ ever = FALSE
    /\ lapses = 0 /\ drops = 0

Hold(i) ==
    /\ live' = [live EXCEPT ![i] = Ttl]
    /\ held' = [known |-> TRUE, id |-> i, left |-> Ttl]
    /\ ever' = TRUE
    /\ UNCHANGED lapses

\* The call fails, having done its work or not.
Slip == lapses < MaxFaults /\ lapses' = lapses + 1
Forget == held' = NoHandle /\ UNCHANGED ever

KeepAsItIs ==
    /\ held.known /\ held.left > Margin
    /\ UNCHANGED <<live, held, ever, lapses>>

\* Mutant: a subscription that is gone is tried for ever.
RenewForEver ==
    /\ held.known /\ held.left <= Margin
    /\ \/ live[held.id] > 0 /\ Hold(held.id)
       \/ live[held.id] = 0 /\ UNCHANGED <<live, held, ever, lapses>>

\* A renewal that fails makes the keeper forget the subscription.
Renew ==
    /\ held.known /\ held.left <= Margin
    /\ \/ live[held.id] > 0 /\ Hold(held.id)
       \/ live[held.id] = 0 /\ Forget /\ UNCHANGED <<live, lapses>>
       \/ /\ Slip /\ Forget
          /\ \/ UNCHANGED live
             \/ live[held.id] > 0 /\ live' = [live EXCEPT ![held.id] = Ttl]

Create ==
    /\ ~held.known
    /\ \E i \in Ids :
        /\ live[i] = 0
        /\ \/ Hold(i)
           \/ /\ Slip /\ UNCHANGED <<held, ever>>
              /\ \/ UNCHANGED live
                 \/ live' = [live EXCEPT ![i] = Ttl]

\* SubscriptionKeeper.ensure, before every poll.
Ensure ==
    /\ due /\ due' = FALSE
    /\ KeepAsItIs \/ Renew \/ Create
    /\ UNCHANGED drops

Less(n) == IF n = 0 THEN 0 ELSE n - 1

Tick ==
    /\ ~due /\ due' = TRUE
    /\ live' = [i \in Ids |-> Less(live[i])]
    /\ held' = IF held.known THEN [held EXCEPT !.left = Less(@)] ELSE held
    /\ UNCHANGED <<ever, lapses, drops>>

\* The keeper lives in memory only.
Restart ==
    /\ held.known /\ Slip
    /\ held' = NoHandle /\ due' = TRUE
    /\ UNCHANGED <<live, ever, drops>>

Drop(i) ==
    /\ live[i] > 0 /\ drops < MaxDrops
    /\ live' = [live EXCEPT ![i] = 0]
    /\ drops' = drops + 1
    /\ UNCHANGED <<held, due, ever, lapses>>

Next == Ensure \/ Tick \/ Restart \/ \E i \in Ids : Drop(i)

\* The worker loops for as long as it runs, and time passes.
Fairness == WF_wvars(Ensure) /\ WF_wvars(Tick)

Spec == Init /\ [][Next]_wvars /\ Fairness

-----------------------------------------------------------------------------
\* Types, and: what the keeper holds ends no later than it believes.
TypeOK ==
    /\ live \in [Ids -> 0..Ttl]
    /\ held.known => held.id \in Ids /\ held.left \in 0..Ttl /\ live[held.id] <= held.left
    /\ {due, ever} \subseteq BOOLEAN

Watched == \E i \in Ids : live[i] > 0

\* Once there was a subscription there is one, through a renewal that fails
\* and through a restart, unless the provider drops it.
StaysWatched == ever /\ drops = 0 => Watched

\* mailbox_worker.py: a subscription that is gone is replaced, so the mailbox is
\* watched again and again.
WatchedAgain == []<>Watched

-----------------------------------------------------------------------------
(* Why: every failure costs the subscription one turn of its margin at most. *)

\* What is left when the keeper's turn has come, and after it.
Enough(left) == IF due THEN left >= Margin ELSE left > Margin

\* Unless the provider dropped it, what the keeper holds is there, and ends as
\* the keeper believes.
HeldIsLive ==
    drops = 0 /\ held.known => live[held.id] = held.left /\ Enough(held.left)

FaultsCostTurns ==
    drops = 0 /\ ever => \E i \in Ids : Enough(live[i] + lapses)

WatchInv ==
    /\ TypeOK /\ held \in [known : {TRUE}, id : Ids, left : Nat] \cup {NoHandle}
    /\ lapses \in 0..MaxFaults /\ drops \in Nat
    /\ HeldIsLive /\ FaultsCostTurns
=============================================================================
