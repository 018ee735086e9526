------------------------------ MODULE SigningKeys ------------------------------
(***************************************************************************)
(* The identity provider's signing keys as every request looks them up: a  *)
(* cache of one process that is read anew when it is old or lacks a key,   *)
(* by one request at a time while the others wait for it.  A token that is *)
(* expired or not for the platform is refused whatever its key: left out.  *)
(***************************************************************************)
EXTENDS Integers, Sequences

CONSTANTS
    Kids,      \* keys, by the name a token gives, and
    FirstKid,  \* the one that is published at the start
    Requests,
    Ttl,       \* how long the cache is used
    Flight,    \* how long a call to the provider takes at most
    LastTick, MaxFaults

KeyBounds == FirstKid \in Kids /\ {Ttl, Flight, LastTick, MaxFaults} \subseteq Nat

VARIABLES
    now,
    since,     \* provider: key -> when it was published, Never before
    gone,      \* provider: key -> when it was withdrawn, Never before
    keys,      \* the cache, and
    fetchedAt, \* when it was filled
    queue,     \* who holds the lock, and who waits for it
    request,   \* request -> where it is
    faults

kvars == <<now, since, gone, keys, fetchedAt, queue, request, faults>>

Never == -1
Published == {k \in Kids : since[k] # Never /\ gone[k] = Never}
Over == {"idle", "accepted", "unknown", "unread"}
NoRequest == [pc |-> "idle", kid |-> FirstKid, arrived |-> 0, at |-> 0, renewed |-> FALSE, got |-> {}]

Init ==
    /\ now = 0
    /\ since = [k \in Kids |-> IF k = FirstKid THEN 0 ELSE Never]
    /\ gone = [k \in Kids |-> Never]
    /\ keys = {} /\ fetchedAt = 0 /\ queue = <<>>
    /\ request = [r \in Requests |-> NoRequest]
    /\ faults = 0

\* JWKSClient._cached_key.
Cached(k) == now - fetchedAt <= Ttl /\ k \in keys

\* What a request ends with: a key that is in hand, or none of that name.
Answer(k, inHand) == IF k \in inHand THEN "accepted" ELSE "unknown"
End(r, how) ==
    [request[r] EXCEPT !.pc = how, !.at = now, !.renewed = FALSE, !.got = {}]

\* decode_access_token, up to the first call it waits for.
Arrive(r, k) ==
    /\ request[r].pc \in Over /\ since[k] # Never
    /\ LET At(pc) == [NoRequest EXCEPT !.pc = pc, !.kid = k, !.arrived = now, !.at = now]
       IN \/ /\ Cached(k)
             /\ request' = [request EXCEPT ![r] = At(Answer(k, keys))]
             /\ UNCHANGED queue
          \/ /\ ~Cached(k)
             /\ request' = [request EXCEPT ![r] = At(IF queue = <<>> THEN "asking" ELSE "waiting")]
             /\ queue' = Append(queue, r)
    /\ UNCHANGED <<now, since, gone, keys, fetchedAt, faults>>

Holds(r, pc) == queue # <<>> /\ Head(queue) = r /\ request[r].pc = pc

\* The lock is free: a miss that refreshed meanwhile is enough.
Resume(r) ==
    /\ Holds(r, "waiting")
    /\ \/ /\ request[r].renewed
          /\ request' = [request EXCEPT ![r] = End(r, Answer(@.kid, keys))]
          /\ queue' = Tail(queue)
       \/ /\ ~request[r].renewed
          /\ request' = [request EXCEPT ![r].pc = "asking", ![r].at = now]
          /\ UNCHANGED queue
    /\ UNCHANGED <<now, since, gone, keys, fetchedAt, faults>>

\* The provider reads its keys.
Serve(r) ==
    /\ Holds(r, "asking")
    /\ request' = [request EXCEPT ![r].pc = "served", ![r].got = Published]
    /\ UNCHANGED <<now, since, gone, keys, fetchedAt, queue, faults>>

\* Whoever waits has the cache renewed under it.
Renew(r, how) ==
    [q \in Requests |->
        CASE q = r -> End(r, how)
          [] request[q].pc = "waiting" -> [request[q] EXCEPT !.renewed = TRUE]
          [] OTHER -> request[q]]

\* JWKSClient.refresh, after its call; no keys at all are an error.
Receive(r) ==
    /\ Holds(r, "served")
    /\ queue' = Tail(queue)
    /\ \/ /\ request[r].got # {}
          /\ keys' = request[r].got /\ fetchedAt' = now
          /\ request' = Renew(r, Answer(request[r].kid, request[r].got))
       \/ /\ request[r].got = {}
          /\ request' = [request EXCEPT ![r] = End(r, "unread")]
          /\ UNCHANGED <<keys, fetchedAt>>
    /\ UNCHANGED <<now, since, gone, faults>>

\* The call fails or its answer is not to be read: the cache stays.
Fail(r) ==
    /\ Holds(r, "asking") \/ Holds(r, "served")
    /\ faults < MaxFaults /\ faults' = faults + 1
    /\ queue' = Tail(queue)
    /\ request' = [request EXCEPT ![r] = End(r, "unread")]
    /\ UNCHANGED <<now, since, gone, keys, fetchedAt>>

Publish(k) ==
    /\ since[k] = Never
    /\ since' = [since EXCEPT ![k] = now]
    /\ UNCHANGED <<now, gone, keys, fetchedAt, queue, request, faults>>

Withdraw(k) ==
    /\ k \in Published
    /\ gone' = [gone EXCEPT ![k] = now]
    /\ UNCHANGED <<now, since, keys, fetchedAt, queue, request, faults>>

\* No call outlives Flight, and whoever gets the lock goes on at once.
Tick ==
    /\ now < LastTick /\ now' = now + 1
    /\ queue # <<>> =>
        LET r == Head(queue) IN request[r].pc # "waiting" /\ now < request[r].at + Flight
    /\ UNCHANGED <<since, gone, keys, fetchedAt, queue, request, faults>>

Next ==
    \/ \E r \in Requests :
        \/ \E k \in Kids : Arrive(r, k)
        \/ Resume(r) \/ Serve(r) \/ Receive(r) \/ Fail(r)
    \/ \E k \in Kids : Publish(k) \/ Withdraw(k)
    \/ Tick

Spec == Init /\ [][Next]_kvars

-----------------------------------------------------------------------------
\* Types, and: only the head of the queue is past the lock.
TypeOK ==
    /\ {now, fetchedAt} \subseteq 0..LastTick
    /\ keys \subseteq Kids
    /\ \A k \in Kids : gone[k] # Never => since[k] \in 0..gone[k]
    /\ \A r \in Requests :
        /\ request[r].pc \in Over \cup {"waiting", "asking", "served"}
        /\ request[r].pc \in Over <=> \A i \in DOMAIN queue : queue[i] # r
        /\ request[r].pc \in {"asking", "served"} => Head(queue) = r

\* security.py: a key the provider withdrew opens nothing once the cache that
\* was read before can no longer be in use, however many requests share reads.
WithdrawnKeyEnds ==
    \A r \in Requests :
        request[r].pc = "accepted" /\ gone[request[r].kid] # Never
            => request[r].at <= gone[request[r].kid] + Ttl + Flight

\* security.py: "a key the identity provider does not publish" is said only of a
\* key that is withdrawn, or was published while the read was under way that
\* the request shared.
UnknownIsNotPublished ==
    \A r \in Requests :
        request[r].pc = "unknown" =>
            \/ gone[request[r].kid] # Never
            \/ since[request[r].kid] >= request[r].arrived - Flight

-----------------------------------------------------------------------------
\* Why the two hold: the fields;
RequestRow ==
    [pc : Over \cup {"waiting", "asking", "served"}, kid : Kids, arrived : Nat, at : Nat,
     renewed : BOOLEAN, got : SUBSET Kids]

Fields ==
    /\ {now, fetchedAt} \subseteq 0..LastTick /\ keys \subseteq Kids
    /\ {since, gone} \subseteq [Kids -> Nat \cup {Never}]
    /\ queue \in Seq(Requests) /\ request \in [Requests -> RequestRow]
    /\ faults \in Nat

\* the lock is held by one request, those that wait stand once in the line;
OneLine ==
    /\ \A i, j \in DOMAIN queue : queue[i] = queue[j] => i = j
    /\ \A r \in Requests :
        /\ request[r].pc \in Over <=> \A i \in DOMAIN queue : queue[i] # r
        /\ request[r].pc \in {"asking", "served"} => queue[1] = r

\* nothing is dated in the future, and no call outlives Flight;
Dates ==
    /\ fetchedAt <= now
    /\ \A k \in Kids :
        /\ since[k] <= now
        /\ gone[k] # Never => since[k] # Never /\ since[k] <= gone[k] /\ gone[k] <= now
    /\ \A r \in Requests :
        /\ request[r].arrived <= request[r].at /\ request[r].at <= now
        /\ request[r].pc # "idle" => since[request[r].kid] # Never
        /\ request[r].pc \in {"asking", "served"} => now <= request[r].at + Flight

\* those that share a read are in front, and go on the moment it arrives;
SharedAtOnce ==
    /\ \A r \in Requests :
        request[r].renewed => request[r].pc = "waiting" /\ fetchedAt = now
    /\ \A i, j \in DOMAIN queue :
        i < j /\ request[queue[j]].renewed => request[queue[i]].renewed

\* and what was read was published at a time that is at most Flight before the
\* read arrived, and all that was.
ReadAt(read, from) ==
    /\ \A k \in read : since[k] # Never /\ (gone[k] # Never => from <= gone[k])
    /\ \A k \in Kids \ read : since[k] # Never /\ gone[k] = Never => from <= since[k]

ReadsAreRecent ==
    /\ ReadAt(keys, fetchedAt - Flight)
    /\ \A r \in Requests :
        request[r].pc = "served" => ReadAt(request[r].got, request[r].at)

KeyInv ==
    /\ Fields /\ OneLine /\ Dates /\ SharedAtOnce /\ ReadsAreRecent
    /\ WithdrawnKeyEnds /\ UnknownIsNotPublished
=============================================================================
