------------------------------ MODULE AccessProofs ------------------------------
(***************************************************************************)
(* What the platform promises about what other systems decide, for any     *)
(* number of requests, calls, replies, people and administrators: the keys *)
(* that tokens are checked by, the token it shows the mailbox, the replies *)
(* it sends from there, the subscription that watches it, and the mirror   *)
(* of an account's roles.                                                  *)
(*                                                                         *)
(* Each part is the module of that name; the parameters and the variables  *)
(* of all of them are declared here, and a theorem speaks of one part.     *)
(***************************************************************************)
EXTENDS Integers, Sequences, TLAPS

CONSTANTS
    Kids, FirstKid, Requests, Ttl, Flight, LastTick, MaxFaults,
    Calls, Life, Margin, MaxRevocations,
    Replies, People, MayBeLost, MaxCrashes,
    Ids, MaxDrops,
    Roles, Foreign, FirstRoles, Admins, MaxChanges

VARIABLES
    now, queue, faults,
    since, gone, keys, fetchedAt, request,
    revoked, cached, cachedUntil, call,
    row, mailbox, act, crashes,
    live, held, due, ever, lapses, drops,
    realm, token, work, changes, slips

Key == INSTANCE SigningKeys
Token == INSTANCE MailboxToken
Reply == INSTANCE MailReplies
Watch == INSTANCE MailboxWatch
Mirror == INSTANCE RoleMirror

-----------------------------------------------------------------------------
(* The line in front of the lock. *)

\* Who comes stands last, the others where they were.
LEMMA Joined ==
    ASSUME NEW S, NEW q \in Seq(S), NEW x \in S
    PROVE  /\ Append(q, x) \in Seq(S)
           /\ DOMAIN Append(q, x) = 1..(Len(q) + 1) /\ DOMAIN q = 1..Len(q) /\ Len(q) \in Nat
           /\ Append(q, x)[Len(q) + 1] = x
           /\ \A i \in DOMAIN q : Append(q, x)[i] = q[i]
OBVIOUS

\* Who leaves was first, the others move up.
LEMMA MovedUp ==
    ASSUME NEW S, NEW q \in Seq(S), q # <<>>
    PROVE  /\ Tail(q) \in Seq(S)
           /\ DOMAIN Tail(q) = 1..(Len(q) - 1) /\ DOMAIN q = 1..Len(q) /\ Len(q) \in Nat \ {0}
           /\ Head(q) = q[1] /\ q[1] \in S
           /\ \A i \in DOMAIN Tail(q) : i + 1 \in DOMAIN q /\ Tail(q)[i] = q[i + 1]
OBVIOUS

\* A line in which nobody stands twice is such a line without its first, and
\* that one stands in it no more.
LEMMA LineMoves ==
    ASSUME NEW S, NEW q \in Seq(S), q # <<>>,
           \A i, j \in DOMAIN q : q[i] = q[j] => i = j
    PROVE  /\ \A i, j \in DOMAIN Tail(q) : Tail(q)[i] = Tail(q)[j] => i = j
           /\ \A i \in DOMAIN Tail(q) : Tail(q)[i] # q[1]
           /\ \A x : x # q[1] => ((\A i \in DOMAIN Tail(q) : Tail(q)[i] # x)
                                    <=> (\A i \in DOMAIN q : q[i] # x))
<1>1. /\ DOMAIN Tail(q) = 1..(Len(q) - 1) /\ DOMAIN q = 1..Len(q) /\ Len(q) \in Nat \ {0}
      /\ \A i \in DOMAIN Tail(q) : i + 1 \in DOMAIN q /\ Tail(q)[i] = q[i + 1]
  BY MovedUp
<1>2. \A i, j \in DOMAIN Tail(q) : Tail(q)[i] = Tail(q)[j] => i = j
  <2>1. SUFFICES ASSUME NEW i \in DOMAIN Tail(q), NEW j \in DOMAIN Tail(q), Tail(q)[i] = Tail(q)[j]
                 PROVE  i = j
    OBVIOUS
  <2>2. i + 1 = j + 1
    BY <1>1, <2>1
  <2>3. i \in Int /\ j \in Int
    BY <1>1
  <2> QED
    BY <2>2, <2>3
<1>3. \A i \in DOMAIN Tail(q) : Tail(q)[i] # q[1]
  <2>1. SUFFICES ASSUME NEW i \in DOMAIN Tail(q), Tail(q)[i] = q[1] PROVE FALSE
    OBVIOUS
  <2>2. i + 1 = 1
    BY <1>1, <2>1
  <2>3. i \in 1..(Len(q) - 1)
    BY <1>1
  <2> QED
    BY <2>2, <2>3, <1>1
<1>4. ASSUME NEW x, x # q[1]
      PROVE  (\A i \in DOMAIN Tail(q) : Tail(q)[i] # x) <=> (\A i \in DOMAIN q : q[i] # x)
  <2>1. ASSUME NEW i \in DOMAIN q, q[i] = x
        PROVE  \E j \in DOMAIN Tail(q) : Tail(q)[j] = x
    <3>1. i # 1 /\ i \in 1..Len(q)
      BY <1>1, <1>4, <2>1
    <3>2. i - 1 \in DOMAIN Tail(q) /\ (i - 1) + 1 = i
      BY <1>1, <3>1
    <3> QED
      BY <1>1, <2>1, <3>2
  <2>2. ASSUME NEW i \in DOMAIN Tail(q), Tail(q)[i] = x
        PROVE  \E j \in DOMAIN q : q[j] = x
    BY <1>1, <2>2
  <2> QED
    BY <2>1, <2>2
<1> QED
  BY <1>2, <1>3, <1>4

-----------------------------------------------------------------------------
(* Signing keys. *)

USE DEF Key!Over, Key!Never

\* What a request becomes when it ends keeps its key and its arrival.
LEMMA EndsWell ==
    ASSUME Key!Fields, NEW r \in Requests, NEW how \in Key!Over
    PROVE  /\ Key!End(r, how) \in Key!RequestRow
           /\ Key!End(r, how).pc = how /\ Key!End(r, how).kid = request[r].kid
           /\ Key!End(r, how).arrived = request[r].arrived /\ Key!End(r, how).at = now
           /\ Key!End(r, how).renewed = FALSE /\ Key!End(r, how).got = {}
<1>1. request[r] \in Key!RequestRow /\ now \in Nat
  BY DEF Key!Fields
<1> QED
  BY <1>1 DEF Key!End, Key!RequestRow

\* The initial state.
LEMMA KeyInitKeeps == ASSUME Key!KeyBounds, Key!Init PROVE Key!KeyInv
<1>1. Key!Fields
  BY DEF Key!KeyBounds, Key!Init, Key!Fields, Key!RequestRow, Key!NoRequest
<1>2. Key!OneLine
  BY DEF Key!KeyBounds, Key!Init, Key!OneLine, Key!NoRequest
<1>0. /\ \A k \in Kids : since[k] \in {0, Key!Never} /\ gone[k] = Key!Never
      /\ since[FirstKid] = 0 /\ FirstKid \in Kids /\ Flight \in Nat
      /\ now = 0 /\ fetchedAt = 0 /\ keys = {} /\ request = [r \in Requests |-> Key!NoRequest]
  BY DEF Key!KeyBounds, Key!Init
<1>3. Key!Dates
  BY <1>0 DEF Key!Dates, Key!NoRequest
<1>4. Key!SharedAtOnce
  BY DEF Key!Init, Key!SharedAtOnce, Key!NoRequest
<1>5. Key!ReadsAreRecent
  BY <1>0 DEF Key!ReadsAreRecent, Key!ReadAt, Key!NoRequest
<1>6. Key!WithdrawnKeyEnds /\ Key!UnknownIsNotPublished
  BY DEF Key!Init, Key!WithdrawnKeyEnds, Key!UnknownIsNotPublished, Key!NoRequest
<1> QED
  BY <1>1, <1>2, <1>3, <1>4, <1>5, <1>6 DEF Key!KeyInv

\* A request arrives.
LEMMA KeyArriveKeeps ==
    ASSUME Key!KeyBounds, Key!KeyInv, NEW r \in Requests, NEW k \in Kids, Key!Arrive(r, k)
    PROVE  Key!KeyInv'
<1> DEFINE at(pc) == [Key!NoRequest EXCEPT !.pc = pc, !.kid = k, !.arrived = now, !.at = now]
<1> USE DEF Key!KeyInv
<1>1. /\ request[r] \in Key!RequestRow /\ request[r].pc \in Key!Over /\ since[k] # Key!Never
      /\ UNCHANGED <<now, since, gone, keys, fetchedAt, faults>> /\ now \in Nat /\ fetchedAt \in Nat
  BY DEF Key!Arrive, Key!Fields
<1>2. ASSUME NEW pc \in Key!Over \cup {"waiting", "asking", "served"}
      PROVE  /\ at(pc) \in Key!RequestRow /\ at(pc).pc = pc /\ at(pc).kid = k
             /\ at(pc).arrived = now /\ at(pc).at = now /\ at(pc).renewed = FALSE
  BY <1>1 DEF Key!NoRequest, Key!RequestRow, Key!KeyBounds
<1>3. \A i \in DOMAIN queue : queue[i] # r
  BY <1>1 DEF Key!OneLine
<1>4. CASE Key!Cached(k)
  <2>1. /\ request' = [request EXCEPT ![r] = at("accepted")] /\ UNCHANGED queue
        /\ k \in keys /\ now - fetchedAt <= Ttl
    BY <1>4 DEF Key!Arrive, Key!Cached, Key!Answer
  <2>2. at("accepted") \in Key!RequestRow /\ at("accepted").pc = "accepted"
        /\ at("accepted").kid = k /\ at("accepted").arrived = now /\ at("accepted").at = now
        /\ at("accepted").renewed = FALSE
    BY <1>2
  <2> HIDE DEF at
  <2>3. Key!Fields'
    BY <1>1, <2>1, <2>2 DEF Key!Fields
  <2>4. Key!OneLine'
    BY <1>1, <1>3, <2>1, <2>2 DEF Key!Fields, Key!OneLine
  <2>5. Key!Dates'
    BY <1>1, <2>1, <2>2 DEF Key!Fields, Key!Dates
  <2>6. Key!SharedAtOnce'
    BY <1>1, <1>3, <2>1, <2>2 DEF Key!Fields, Key!SharedAtOnce
  <2>7. Key!ReadsAreRecent'
    BY <1>1, <2>1, <2>2 DEF Key!Fields, Key!ReadsAreRecent, Key!ReadAt
  <2>8. gone[k] # Key!Never => now <= gone[k] + Ttl + Flight
    <3>1. gone[k] # Key!Never => fetchedAt - Flight <= gone[k]
      BY <2>1 DEF Key!ReadsAreRecent, Key!ReadAt
    <3> QED
      BY <1>1, <2>1, <3>1 DEF Key!Fields, Key!KeyBounds
  <2>9. Key!WithdrawnKeyEnds'
    BY <1>1, <2>1, <2>2, <2>8 DEF Key!Fields, Key!WithdrawnKeyEnds
  <2>10. Key!UnknownIsNotPublished'
    BY <1>1, <2>1, <2>2 DEF Key!Fields, Key!UnknownIsNotPublished
  <2> QED
    BY <2>3, <2>4, <2>5, <2>6, <2>7, <2>9, <2>10
<1>5. CASE ~Key!Cached(k)
  <2>1. PICK pc \in {"asking", "waiting"} :
            /\ request' = [request EXCEPT ![r] = at(pc)]
            /\ pc = IF queue = <<>> THEN "asking" ELSE "waiting"
            /\ queue' = Append(queue, r)
    BY <1>5 DEF Key!Arrive
  <2>2. /\ at(pc) \in Key!RequestRow /\ at(pc).pc = pc /\ at(pc).kid = k
        /\ at(pc).arrived = now /\ at(pc).at = now /\ at(pc).renewed = FALSE
    BY <1>2
  <2> HIDE DEF at
  <2>3. /\ queue \in Seq(Requests) /\ queue' \in Seq(Requests)
        /\ DOMAIN queue' = 1..(Len(queue) + 1) /\ DOMAIN queue = 1..Len(queue) /\ Len(queue) \in Nat
        /\ queue'[Len(queue) + 1] = r
        /\ \A i \in DOMAIN queue : queue'[i] = queue[i]
    BY <2>1, Joined DEF Key!Fields
  <2>4. Key!Fields'
    BY <1>1, <2>1, <2>2, <2>3 DEF Key!Fields
  <2>5. Key!OneLine'
    <3>1. \A i, j \in DOMAIN queue' : queue'[i] = queue'[j] => i = j
      BY <1>3, <2>3 DEF Key!OneLine
    <3>2. \A q \in Requests : request'[q].pc \in Key!Over <=> \A i \in DOMAIN queue' : queue'[i] # q
      <4>1. TAKE q \in Requests
      <4>2. CASE q = r
        BY <2>1, <2>2, <2>3, <4>2 DEF Key!Fields
      <4>3. CASE q # r
        <5>1. request'[q] = request[q]
          BY <2>1, <4>3 DEF Key!Fields
        <5>2. (\A i \in DOMAIN queue' : queue'[i] # q) <=> (\A i \in DOMAIN queue : queue[i] # q)
          BY <2>3, <4>3
        <5> QED
          BY <5>1, <5>2 DEF Key!OneLine
      <4> QED
        BY <4>2, <4>3
    <3>3. \A q \in Requests : request'[q].pc \in {"asking", "served"} => queue'[1] = q
      <4>1. TAKE q \in Requests
      <4>2. HAVE request'[q].pc \in {"asking", "served"}
      <4>3. CASE q = r
        <5>1. pc = "asking" /\ queue = <<>>
          BY <2>1, <2>2, <4>2, <4>3 DEF Key!Fields
        <5> QED
          BY <2>3, <4>3, <5>1
      <4>4. CASE q # r
        <5>1. request[q].pc \in {"asking", "served"}
          BY <2>1, <4>2, <4>4 DEF Key!Fields
        <5>2. queue[1] = q /\ queue # <<>>
          BY <5>1 DEF Key!OneLine
        <5> QED
          BY <2>3, <5>2
      <4> QED
        BY <4>3, <4>4
    <3> QED
      BY <3>1, <3>2, <3>3 DEF Key!OneLine
  <2>6. Key!Dates'
    BY <1>1, <2>1, <2>2 DEF Key!Fields, Key!Dates, Key!KeyBounds
  <2>7. Key!SharedAtOnce'
    <3>1. \A q \in Requests : request'[q].renewed => request'[q].pc = "waiting" /\ fetchedAt' = now'
      BY <1>1, <2>1, <2>2 DEF Key!Fields, Key!SharedAtOnce
    <3>2. ASSUME NEW i \in DOMAIN queue', NEW j \in DOMAIN queue', i < j,
                 request'[queue'[j]].renewed
          PROVE  request'[queue'[i]].renewed
      <4>1. queue'[j] # r
        BY <2>1, <2>2, <3>2 DEF Key!Fields
      <4>2. j \in DOMAIN queue /\ i \in DOMAIN queue
        BY <2>3, <3>2, <4>1
      <4>3. request'[queue'[j]] = request[queue[j]] /\ request'[queue'[i]] = request[queue[i]]
        BY <1>3, <2>1, <2>3, <4>2 DEF Key!Fields
      <4> QED
        BY <3>2, <4>2, <4>3 DEF Key!SharedAtOnce
    <3> QED
      BY <3>1, <3>2 DEF Key!SharedAtOnce
  <2>8. Key!ReadsAreRecent'
    BY <1>1, <2>1, <2>2 DEF Key!Fields, Key!ReadsAreRecent, Key!ReadAt
  <2>9. Key!WithdrawnKeyEnds' /\ Key!UnknownIsNotPublished'
    BY <1>1, <2>1, <2>2 DEF Key!Fields, Key!WithdrawnKeyEnds, Key!UnknownIsNotPublished
  <2> QED
    BY <2>4, <2>5, <2>6, <2>7, <2>8, <2>9
<1> QED
  BY <1>4, <1>5

\* Who ends leaves the line to the others.
LEMMA Leaves ==
    ASSUME Key!Fields, Key!OneLine, NEW r \in Requests, queue # <<>>, Head(queue) = r, queue' = Tail(queue),
           request'[r].pc \in Key!Over,
           \A q \in Requests : q # r => request'[q].pc = request[q].pc
    PROVE  /\ Key!OneLine' /\ queue' \in Seq(Requests)
           /\ DOMAIN queue' = 1..(Len(queue) - 1) /\ DOMAIN queue = 1..Len(queue) /\ Len(queue) \in Nat \ {0}
           /\ \A i \in DOMAIN queue' :
                i + 1 \in DOMAIN queue /\ queue'[i] = queue[i + 1] /\ queue'[i] # r /\ queue'[i] \in Requests
<1>1. queue \in Seq(Requests)
  BY DEF Key!Fields
<1>2. /\ queue' \in Seq(Requests)
      /\ DOMAIN queue' = 1..(Len(queue) - 1) /\ DOMAIN queue = 1..Len(queue) /\ Len(queue) \in Nat \ {0}
      /\ queue[1] = r
      /\ \A i \in DOMAIN queue' : i + 1 \in DOMAIN queue /\ queue'[i] = queue[i + 1]
  BY <1>1, MovedUp
<1>3. \A i, j \in DOMAIN queue : queue[i] = queue[j] => i = j
  BY DEF Key!OneLine
<1>4. /\ \A i, j \in DOMAIN queue' : queue'[i] = queue'[j] => i = j
      /\ \A i \in DOMAIN queue' : queue'[i] # r
      /\ \A q : q # r => ((\A i \in DOMAIN queue' : queue'[i] # q) <=> (\A i \in DOMAIN queue : queue[i] # q))
  <2>1. /\ \A i, j \in DOMAIN Tail(queue) : Tail(queue)[i] = Tail(queue)[j] => i = j
        /\ \A i \in DOMAIN Tail(queue) : Tail(queue)[i] # queue[1]
        /\ \A x : x # queue[1] => ((\A i \in DOMAIN Tail(queue) : Tail(queue)[i] # x)
                                       <=> (\A i \in DOMAIN queue : queue[i] # x))
    <3> HIDE DEF Key!Over
    <3> QED
      BY ONLY <1>1, <1>3, queue # <<>>, LineMoves
  <2> QED
    BY ONLY <1>2, <2>1, queue' = Tail(queue)
<1>5. \A q \in Requests : request'[q].pc \in Key!Over <=> \A i \in DOMAIN queue' : queue'[i] # q
  <2>1. TAKE q \in Requests
  <2>2. CASE q = r
    BY <1>4, <2>2
  <2>3. CASE q # r
    <3>1. request[q].pc \in Key!Over <=> \A i \in DOMAIN queue : queue[i] # q
      BY DEF Key!OneLine
    <3>2. request'[q].pc = request[q].pc
      BY <2>3
    <3> HIDE DEF Key!Over
    <3> QED
      BY <1>4, <2>3, <3>1, <3>2
  <2> QED
    BY <2>2, <2>3
<1>6. \A q \in Requests : request'[q].pc \in {"asking", "served"} => queue'[1] = q
  <2>1. SUFFICES ASSUME NEW q \in Requests, request'[q].pc \in {"asking", "served"} PROVE FALSE
    OBVIOUS
  <2>2. q # r
    BY <2>1
  <2>3. request[q].pc \in {"asking", "served"}
    BY <2>1, <2>2
  <2>4. queue[1] = q
    BY <2>3 DEF Key!OneLine
  <2> QED
    BY <1>2, <2>2, <2>4
<1>7. \A i \in DOMAIN queue' : queue'[i] \in Requests
  BY <1>2
<1> QED
  BY <1>2, <1>4, <1>5, <1>6, <1>7 DEF Key!OneLine

\* The lock is free.
LEMMA KeyResumeKeeps ==
    ASSUME Key!KeyBounds, Key!KeyInv, NEW r \in Requests, Key!Resume(r) PROVE Key!KeyInv'
<1> USE DEF Key!KeyInv
<1>1. /\ request[r] \in Key!RequestRow /\ request[r].pc = "waiting" /\ queue # <<>> /\ Head(queue) = r
      /\ UNCHANGED <<now, since, gone, keys, fetchedAt, faults>> /\ now \in Nat /\ fetchedAt \in Nat
  BY DEF Key!Resume, Key!Holds, Key!Fields
<1>2. queue \in Seq(Requests) /\ 1 \in DOMAIN queue /\ queue[1] = r /\ DOMAIN queue = 1..Len(queue)
      /\ Len(queue) \in Nat
  BY <1>1, MovedUp DEF Key!Fields
<1>3. CASE request[r].renewed
  <2> DEFINE k == request[r].kid
             how == Key!Answer(k, keys)
  <2>1. request' = [request EXCEPT ![r] = Key!End(r, how)] /\ queue' = Tail(queue)
    BY <1>3 DEF Key!Resume
  <2>2. fetchedAt = now
    BY <1>3 DEF Key!SharedAtOnce
  <2>3. how \in {"accepted", "unknown"} /\ (how = "accepted" <=> k \in keys)
    BY DEF Key!Answer
  <2>4. k \in Kids /\ since[k] # Key!Never /\ since[k] \in Nat /\ gone[k] \in Nat \cup {Key!Never}
    BY <1>1 DEF Key!Dates, Key!Fields, Key!RequestRow
  <2>5. /\ how = "accepted" /\ gone[k] # Key!Never => now <= gone[k] + Flight
        /\ how = "unknown" /\ gone[k] = Key!Never => now <= since[k] + Flight
    <3>1. /\ k \in keys /\ gone[k] # Key!Never => fetchedAt - Flight <= gone[k]
          /\ k \notin keys /\ gone[k] = Key!Never => fetchedAt - Flight <= since[k]
      BY <2>4 DEF Key!ReadsAreRecent, Key!ReadAt
    <3> HIDE DEF k, how
    <3> QED
      BY <1>1, <2>2, <2>3, <2>4, <3>1 DEF Key!KeyBounds
  <2>6. /\ Key!End(r, how) \in Key!RequestRow /\ Key!End(r, how).pc = how /\ Key!End(r, how).kid = k
        /\ Key!End(r, how).arrived = request[r].arrived /\ Key!End(r, how).at = now
        /\ Key!End(r, how).renewed = FALSE
    BY ZenonT(60), <2>3, EndsWell
  <2>7. request[r].arrived <= now /\ request[r].arrived \in Nat
    BY <1>1 DEF Key!Dates, Key!RequestRow, Key!Fields
  <2> DEFINE new == Key!End(r, how)
  <2>8. /\ request' = [request EXCEPT ![r] = new] /\ new \in Key!RequestRow /\ new.pc = how
        /\ new.kid = k /\ new.arrived = request[r].arrived /\ new.at = now /\ new.renewed = FALSE
    BY <2>1, <2>6
  <2> HIDE DEF new, how, k
  <2>9. request'[r] = new /\ \A q \in Requests : q # r => request'[q] = request[q]
    BY <2>8 DEF Key!Fields
  <2>10. /\ Key!OneLine' /\ queue' \in Seq(Requests)
         /\ DOMAIN queue' = 1..(Len(queue) - 1) /\ DOMAIN queue = 1..Len(queue) /\ Len(queue) \in Nat \ {0}
         /\ \A i \in DOMAIN queue' :
              i + 1 \in DOMAIN queue /\ queue'[i] = queue[i + 1] /\ queue'[i] # r /\ queue'[i] \in Requests
    BY <1>1, <2>1, <2>3, <2>8, <2>9, Leaves
  <2>11. Key!Fields'
    BY <1>1, <2>8, <2>10 DEF Key!Fields
  <2>12. Key!Dates'
    BY <1>1, <2>3, <2>4, <2>7, <2>8 DEF Key!Fields, Key!Dates
  <2>13. Key!SharedAtOnce'
    <3>1. \A q \in Requests : request'[q].renewed => request'[q].pc = "waiting" /\ fetchedAt' = now'
      BY <1>1, <2>8, <2>9 DEF Key!SharedAtOnce
    <3>2. ASSUME NEW i \in DOMAIN queue', NEW j \in DOMAIN queue', i < j, request'[queue'[j]].renewed
          PROVE  request'[queue'[i]].renewed
      <4>1. /\ i + 1 \in DOMAIN queue /\ j + 1 \in DOMAIN queue /\ i + 1 < j + 1
            /\ request'[queue'[j]] = request[queue[j + 1]] /\ request'[queue'[i]] = request[queue[i + 1]]
        BY <2>9, <2>10, <3>2
      <4> QED
        BY <3>2, <4>1 DEF Key!SharedAtOnce
    <3> QED
      BY <3>1, <3>2 DEF Key!SharedAtOnce
  <2>14. Key!ReadsAreRecent'
    BY <1>1, <2>3, <2>8, <2>9 DEF Key!ReadsAreRecent, Key!ReadAt
  <2>15. Key!WithdrawnKeyEnds'
    BY SMTT(30), <1>1, <2>3, <2>4, <2>5, <2>8, <2>9 DEF Key!WithdrawnKeyEnds, Key!KeyBounds
  <2>16. Key!UnknownIsNotPublished'
    BY SMTT(30), <1>1, <2>3, <2>4, <2>5, <2>7, <2>8, <2>9 DEF Key!UnknownIsNotPublished, Key!KeyBounds
  <2> QED
    BY <2>10, <2>11, <2>12, <2>13, <2>14, <2>15, <2>16
<1>4. CASE ~request[r].renewed
  <2> DEFINE new == [request[r] EXCEPT !.pc = "asking", !.at = now]
  <2>1. request' = [request EXCEPT ![r] = new] /\ UNCHANGED queue
    BY <1>4 DEF Key!Resume
  <2>2. /\ new \in Key!RequestRow /\ new.pc = "asking" /\ new.kid = request[r].kid
        /\ new.arrived = request[r].arrived /\ new.at = now /\ new.renewed = request[r].renewed
    BY <1>1 DEF Key!RequestRow
  <2> HIDE DEF new
  <2>3. request'[r] = new /\ \A q \in Requests : q # r => request'[q] = request[q]
    BY <2>1 DEF Key!Fields
  <2>4. Key!Fields'
    BY <1>1, <2>1, <2>2 DEF Key!Fields
  <2>5. Key!OneLine'
    BY <1>1, <1>2, <2>1, <2>2, <2>3 DEF Key!OneLine
  <2>6. Key!Dates'
    <3>1. request[r].arrived <= now /\ now <= now + Flight /\ since[request[r].kid] # Key!Never
      <4>1. request[r].arrived \in Nat /\ request[r].at \in Nat
            /\ request[r].arrived <= request[r].at /\ request[r].at <= now
        BY <1>1 DEF Key!Dates, Key!RequestRow
      <4> QED
        BY SMTT(30), <1>1, <4>1 DEF Key!Dates, Key!KeyBounds
    <3> QED
      BY <1>1, <2>1, <2>2, <2>3, <3>1 DEF Key!Dates
  <2>7. Key!SharedAtOnce'
    <3>1. \A q \in Requests : request'[q].renewed = request[q].renewed
      BY <2>2, <2>3
    <3>2. \A i \in DOMAIN queue : queue[i] \in Requests
      BY <1>2
    <3>3. \A q \in Requests : request'[q].renewed => request'[q].pc = "waiting" /\ fetchedAt' = now'
      BY <1>1, <1>4, <2>2, <2>3 DEF Key!SharedAtOnce
    <3> QED
      BY <2>1, <3>1, <3>2, <3>3 DEF Key!SharedAtOnce
  <2>8. Key!ReadsAreRecent'
    BY <1>1, <2>2, <2>3 DEF Key!ReadsAreRecent, Key!ReadAt
  <2>9. Key!WithdrawnKeyEnds' /\ Key!UnknownIsNotPublished'
    BY <1>1, <2>2, <2>3 DEF Key!WithdrawnKeyEnds, Key!UnknownIsNotPublished
  <2> QED
    BY <2>4, <2>5, <2>6, <2>7, <2>8, <2>9
<1> QED
  BY <1>3, <1>4

\* The provider reads its keys.
LEMMA KeyServeKeeps ==
    ASSUME Key!KeyBounds, Key!KeyInv, NEW r \in Requests, Key!Serve(r) PROVE Key!KeyInv'
<1> USE DEF Key!KeyInv
<1> DEFINE new == [request[r] EXCEPT !.pc = "served", !.got = Key!Published]
<1>1. /\ request[r] \in Key!RequestRow /\ request[r].pc = "asking" /\ queue # <<>> /\ Head(queue) = r
      /\ UNCHANGED <<now, since, gone, keys, fetchedAt, queue, faults>> /\ now \in Nat
      /\ request' = [request EXCEPT ![r] = new]
  <2>1. request \in [Requests -> Key!RequestRow]
    BY DEF Key!Fields
  <2>2. request' = [request EXCEPT ![r].pc = "served", ![r].got = Key!Published]
    BY DEF Key!Serve
  <2>3. request' = [request EXCEPT ![r] = new]
    BY <2>1, <2>2, Zenon DEF Key!RequestRow
  <2> HIDE DEF new
  <2>4. /\ request[r].pc = "asking" /\ queue # <<>> /\ Head(queue) = r
        /\ UNCHANGED <<now, since, gone, keys, fetchedAt, queue, faults>>
    BY Zenon DEF Key!Serve, Key!Holds
  <2>5. now \in Nat
    BY DEF Key!Fields
  <2> QED
    BY <2>1, <2>3, <2>4, <2>5, Zenon
<1>2. /\ new \in Key!RequestRow /\ new.pc = "served" /\ new.kid = request[r].kid
      /\ new.arrived = request[r].arrived /\ new.at = request[r].at
      /\ new.renewed = request[r].renewed /\ new.got = Key!Published
  BY <1>1 DEF Key!RequestRow, Key!Published
<1> HIDE DEF new
<1>3. request'[r] = new /\ \A q \in Requests : q # r => request'[q] = request[q]
  BY <1>1 DEF Key!Fields
<1>4. Key!Fields'
  BY <1>1, <1>2 DEF Key!Fields
<1>5. Key!OneLine'
  BY <1>1, <1>2, <1>3 DEF Key!OneLine
<1>6. Key!Dates'
  BY <1>1, <1>2, <1>3 DEF Key!Dates
<1>7. Key!SharedAtOnce'
  <2>1. \A q \in Requests : request'[q].renewed = request[q].renewed
    BY <1>2, <1>3
  <2>2. \A i \in DOMAIN queue : queue[i] \in Requests
    BY DEF Key!Fields
  <2>3. \A q \in Requests : request'[q].renewed => request'[q].pc = "waiting" /\ fetchedAt' = now'
    BY <1>1, <1>2, <1>3 DEF Key!SharedAtOnce
  <2> QED
    BY <1>1, <2>1, <2>2, <2>3 DEF Key!SharedAtOnce
<1>8. Key!ReadsAreRecent'
  <2>1. Key!ReadAt(Key!Published, request[r].at)
    BY <1>1 DEF Key!ReadAt, Key!Published, Key!Fields, Key!Dates
  <2>2. Key!ReadAt(new.got, new.at)
    BY <1>2, <2>1
  <2> QED
    BY <1>1, <1>2, <1>3, <2>2 DEF Key!ReadsAreRecent, Key!ReadAt
<1>9. Key!WithdrawnKeyEnds' /\ Key!UnknownIsNotPublished'
  BY <1>1, <1>2, <1>3 DEF Key!WithdrawnKeyEnds, Key!UnknownIsNotPublished
<1> QED
  BY <1>4, <1>5, <1>6, <1>7, <1>8, <1>9

\* A request ends without an answer it can use: the cache stays as it is.
LEMMA KeyUnreadKeeps ==
    ASSUME Key!KeyBounds, Key!KeyInv, NEW r \in Requests,
           request[r].pc \in {"asking", "served"}, queue # <<>>, Head(queue) = r,
           request' = [request EXCEPT ![r] = Key!End(r, "unread")], queue' = Tail(queue), faults' \in Nat,
           UNCHANGED <<now, since, gone, keys, fetchedAt>>
    PROVE  Key!KeyInv'
<1> USE DEF Key!KeyInv
<1> DEFINE new == Key!End(r, "unread")
<1>1. /\ request[r] \in Key!RequestRow /\ now \in Nat
      /\ UNCHANGED <<now, since, gone, keys, fetchedAt>>
      /\ request' = [request EXCEPT ![r] = new]
  BY DEF Key!Fields
<1>2. /\ new \in Key!RequestRow /\ new.pc = "unread" /\ new.kid = request[r].kid
      /\ new.arrived = request[r].arrived /\ new.at = now /\ new.renewed = FALSE
  BY EndsWell
<1> HIDE DEF new
<1>3. request'[r] = new /\ \A q \in Requests : q # r => request'[q] = request[q]
  BY <1>1 DEF Key!Fields
<1>4. /\ Key!OneLine' /\ queue' \in Seq(Requests)
      /\ DOMAIN queue' = 1..(Len(queue) - 1) /\ DOMAIN queue = 1..Len(queue) /\ Len(queue) \in Nat \ {0}
      /\ \A i \in DOMAIN queue' :
           i + 1 \in DOMAIN queue /\ queue'[i] = queue[i + 1] /\ queue'[i] # r /\ queue'[i] \in Requests
  BY <1>1, <1>2, <1>3, Leaves
<1>5. Key!Fields'
  BY <1>1, <1>2, <1>4 DEF Key!Fields
<1>6. Key!Dates'
  <2>1. /\ request[r].arrived <= now /\ since[request[r].kid] # Key!Never
    BY <1>1 DEF Key!Dates, Key!RequestRow
  <2> QED
    BY <1>1, <1>2, <1>3, <2>1 DEF Key!Dates
<1>7. Key!SharedAtOnce'
  <2>1. \A q \in Requests : request'[q].renewed => request'[q].pc = "waiting" /\ fetchedAt' = now'
    BY <1>1, <1>2, <1>3 DEF Key!SharedAtOnce
  <2>2. ASSUME NEW i \in DOMAIN queue', NEW j \in DOMAIN queue', i < j, request'[queue'[j]].renewed
        PROVE  request'[queue'[i]].renewed
    <3>1. /\ i + 1 \in DOMAIN queue /\ j + 1 \in DOMAIN queue /\ i + 1 < j + 1
          /\ request'[queue'[j]] = request[queue[j + 1]] /\ request'[queue'[i]] = request[queue[i + 1]]
      BY <1>3, <1>4, <2>2
    <3> QED
      BY <2>2, <3>1 DEF Key!SharedAtOnce
  <2> QED
    BY <2>1, <2>2 DEF Key!SharedAtOnce
<1>8. Key!ReadsAreRecent'
  BY <1>1, <1>2, <1>3 DEF Key!ReadsAreRecent, Key!ReadAt
<1>9. Key!WithdrawnKeyEnds' /\ Key!UnknownIsNotPublished'
  BY <1>1, <1>2, <1>3 DEF Key!WithdrawnKeyEnds, Key!UnknownIsNotPublished
<1> QED
  BY <1>4, <1>5, <1>6, <1>7, <1>8, <1>9

\* The call fails.
LEMMA KeyFailKeeps ==
    ASSUME Key!KeyBounds, Key!KeyInv, NEW r \in Requests, Key!Fail(r) PROVE Key!KeyInv'
<1>1. /\ request[r].pc \in {"asking", "served"} /\ queue # <<>> /\ Head(queue) = r
      /\ request' = [request EXCEPT ![r] = Key!End(r, "unread")] /\ queue' = Tail(queue)
      /\ UNCHANGED <<now, since, gone, keys, fetchedAt>>
  BY DEF Key!Fail, Key!Holds
<1>2. faults' \in Nat
  BY DEF Key!Fail, Key!KeyInv, Key!Fields
<1> QED
  BY <1>1, <1>2, KeyUnreadKeeps

\* The answer of the provider: whoever waits shares it.
LEMMA KeyReceiveKeeps ==
    ASSUME Key!KeyBounds, Key!KeyInv, NEW r \in Requests, Key!Receive(r) PROVE Key!KeyInv'
<1> USE DEF Key!KeyInv
<1>1. /\ request[r] \in Key!RequestRow /\ request[r].pc = "served" /\ queue # <<>> /\ Head(queue) = r
      /\ UNCHANGED <<now, since, gone, faults>> /\ now \in Nat
      /\ queue' = Tail(queue)
  BY DEF Key!Receive, Key!Holds, Key!Fields
<1>2. CASE request[r].got = {}
  <2>1. request' = [request EXCEPT ![r] = Key!End(r, "unread")] /\ UNCHANGED <<keys, fetchedAt>>
    BY <1>2 DEF Key!Receive
  <2>2. faults' \in Nat
    BY <1>1 DEF Key!Fields
  <2> QED
    BY <1>1, <2>1, <2>2, KeyUnreadKeeps
<1>3. CASE request[r].got # {}
  <2> DEFINE k == request[r].kid
             got == request[r].got
             at == request[r].at
             how == Key!Answer(k, got)
             new == Key!End(r, how)
             Shared(q) == [request[q] EXCEPT !.renewed = TRUE]
  <2>1. keys' = got /\ fetchedAt' = now /\ request' = Key!Renew(r, how)
    BY <1>3 DEF Key!Receive
  <2>2. how \in {"accepted", "unknown"} /\ (how = "accepted" <=> k \in got)
    BY DEF Key!Answer
  <2>3. /\ new \in Key!RequestRow /\ new.pc = how /\ new.kid = k
        /\ new.arrived = request[r].arrived /\ new.at = now /\ new.renewed = FALSE
    BY ZenonT(60), <2>2, EndsWell
  <2>4. k \in Kids /\ since[k] # Key!Never /\ since[k] \in Nat /\ gone[k] \in Nat \cup {Key!Never}
        /\ got \in SUBSET Kids /\ at \in Nat /\ request[r].arrived \in Nat
        /\ request[r].arrived <= at /\ at <= now /\ now <= at + Flight
    BY <1>1 DEF Key!Dates, Key!Fields, Key!RequestRow
  <2>5. Key!ReadAt(got, at)
    BY <1>1 DEF Key!ReadsAreRecent
  <2>6. \A q \in Requests :
            request[q].pc = "waiting" =>
                /\ Shared(q) \in Key!RequestRow /\ Shared(q).pc = "waiting" /\ Shared(q).kid = request[q].kid
                /\ Shared(q).arrived = request[q].arrived /\ Shared(q).at = request[q].at
                /\ Shared(q).renewed = TRUE
    BY DEF Key!Fields, Key!RequestRow
  <2>7. /\ request'[r] = new
        /\ \A q \in Requests \ {r} :
            request'[q] = IF request[q].pc = "waiting" THEN Shared(q) ELSE request[q]
        /\ request' = [q \in Requests |-> request'[q]]
    <3> HIDE DEF new, how
    <3>1. request' = [q \in Requests |->
                        CASE q = r -> new
                          [] request[q].pc = "waiting" -> Shared(q)
                          [] OTHER -> request[q]]
      BY <2>1 DEF Key!Renew, new
    <3>2. new = request'[r]
      BY <1>1, <3>1
    <3>3. \A q \in Requests \ {r} :
            request'[q] = IF request[q].pc = "waiting" THEN Shared(q) ELSE request[q]
      BY <3>1
    <3>4. request' = [q \in Requests |-> request'[q]]
      BY <3>1
    <3> QED
      BY <3>2, <3>3, <3>4
  <2> HIDE DEF new, how, k, got, at
  <2> DEFINE same(q) ==
        /\ request'[q] \in Key!RequestRow /\ request'[q].pc = request[q].pc
        /\ request'[q].kid = request[q].kid /\ request'[q].arrived = request[q].arrived
        /\ request'[q].at = request[q].at
  <2>8. \A q \in Requests : q # r => same(q)
    BY ZenonT(60), <2>6, <2>7 DEF Key!Fields
  <2>9. \A q \in Requests : q # r => (request'[q].renewed <=> request[q].pc = "waiting")
    BY <2>6, <2>7 DEF Key!SharedAtOnce, Key!Fields, Key!RequestRow
  <2>10. /\ Key!OneLine' /\ queue' \in Seq(Requests)
         /\ DOMAIN queue' = 1..(Len(queue) - 1) /\ DOMAIN queue = 1..Len(queue) /\ Len(queue) \in Nat \ {0}
         /\ \A i \in DOMAIN queue' :
              i + 1 \in DOMAIN queue /\ queue'[i] = queue[i + 1] /\ queue'[i] # r /\ queue'[i] \in Requests
    BY <1>1, <2>2, <2>3, <2>7, <2>8, Leaves
  <2>11. Key!Fields'
    <3>1. request' \in [Requests -> Key!RequestRow]
      BY <2>3, <2>7, <2>8
    <3> QED
      BY <1>1, <2>1, <2>4, <2>10, <3>1 DEF Key!Fields
  <2>12. Key!Dates'
    <3>1. \A q \in Requests : q # r =>
            /\ request'[q].arrived <= request'[q].at /\ request'[q].at <= now'
            /\ request'[q].pc # "idle" => since'[request'[q].kid] # Key!Never
            /\ request'[q].pc \in {"asking", "served"} => now' <= request'[q].at + Flight
      BY <1>1, <2>8 DEF Key!Dates
    <3>2. /\ request'[r].arrived <= request'[r].at /\ request'[r].at <= now'
          /\ request'[r].pc # "idle" => since'[request'[r].kid] # Key!Never
          /\ request'[r].pc \notin {"asking", "served"}
      BY <1>1, <2>2, <2>3, <2>4, <2>7
    <3>3. fetchedAt' <= now'
      BY <1>1, <2>1
    <3> QED
      BY <1>1, <3>1, <3>2, <3>3 DEF Key!Dates
  <2>13. Key!SharedAtOnce'
    <3>1. \A q \in Requests : request'[q].renewed => request'[q].pc = "waiting" /\ fetchedAt' = now'
      BY <1>1, <2>1, <2>3, <2>7, <2>8, <2>9
    <3>2. ASSUME NEW i \in DOMAIN queue' PROVE request'[queue'[i]].renewed
      <4>1. queue'[i] \in Requests /\ queue'[i] # r
        BY <2>10, <3>2
      <4>2. request[queue'[i]].pc \notin Key!Over
        <5>1. ~ \A j \in DOMAIN queue : queue[j] # queue'[i]
          BY <2>10, <3>2
        <5> QED
          BY <4>1, <5>1 DEF Key!OneLine
      <4>3. request[queue'[i]].pc \notin {"asking", "served"}
        <5>1. queue[1] = r
          BY <1>1, MovedUp DEF Key!Fields
        <5> QED
          BY <4>1, <5>1 DEF Key!OneLine
      <4>4. request[queue'[i]].pc = "waiting"
        BY <4>1, <4>2, <4>3 DEF Key!Fields, Key!RequestRow
      <4> QED
        BY <2>9, <4>1, <4>4
    <3> QED
      BY <3>1, <3>2 DEF Key!SharedAtOnce
  <2>14. Key!ReadsAreRecent'
    <3>1. Key!ReadAt(got, now - Flight)
      BY SMTT(30), <1>1, <2>4, <2>5 DEF Key!ReadAt, Key!Fields, Key!KeyBounds
    <3>2. Key!ReadAt(keys, fetchedAt - Flight)'
      BY <1>1, <2>1, <3>1 DEF Key!ReadAt
    <3>3. \A q \in Requests : request'[q].pc # "served"
      <4>1. \A q \in Requests : q # r => request[q].pc # "served"
        <5>1. queue[1] = r
          BY <1>1, MovedUp DEF Key!Fields
        <5> QED
          BY <5>1 DEF Key!OneLine
      <4> QED
        BY <2>2, <2>3, <2>7, <2>8, <4>1
    <3> QED
      BY <3>2, <3>3 DEF Key!ReadsAreRecent
  <2>15. Key!WithdrawnKeyEnds'
    <3>1. how = "accepted" /\ gone[k] # Key!Never => now <= gone[k] + Ttl + Flight
      BY <1>1, <2>2, <2>4, <2>5 DEF Key!ReadAt, Key!KeyBounds
    <3> QED
      BY <1>1, <2>3, <2>7, <2>8, <3>1 DEF Key!WithdrawnKeyEnds
  <2>16. Key!UnknownIsNotPublished'
    <3>1. how = "unknown" /\ gone[k] = Key!Never => request[r].arrived - Flight <= since[k]
      BY SMTT(30), <1>1, <2>2, <2>4, <2>5 DEF Key!ReadAt, Key!KeyBounds
    <3> QED
      BY <1>1, <2>3, <2>7, <2>8, <3>1, <2>4 DEF Key!UnknownIsNotPublished, Key!KeyBounds
  <2> QED
    BY <2>10, <2>11, <2>12, <2>13, <2>14, <2>15, <2>16
<1> QED
  BY <1>2, <1>3

\* The provider publishes a key that it never had.
LEMMA KeyPublishKeeps ==
    ASSUME Key!KeyBounds, Key!KeyInv, NEW k \in Kids, Key!Publish(k) PROVE Key!KeyInv'
<1> USE DEF Key!KeyInv
<1>1. /\ since[k] = Key!Never /\ since' = [since EXCEPT ![k] = now] /\ now \in Nat
      /\ UNCHANGED <<now, gone, keys, fetchedAt, queue, request, faults>>
  BY DEF Key!Publish, Key!Fields
<1>2. since'[k] = now /\ (\A o \in Kids : o # k => since'[o] = since[o]) /\ gone[k] = Key!Never
  BY <1>1 DEF Key!Fields, Key!Dates
<1>3. Key!Fields' /\ Key!OneLine' /\ Key!SharedAtOnce'
  BY <1>1 DEF Key!Fields, Key!OneLine, Key!SharedAtOnce
<1>4. \A r \in Requests : request[r] \in Key!RequestRow /\ (request[r].pc # "idle" => request[r].kid # k)
  BY <1>1 DEF Key!Fields, Key!Dates
<1>5. Key!Dates'
  BY <1>1, <1>2, <1>4 DEF Key!Dates, Key!RequestRow
<1>6. \A read \in SUBSET Kids, from \in Int : Key!ReadAt(read, from) /\ from <= now => Key!ReadAt(read, from)'
  BY <1>1, <1>2 DEF Key!ReadAt
<1>7. Key!ReadsAreRecent'
  <2>1. fetchedAt - Flight \in Int /\ fetchedAt - Flight <= now /\ keys \in SUBSET Kids
    BY <1>1 DEF Key!Fields, Key!Dates, Key!KeyBounds
  <2>2. \A r \in Requests : request[r].at \in Int /\ request[r].at <= now /\ request[r].got \in SUBSET Kids
    BY <1>4 DEF Key!RequestRow, Key!Dates
  <2>3. Key!ReadAt(keys, fetchedAt - Flight)'
    BY <1>1, <1>2, <2>1 DEF Key!ReadAt, Key!ReadsAreRecent
  <2>4. \A r \in Requests : request[r].pc = "served" => Key!ReadAt(request[r].got, request[r].at)'
    BY <1>1, <1>2, <2>2 DEF Key!ReadAt, Key!ReadsAreRecent
  <2> QED
    BY <1>1, <2>3, <2>4 DEF Key!ReadsAreRecent
<1>8. Key!WithdrawnKeyEnds' /\ Key!UnknownIsNotPublished'
  BY <1>1, <1>2, <1>4 DEF Key!WithdrawnKeyEnds, Key!UnknownIsNotPublished, Key!RequestRow
<1> QED
  BY <1>3, <1>5, <1>7, <1>8

\* The provider withdraws a key that it publishes.
LEMMA KeyWithdrawKeeps ==
    ASSUME Key!KeyBounds, Key!KeyInv, NEW k \in Kids, Key!Withdraw(k) PROVE Key!KeyInv'
<1> USE DEF Key!KeyInv
<1>1. /\ since[k] # Key!Never /\ gone[k] = Key!Never /\ gone' = [gone EXCEPT ![k] = now] /\ now \in Nat
      /\ UNCHANGED <<now, since, keys, fetchedAt, queue, request, faults>>
  BY DEF Key!Withdraw, Key!Published, Key!Fields
<1>2. gone'[k] = now /\ (\A o \in Kids : o # k => gone'[o] = gone[o])
  BY <1>1 DEF Key!Fields
<1>3. Key!Fields' /\ Key!OneLine' /\ Key!SharedAtOnce'
  BY <1>1 DEF Key!Fields, Key!OneLine, Key!SharedAtOnce
<1>4. \A r \in Requests : request[r] \in Key!RequestRow
  BY DEF Key!Fields
<1>5. Key!Dates'
  BY <1>1, <1>2, <1>4 DEF Key!Dates, Key!RequestRow, Key!Fields
<1>6. Key!ReadsAreRecent'
  <2>1. fetchedAt - Flight <= now /\ keys \in SUBSET Kids
    BY <1>1 DEF Key!Fields, Key!Dates, Key!KeyBounds
  <2>2. \A r \in Requests : request[r].at <= now /\ request[r].got \in SUBSET Kids
    BY <1>4 DEF Key!RequestRow, Key!Dates
  <2>3. Key!ReadAt(keys, fetchedAt - Flight)'
    BY <1>1, <1>2, <2>1 DEF Key!ReadAt, Key!ReadsAreRecent
  <2>4. \A r \in Requests : request[r].pc = "served" => Key!ReadAt(request[r].got, request[r].at)'
    BY <1>1, <1>2, <2>2 DEF Key!ReadAt, Key!ReadsAreRecent
  <2> QED
    BY <1>1, <2>3, <2>4 DEF Key!ReadsAreRecent
<1>7. Key!WithdrawnKeyEnds'
  <2>1. SUFFICES ASSUME NEW r \in Requests, request[r].pc = "accepted", gone'[request[r].kid] # Key!Never
                 PROVE  request[r].at <= gone'[request[r].kid] + Ttl + Flight
    BY <1>1 DEF Key!WithdrawnKeyEnds
  <2>2. CASE request[r].kid = k
    <3>1. request[r].at \in Nat /\ request[r].at <= now
      BY <1>4 DEF Key!RequestRow, Key!Dates
    <3> QED
      BY <1>1, <1>2, <2>2, <3>1 DEF Key!KeyBounds
  <2>3. CASE request[r].kid # k
    BY <1>2, <1>4, <2>1, <2>3 DEF Key!WithdrawnKeyEnds, Key!RequestRow
  <2> QED
    BY <2>2, <2>3
<1>8. Key!UnknownIsNotPublished'
  BY <1>1, <1>2, <1>4 DEF Key!UnknownIsNotPublished, Key!RequestRow
<1> QED
  BY <1>3, <1>5, <1>6, <1>7, <1>8

\* Time passes, but not while the first in line has only to go on.
LEMMA KeyTickKeeps ==
    ASSUME Key!KeyBounds, Key!KeyInv, Key!Tick PROVE Key!KeyInv'
<1> USE DEF Key!KeyInv
<1>1. /\ now \in 0..LastTick /\ now < LastTick /\ now' = now + 1 /\ now' \in 0..LastTick
      /\ UNCHANGED <<since, gone, keys, fetchedAt, queue, request, faults>>
  BY DEF Key!Tick, Key!Fields, Key!KeyBounds
<1>2. queue # <<>> =>
        /\ queue[1] \in Requests /\ 1 \in DOMAIN queue /\ DOMAIN queue = 1..Len(queue) /\ Len(queue) \in Nat
        /\ request[queue[1]].pc # "waiting" /\ now < request[queue[1]].at + Flight
  BY MovedUp DEF Key!Tick, Key!Fields
<1>3. Key!Fields' /\ Key!OneLine'
  BY <1>1 DEF Key!Fields, Key!OneLine
<1>4. \A r \in Requests : request[r] \in Key!RequestRow
  BY DEF Key!Fields
<1>5. \A r \in Requests : ~request[r].renewed
  <2>1. SUFFICES ASSUME NEW r \in Requests, request[r].renewed PROVE FALSE
    OBVIOUS
  <2>2. request[r].pc = "waiting"
    BY <2>1 DEF Key!SharedAtOnce
  <2>3. PICK i \in DOMAIN queue : queue[i] = r
    BY <2>2 DEF Key!OneLine
  <2>4. queue # <<>>
    BY <2>3 DEF Key!Fields
  <2>5. CASE i = 1
    BY <1>2, <2>2, <2>3, <2>4, <2>5
  <2>6. CASE i # 1
    <3>1. 1 \in DOMAIN queue /\ 1 < i
      BY <1>2, <2>3, <2>4, <2>6
    <3>2. request[queue[1]].renewed
      BY <2>1, <2>3, <3>1 DEF Key!SharedAtOnce
    <3> QED
      BY <1>2, <2>4, <3>2 DEF Key!SharedAtOnce
  <2> QED
    BY <2>5, <2>6
<1>6. Key!SharedAtOnce'
  BY <1>1, <1>5 DEF Key!SharedAtOnce, Key!Fields
<1>7. Key!Dates'
  <2>1. fetchedAt <= now' /\ \A k \in Kids :
            since[k] <= now' /\ (gone[k] # Key!Never => gone[k] <= now')
    BY <1>1 DEF Key!Dates, Key!Fields
  <2>2. \A r \in Requests : request[r].at <= now'
    BY <1>1, <1>4 DEF Key!Dates, Key!RequestRow
  <2>3. \A r \in Requests : request[r].pc \in {"asking", "served"} => now' <= request[r].at + Flight
    <3>1. SUFFICES ASSUME NEW r \in Requests, request[r].pc \in {"asking", "served"}
                   PROVE  now' <= request[r].at + Flight
      OBVIOUS
    <3>2. queue[1] = r /\ queue # <<>>
      BY <3>1 DEF Key!OneLine
    <3> QED
      BY <1>1, <1>2, <1>4, <3>2 DEF Key!RequestRow, Key!KeyBounds
  <2> QED
    BY <1>1, <2>1, <2>2, <2>3 DEF Key!Dates
<1>8. Key!ReadsAreRecent'
  BY <1>1 DEF Key!ReadsAreRecent, Key!ReadAt
<1>9. Key!WithdrawnKeyEnds' /\ Key!UnknownIsNotPublished'
  BY <1>1 DEF Key!WithdrawnKeyEnds, Key!UnknownIsNotPublished
<1> QED
  BY <1>3, <1>6, <1>7, <1>8, <1>9

\* Nothing happens.
LEMMA KeyStutterKeeps == ASSUME Key!KeyInv, UNCHANGED Key!kvars PROVE Key!KeyInv'
BY DEF Key!KeyInv, Key!kvars, Key!Fields, Key!OneLine, Key!Dates, Key!SharedAtOnce, Key!ReadsAreRecent, Key!ReadAt,
       Key!WithdrawnKeyEnds, Key!UnknownIsNotPublished

-----------------------------------------------------------------------------
(* What follows. *)

\* The inductive invariant: who stands in line for the lock, how old a read can
\* be, and that those who share one go on before time passes.
THEOREM KeysAreInvariant ==
    ASSUME Key!KeyBounds PROVE Key!Spec => []Key!KeyInv
<1>1. Key!Init => Key!KeyInv
  BY KeyInitKeeps
<1>2. Key!KeyInv /\ [Key!Next]_(Key!kvars) => Key!KeyInv'
  <2>1. SUFFICES ASSUME Key!KeyInv, [Key!Next]_(Key!kvars) PROVE Key!KeyInv'
    OBVIOUS
  <2>2. ASSUME NEW r \in Requests, NEW k \in Kids, Key!Arrive(r, k) PROVE Key!KeyInv'
    BY <2>1, <2>2, KeyArriveKeeps
  <2>3. ASSUME NEW r \in Requests, Key!Resume(r) \/ Key!Serve(r) \/ Key!Receive(r) \/ Key!Fail(r) PROVE Key!KeyInv'
    BY <2>1, <2>3, KeyResumeKeeps, KeyServeKeeps, KeyReceiveKeeps, KeyFailKeeps
  <2>4. ASSUME NEW k \in Kids, Key!Publish(k) \/ Key!Withdraw(k) PROVE Key!KeyInv'
    BY <2>1, <2>4, KeyPublishKeeps, KeyWithdrawKeeps
  <2>5. ASSUME Key!Tick PROVE Key!KeyInv'
    BY <2>1, <2>5, KeyTickKeeps
  <2>6. ASSUME UNCHANGED Key!kvars PROVE Key!KeyInv'
    BY <2>1, <2>6, KeyStutterKeeps
  <2> QED
    BY <2>1, <2>2, <2>3, <2>4, <2>5, <2>6 DEF Key!Next
<1> QED
  BY <1>1, <1>2, PTL DEF Key!Spec

\* The types, for any number of keys and requests.
THEOREM KeyTypes ==
    ASSUME Key!KeyBounds PROVE Key!Spec => []Key!TypeOK
<1>1. Key!KeyInv => Key!TypeOK
  <2>1. SUFFICES ASSUME Key!KeyInv PROVE Key!TypeOK
    OBVIOUS
  <2> USE DEF Key!KeyInv
  <2>2. {now, fetchedAt} \subseteq 0..LastTick /\ keys \subseteq Kids
    BY <2>1 DEF Key!Fields
  <2>3. \A k \in Kids : gone[k] # Key!Never => since[k] \in 0..gone[k]
    BY <2>1 DEF Key!Fields, Key!Dates
  <2>4. \A r \in Requests : request[r].pc \in Key!Over \cup {"waiting", "asking", "served"}
    BY <2>1 DEF Key!Fields, Key!RequestRow
  <2>5. \A r \in Requests :
            /\ request[r].pc \in Key!Over <=> \A i \in DOMAIN queue : queue[i] # r
            /\ request[r].pc \in {"asking", "served"} => Head(queue) = r
    <3>1. TAKE r \in Requests
    <3>2. request[r].pc \in Key!Over <=> \A i \in DOMAIN queue : queue[i] # r
      BY <2>1 DEF Key!OneLine
    <3>3. request[r].pc \in {"asking", "served"} => Head(queue) = r
      <4>1. HAVE request[r].pc \in {"asking", "served"}
      <4>2. queue # <<>> /\ queue[1] = r /\ queue \in Seq(Requests)
        BY <2>1, <3>2, <4>1 DEF Key!OneLine, Key!Fields
      <4> QED
        BY <4>2, MovedUp
    <3> QED
      BY <3>2, <3>3
  <2> QED
    BY <2>2, <2>3, <2>4, <2>5 DEF Key!TypeOK
<1> QED
  BY <1>1, KeysAreInvariant, PTL

\* JWKSClient: a key the provider withdrew opens nothing once no cache that was
\* read before can be in use, however many requests wait for one read.
THEOREM WithdrawnKeysOpenNothing ==
    ASSUME Key!KeyBounds PROVE Key!Spec => []Key!WithdrawnKeyEnds
<1>1. Key!KeyInv => Key!WithdrawnKeyEnds
  BY DEF Key!KeyInv
<1> QED
  BY <1>1, KeysAreInvariant, PTL

\* JWKSClient.get_key: a request is told that a key is unknown only when the key
\* is withdrawn, or was published while the read was under way that it shared.
THEOREM UnknownKeysAreNew ==
    ASSUME Key!KeyBounds PROVE Key!Spec => []Key!UnknownIsNotPublished
<1>1. Key!KeyInv => Key!UnknownIsNotPublished
  BY DEF Key!KeyInv
<1> QED
  BY <1>1, KeysAreInvariant, PTL

-----------------------------------------------------------------------------
(* The application token. *)

USE DEF Token!Over, Token!InLine, Token!Asked

\* The line stays as it is while a call in it, or one out of it, goes on.
LEMMA LineStays ==
    ASSUME Token!OneLine, NEW c \in Calls, UNCHANGED queue,
           call[c].pc \in Token!InLine <=> call'[c].pc \in Token!InLine,
           call'[c].pc \in {"asking", "issued"} => queue[1] = c,
           \A d \in Calls : d # c => call'[d] = call[d]
    PROVE  Token!OneLine'
BY DEF Token!OneLine

\* Who needs a token holds the lock or stands behind those who wait.
LEMMA LineGrows ==
    ASSUME Token!Fields, Token!OneLine, NEW c \in Calls, queue' = Append(queue, c),
           call[c].pc \notin Token!InLine,
           call'[c].pc = IF queue = <<>> THEN "asking" ELSE "waiting",
           \A d \in Calls : d # c => call'[d] = call[d]
    PROVE  Token!OneLine' /\ queue' \in Seq(Calls)
<1>1. /\ queue \in Seq(Calls) /\ queue' \in Seq(Calls)
      /\ DOMAIN queue' = 1..(Len(queue) + 1) /\ DOMAIN queue = 1..Len(queue) /\ Len(queue) \in Nat
      /\ queue'[Len(queue) + 1] = c
      /\ \A i \in DOMAIN queue : queue'[i] = queue[i]
  BY Joined DEF Token!Fields
<1>2. \A i \in DOMAIN queue : queue[i] # c
  BY DEF Token!OneLine
<1>3. \A i, j \in DOMAIN queue' : queue'[i] = queue'[j] => i = j
  BY <1>1, <1>2 DEF Token!OneLine
<1>4. ASSUME NEW d \in Calls
      PROVE  call'[d].pc \in Token!InLine <=> \E i \in DOMAIN queue' : queue'[i] = d
  <2>1. CASE d = c
    BY <1>1, <2>1
  <2>2. CASE d # c
    <3>1. (\E i \in DOMAIN queue' : queue'[i] = d) <=> (\E i \in DOMAIN queue : queue[i] = d)
      BY <1>1, <2>2
    <3>2. call[d].pc \in Token!InLine <=> \E i \in DOMAIN queue : queue[i] = d
      BY DEF Token!OneLine
    <3> HIDE DEF Token!InLine
    <3> QED
      BY <2>2, <3>1, <3>2
  <2> QED
    BY <2>1, <2>2
<1>5. ASSUME NEW d \in Calls, call'[d].pc \in {"asking", "issued"}
      PROVE  queue'[1] = d
  <2>1. CASE d = c
    BY <1>1, <1>5, <2>1
  <2>2. CASE d # c
    <3>1. call[d].pc \in {"asking", "issued"}
      BY <1>5, <2>2
    <3>2. queue[1] = d /\ queue # <<>>
      BY <3>1 DEF Token!OneLine
    <3> QED
      BY <1>1, <3>2
  <2> QED
    BY <2>1, <2>2
<1> QED
  BY <1>1, <1>3, <1>4, <1>5 DEF Token!OneLine

\* Who has a token leaves the line to the others, none of whom asks.
LEMMA LineShrinks ==
    ASSUME Token!Fields, Token!OneLine, NEW c \in Calls, queue # <<>>, Head(queue) = c, queue' = Tail(queue),
           call'[c].pc \notin Token!InLine,
           \A d \in Calls : d # c => call'[d] = call[d]
    PROVE  /\ Token!OneLine' /\ queue' \in Seq(Calls)
           /\ \A d \in Calls : call'[d].pc \notin {"asking", "issued"}
<1>1. queue \in Seq(Calls)
  BY DEF Token!Fields
<1>2. /\ queue' \in Seq(Calls)
      /\ DOMAIN queue' = 1..(Len(queue) - 1) /\ DOMAIN queue = 1..Len(queue) /\ Len(queue) \in Nat \ {0}
      /\ queue[1] = c
      /\ \A i \in DOMAIN queue' : i + 1 \in DOMAIN queue /\ queue'[i] = queue[i + 1]
  BY <1>1, MovedUp
<1>3. \A i, j \in DOMAIN queue : queue[i] = queue[j] => i = j
  BY DEF Token!OneLine
<1>4. /\ \A i, j \in DOMAIN queue' : queue'[i] = queue'[j] => i = j
      /\ \A i \in DOMAIN queue' : queue'[i] # c
      /\ \A d : d # c => ((\A i \in DOMAIN queue' : queue'[i] # d) <=> (\A i \in DOMAIN queue : queue[i] # d))
  <2>1. /\ \A i, j \in DOMAIN Tail(queue) : Tail(queue)[i] = Tail(queue)[j] => i = j
        /\ \A i \in DOMAIN Tail(queue) : Tail(queue)[i] # queue[1]
        /\ \A x : x # queue[1] => ((\A i \in DOMAIN Tail(queue) : Tail(queue)[i] # x)
                                       <=> (\A i \in DOMAIN queue : queue[i] # x))
    BY ONLY <1>1, <1>3, queue # <<>>, LineMoves
  <2> QED
    BY ONLY <1>2, <2>1, queue' = Tail(queue)
<1>5. ASSUME NEW d \in Calls
      PROVE  call'[d].pc \in Token!InLine <=> \E i \in DOMAIN queue' : queue'[i] = d
  <2>1. CASE d = c
    BY <1>4, <2>1
  <2>2. CASE d # c
    <3>1. call[d].pc \in Token!InLine <=> \E i \in DOMAIN queue : queue[i] = d
      BY DEF Token!OneLine
    <3> HIDE DEF Token!InLine
    <3> QED
      BY <1>4, <2>2, <3>1
  <2> QED
    BY <2>1, <2>2
<1>6. ASSUME NEW d \in Calls, call'[d].pc \in {"asking", "issued"}
      PROVE  FALSE
  <2>1. d # c
    BY <1>6
  <2>2. call[d].pc \in {"asking", "issued"}
    BY <1>6, <2>1
  <2>3. queue[1] = d
    BY <2>2 DEF Token!OneLine
  <2> QED
    BY <1>2, <2>1, <2>3
<1> QED
  BY <1>2, <1>4, <1>5, <1>6 DEF Token!OneLine

-----------------------------------------------------------------------------
(* The steps. *)

\* A call that carries a token has one attempt more.
LEMMA Carries ==
    ASSUME Token!TokenBounds, Token!Fields, NEW from \in Token!CallRow, from.tries \in 0..1, NEW t \in Token!Tokens
    PROVE  /\ Token!Sent(from, t) \in Token!CallRow
           /\ Token!Sent(from, t).pc = "sent" /\ Token!Sent(from, t).token = t /\ Token!Sent(from, t).at = now
           /\ Token!Sent(from, t).tries = from.tries + 1 /\ Token!Sent(from, t).before = from.before
<1>1. now \in Nat
  BY DEF Token!Fields, Token!TokenBounds
<1>2. from.tries + 1 \in 0..2
  OBVIOUS
<1> DEFINE more == from.tries + 1
<1>3. Token!Sent(from, t) = [from EXCEPT !.pc = "sent", !.token = t, !.at = now, !.tries = more]
  BY DEF Token!Sent
<1>4. more \in 0..2
  BY <1>2
<1> HIDE DEF more
<1>5. /\ Token!Sent(from, t) \in Token!CallRow
      /\ Token!Sent(from, t).pc = "sent" /\ Token!Sent(from, t).token = t /\ Token!Sent(from, t).at = now
      /\ Token!Sent(from, t).tries = more /\ Token!Sent(from, t).before = from.before
  BY <1>1, <1>3, <1>4 DEF Token!CallRow
<1> QED
  BY <1>5 DEF more

\* The initial state.
LEMMA TokenInitKeeps == ASSUME Token!TokenBounds, Token!Init PROVE Token!TokenInv
<1>1. Token!Fields
  BY DEF Token!TokenBounds, Token!Init, Token!Fields, Token!CallRow, Token!Tokens, Token!NoCall, Token!NoToken
<1>2. Token!OneLine
  BY DEF Token!Init, Token!OneLine, Token!NoCall
<1>3. Token!Counts
  <2>1. ASSUME NEW c \in Calls
        PROVE  call[c].tries = 0 /\ call[c].pc = "idle" /\ call[c].before = 0 /\ call[c].token.era = -1
    BY DEF Token!Init, Token!NoCall, Token!NoToken
  <2>2. -1 <= 0 /\ 0 <= 0 /\ revoked = 0 /\ 0 # 2
    BY DEF Token!Init
  <2> QED
    BY <2>1, <2>2 DEF Token!Counts
<1>4. Token!InTime
  BY DEF Token!Init, Token!InTime, Token!NoCall, Token!NoToken
<1>5. Token!Renewed
  BY DEF Token!Init, Token!Renewed, Token!NoCall
<1>6. Token!RefusedWasTakenBack
  BY DEF Token!Init, Token!RefusedWasTakenBack, Token!NoCall
<1> QED
  BY <1>1, <1>2, <1>3, <1>4, <1>5, <1>6 DEF Token!TokenInv

\* A call that needs a token: the cached one, or whichever it asks or waits for.
LEMMA TokenNeedKeeps ==
    ASSUME Token!TokenBounds, Token!TokenInv, NEW c \in Calls, call[c].pc \notin Token!InLine,
           NEW from \in Token!CallRow, NEW t, NEW until, Token!Need(c, from, t, until),
           cached' = t, cachedUntil' = until, UNCHANGED <<now, revoked, faults>>,
           \/ t = cached /\ until = cachedUntil /\ from.tries = 0
           \/ t = Token!NoToken /\ until = 0 /\ from.tries = 1 /\ call[c].tries = 1 /\ from.before = call[c].before,
           from.token.era <= revoked, from.before <= revoked
    PROVE  Token!TokenInv'
<1> USE DEF Token!TokenInv
<1>1. /\ now \in Nat /\ revoked \in Nat /\ cached \in Token!Tokens /\ cachedUntil \in Nat
      /\ cached' \in Token!Tokens /\ cachedUntil' \in Nat /\ Token!NoToken \in Token!Tokens
      /\ now' = now /\ revoked' = revoked
      /\ {Life, Margin, Flight} \subseteq Nat /\ 2 * Flight <= Margin /\ 2 * Flight < Life
  BY DEF Token!Fields, Token!TokenBounds, Token!Tokens, Token!NoToken
<1>2. \A d \in Calls : call[d] \in Token!CallRow
  BY DEF Token!Fields
<1>3. CASE Token!Usable(t, until)
  <2>1. t = cached /\ until = cachedUntil /\ from.tries = 0 /\ cached # Token!NoToken /\ now < cachedUntil
    BY <1>1, <1>3 DEF Token!Usable
  <2> DEFINE new == Token!Sent(from, cached)
  <2>2. call' = [call EXCEPT ![c] = new] /\ UNCHANGED queue
    BY <1>3, <2>1 DEF Token!Need
  <2>3. /\ new \in Token!CallRow /\ new.pc = "sent" /\ new.token = cached /\ new.at = now
        /\ new.tries = 1 /\ new.before = from.before
    BY <1>1, <2>1, Carries
  <2> HIDE DEF new
  <2>4. call'[c] = new /\ \A d \in Calls : d # c => call'[d] = call[d]
    BY <2>2 DEF Token!Fields
  <2>5. Token!Fields'
    BY <1>1, <2>1, <2>2, <2>3 DEF Token!Fields
  <2>6. Token!OneLine'
    BY <2>2, <2>3, <2>4, LineStays
  <2>7. Token!Counts'
    BY <1>1, <2>3, <2>4 DEF Token!Counts, Token!InTime
  <2>8. Token!InTime'
    <3>1. now + Flight < cached.until
      <4>1. now < cachedUntil /\ cachedUntil + Margin <= cached.until + Flight /\ cached.until \in Nat
        BY <1>1, <2>1 DEF Token!InTime, Token!Tokens, Token!Usable
      <4> QED
        BY <1>1, <4>1
    <3>2. now <= now + Flight /\ now <= now
      BY <1>1
    <3> QED
      BY <1>1, <2>1, <2>3, <2>4, <3>1, <3>2 DEF Token!InTime
  <2>9. Token!Renewed'
    <3>1. Token!Usable(cached, cachedUntil)
      BY <1>3, <2>1
    <3>2. \A d \in Calls : call[d].pc \notin {"asking", "issued"}
      BY <3>1 DEF Token!Renewed
    <3>3. cached' = cached /\ cachedUntil' = cachedUntil
      BY <2>1
    <3> QED
      BY <1>1, <2>3, <2>4, <3>2, <3>3 DEF Token!Renewed, Token!Usable
  <2>10. Token!RefusedWasTakenBack'
    BY <1>1, <2>3, <2>4 DEF Token!RefusedWasTakenBack
  <2> QED
    BY <2>5, <2>6, <2>7, <2>8, <2>9, <2>10
<1>4. CASE ~Token!Usable(t, until)
  <2> DEFINE pc == IF queue = <<>> THEN "asking" ELSE "waiting"
             new == [from EXCEPT !.pc = pc, !.at = now]
  <2>1. call' = [call EXCEPT ![c] = new] /\ queue' = Append(queue, c)
    BY <1>4 DEF Token!Need
  <2>2. /\ new \in Token!CallRow /\ new.pc = pc /\ new.token = from.token /\ new.at = now
        /\ new.tries = from.tries /\ new.before = from.before
    BY <1>1 DEF Token!CallRow
  <2>3. pc \in {"asking", "waiting"} /\ new.tries \in {0, 1}
    BY <2>2
  <2> HIDE DEF new
  <2>4. call'[c] = new /\ \A d \in Calls : d # c => call'[d] = call[d]
    BY <2>1 DEF Token!Fields
  <2>5. Token!OneLine' /\ queue' \in Seq(Calls)
    BY <2>1, <2>2, <2>4, LineGrows
  <2> HIDE DEF pc
  <2>6. Token!Fields'
    BY <1>1, <2>1, <2>2, <2>5 DEF Token!Fields
  <2>7. Token!Counts'
    BY <1>1, <2>2, <2>3, <2>4 DEF Token!Counts
  <2>8. Token!InTime'
    <3>1. cached'.era <= revoked
      BY <1>1 DEF Token!InTime, Token!NoToken
    <3>2. cached' = Token!NoToken \/ cachedUntil' <= now \/ cachedUntil' + Margin <= cached'.until + Flight
      BY DEF Token!InTime
    <3>3. now <= now + Flight /\ now <= now
      BY <1>1
    <3> QED
      BY <1>1, <2>2, <2>3, <2>4, <3>1, <3>2, <3>3 DEF Token!InTime
  <2>9. Token!Renewed'
    <3>1. ~Token!Usable(cached', cachedUntil')
      BY <1>4
    <3>2. ~Token!Usable(cached, cachedUntil)' 
      BY <1>1, <3>1 DEF Token!Usable
    <3>3. \A d \in Calls : call'[d].pc = "issued" => d # c /\ call[d].pc = "issued"
      BY <2>2, <2>3, <2>4
    <3>4. \A d \in Calls : call'[d].tries = 1 => call[d].tries = 1 /\ call'[d].before = call[d].before
      BY <2>2, <2>4
    <3>5. \A d \in Calls : call'[d].tries = 2 => d # c
      BY <2>2, <2>3, <2>4
    <3> QED
      BY <2>4, <3>2, <3>3, <3>4, <3>5 DEF Token!Renewed
  <2>10. Token!RefusedWasTakenBack'
    BY <1>1, <2>2, <2>3, <2>4 DEF Token!RefusedWasTakenBack
  <2> QED
    BY <2>5, <2>6, <2>7, <2>8, <2>9, <2>10
<1> QED
  BY <1>3, <1>4

\* A call begins.
LEMMA TokenBeginKeeps ==
    ASSUME Token!TokenBounds, Token!TokenInv, NEW c \in Calls, Token!Begin(c) PROVE Token!TokenInv'
<1> DEFINE from == [Token!NoCall EXCEPT !.before = revoked]
<1>1. /\ call[c].pc \in Token!Over /\ Token!Need(c, from, cached, cachedUntil)
      /\ UNCHANGED <<now, revoked, cached, cachedUntil, faults>>
  BY DEF Token!Begin
<1>2. revoked \in Nat
  BY DEF Token!TokenInv, Token!Fields, Token!TokenBounds
<1>3. from \in Token!CallRow /\ from.tries = 0 /\ from.before = revoked /\ from.token.era <= revoked
  BY <1>2 DEF Token!NoCall, Token!NoToken, Token!CallRow, Token!Tokens
<1>4. call[c].pc \notin Token!InLine
  BY <1>1
<1> HIDE DEF from
<1> QED
  BY <1>1, <1>2, <1>3, <1>4, TokenNeedKeeps

\* The lock is free.
LEMMA TokenResumeKeeps ==
    ASSUME Token!TokenBounds, Token!TokenInv, NEW c \in Calls, Token!Resume(c) PROVE Token!TokenInv'
<1> USE DEF Token!TokenInv
<1>1. /\ call[c] \in Token!CallRow /\ call[c].pc = "waiting" /\ queue # <<>> /\ Head(queue) = c
      /\ UNCHANGED <<now, revoked, cached, cachedUntil, faults>>
      /\ now \in Nat /\ revoked \in Nat /\ cached \in Token!Tokens /\ cachedUntil \in Nat
      /\ {Life, Margin, Flight} \subseteq Nat /\ 2 * Flight <= Margin /\ 2 * Flight < Life
  BY DEF Token!Resume, Token!Holds, Token!Fields, Token!TokenBounds
<1>2. queue[1] = c
  BY <1>1, MovedUp DEF Token!Fields
<1>3. call[c].tries \in 0..1 /\ call[c].token.era <= revoked /\ call[c].before <= revoked
      /\ call[c].before \in Nat
  BY <1>1 DEF Token!Counts, Token!CallRow
<1>4. CASE Token!Usable(cached, cachedUntil)
  <2> DEFINE new == Token!Sent(call[c], cached)
  <2>1. call' = [call EXCEPT ![c] = new] /\ queue' = Tail(queue)
    BY <1>4 DEF Token!Resume
  <2>2. /\ new \in Token!CallRow /\ new.pc = "sent" /\ new.token = cached /\ new.at = now
        /\ new.tries = call[c].tries + 1 /\ new.before = call[c].before
    BY <1>1, <1>3, Carries
  <2> HIDE DEF new
  <2>3. call'[c] = new /\ \A d \in Calls : d # c => call'[d] = call[d]
    BY <2>1 DEF Token!Fields
  <2>4. Token!OneLine' /\ queue' \in Seq(Calls) /\ \A d \in Calls : call'[d].pc \notin {"asking", "issued"}
    BY <1>1, <2>1, <2>2, <2>3, LineShrinks
  <2>5. Token!Fields'
    BY <1>1, <2>1, <2>2, <2>4 DEF Token!Fields
  <2>6. Token!Counts'
    BY <1>1, <1>3, <2>2, <2>3 DEF Token!Counts, Token!InTime
  <2>7. Token!InTime'
    <3>1. now + Flight < cached.until
      <4>1. now < cachedUntil /\ cachedUntil + Margin <= cached.until + Flight /\ cached.until \in Nat
        BY <1>1, <1>4 DEF Token!InTime, Token!Tokens, Token!Usable
      <4> QED
        BY <1>1, <4>1
    <3>2. now <= now + Flight /\ now <= now
      BY <1>1
    <3> QED
      BY <1>1, <2>2, <2>3, <2>4, <3>1, <3>2 DEF Token!InTime
  <2>8. Token!Renewed'
    <3>1. new.tries = 2 => call[c].tries = 1
      BY <1>3, <2>2
    <3>2. new.tries = 2 => new.before <= new.token.era
      BY <1>1, <1>4, <2>2, <3>1 DEF Token!Renewed
    <3> QED
      BY <1>1, <2>2, <2>3, <2>4, <3>2 DEF Token!Renewed, Token!Usable
  <2>9. Token!RefusedWasTakenBack'
    BY <1>1, <2>2, <2>3 DEF Token!RefusedWasTakenBack
  <2> QED
    BY <2>4, <2>5, <2>6, <2>7, <2>8, <2>9
<1>5. CASE ~Token!Usable(cached, cachedUntil)
  <2> DEFINE new == [call[c] EXCEPT !.pc = "asking", !.at = now]
  <2>1. call' = [call EXCEPT ![c] = new] /\ UNCHANGED queue
    BY <1>5 DEF Token!Resume, Token!Fields
  <2>2. /\ new \in Token!CallRow /\ new.pc = "asking" /\ new.token = call[c].token /\ new.at = now
        /\ new.tries = call[c].tries /\ new.before = call[c].before
    BY <1>1 DEF Token!CallRow
  <2> HIDE DEF new
  <2>3. call'[c] = new /\ \A d \in Calls : d # c => call'[d] = call[d]
    BY <2>1 DEF Token!Fields
  <2>4. Token!Fields'
    BY <1>1, <2>1, <2>2 DEF Token!Fields
  <2>5. Token!OneLine'
    BY <1>1, <1>2, <2>1, <2>2, <2>3, LineStays
  <2>6. Token!Counts'
    BY <1>1, <1>3, <2>2, <2>3 DEF Token!Counts
  <2>7. Token!InTime'
    <3>1. now <= now + Flight /\ now <= now
      BY <1>1
    <3>2. now <= now + Flight /\ now <= now
      BY <1>1
    <3> QED
      BY <1>1, <2>2, <2>3, <3>1, <3>2 DEF Token!InTime
  <2>8. Token!Renewed'
    BY <1>1, <1>3, <1>5, <2>2, <2>3 DEF Token!Renewed, Token!Usable
  <2>9. Token!RefusedWasTakenBack'
    BY <1>1, <2>2, <2>3 DEF Token!RefusedWasTakenBack
  <2> QED
    BY <2>4, <2>5, <2>6, <2>7, <2>8, <2>9
<1> QED
  BY <1>4, <1>5

\* The provider gives a token.
LEMMA TokenIssueKeeps ==
    ASSUME Token!TokenBounds, Token!TokenInv, NEW c \in Calls, Token!Issue(c) PROVE Token!TokenInv'
<1> USE DEF Token!TokenInv
<1> DEFINE given == [until |-> now + Life, era |-> revoked]
           new == [call[c] EXCEPT !.pc = "issued", !.token = given]
<1>1. /\ call[c] \in Token!CallRow
      /\ now \in Nat /\ revoked \in Nat
      /\ {Life, Margin, Flight} \subseteq Nat
  BY DEF Token!Fields, Token!TokenBounds
<1>2. /\ call[c].pc = "asking" /\ queue # <<>> /\ Head(queue) = c
      /\ UNCHANGED <<now, revoked, cached, cachedUntil, queue, faults>>
  BY Zenon DEF Token!Issue, Token!Holds
<1>3. given \in Token!Tokens /\ given.until = now + Life /\ given.era = revoked
  BY <1>1 DEF Token!Tokens
<1> HIDE DEF given
<1>4. call' = [call EXCEPT ![c] = new]
  BY Zenon DEF Token!Issue, Token!Fields, Token!CallRow, given
<1>5. /\ new \in Token!CallRow /\ new.pc = "issued" /\ new.token = given /\ new.at = call[c].at
      /\ new.tries = call[c].tries /\ new.before = call[c].before
  BY <1>1, <1>3 DEF Token!CallRow
<1> HIDE DEF new
<1>6. call'[c] = new /\ \A d \in Calls : d # c => call'[d] = call[d]
  BY <1>4 DEF Token!Fields
<1>7. queue[1] = c /\ call[c].tries \in 0..2 /\ call[c].at \in Nat
  BY <1>1, <1>2, MovedUp DEF Token!Fields, Token!CallRow
<1>8. Token!Fields'
  BY <1>2, <1>4, <1>5 DEF Token!Fields
<1>9. Token!OneLine'
  BY <1>2, <1>5, <1>6, <1>7, LineStays
<1>10. Token!Counts'
  BY <1>1, <1>2, <1>3, <1>5, <1>6 DEF Token!Counts
<1>11. Token!InTime'
  <2>1. call[c].at + Life <= now + Life
    BY <1>1, <1>2, <1>7 DEF Token!InTime
  <2> QED
    BY <1>2, <1>3, <1>5, <1>6, <2>1 DEF Token!InTime
<1>12. Token!Renewed'
  <2>1. \A d \in Calls : call'[d].before <= revoked
    BY <1>5, <1>6 DEF Token!Counts
  <2>2. \A d \in Calls : call'[d].pc = "issued" => d = c
    <3>1. \A d \in Calls : call[d].pc = "issued" => d = c
      BY <1>7 DEF Token!OneLine
    <3> QED
      BY <1>6, <3>1
  <2>3. ~Token!Usable(cached, cachedUntil)
    BY <1>2 DEF Token!Renewed
  <2>4. call'[c].tries # 2
    BY <1>2, <1>5, <1>6 DEF Token!Counts
  <2> QED
    BY <1>2, <1>3, <1>5, <1>6, <2>1, <2>2, <2>3, <2>4 DEF Token!Renewed, Token!Usable
<1>13. Token!RefusedWasTakenBack'
  BY <1>2, <1>5, <1>6 DEF Token!RefusedWasTakenBack
<1> QED
  BY <1>8, <1>9, <1>10, <1>11, <1>12, <1>13

\* The token arrives.
LEMMA TokenTakeKeeps ==
    ASSUME Token!TokenBounds, Token!TokenInv, NEW c \in Calls, Token!Take(c) PROVE Token!TokenInv'
<1> USE DEF Token!TokenInv
<1> DEFINE t == call[c].token
           new == Token!Sent(call[c], t)
<1>1. /\ call[c] \in Token!CallRow /\ call[c].pc = "issued" /\ queue # <<>> /\ Head(queue) = c
      /\ UNCHANGED <<now, revoked, faults>> /\ cached' = t /\ cachedUntil' = Token!UsedUntil
      /\ queue' = Tail(queue)
      /\ now \in Nat /\ revoked \in Nat
      /\ {Life, Margin, Flight} \subseteq Nat /\ 2 * Flight <= Margin /\ 2 * Flight < Life
  BY DEF Token!Take, Token!Holds, Token!Fields, Token!TokenBounds
<1>2. t \in Token!Tokens /\ call[c].tries \in 0..1 /\ t.era <= revoked /\ call[c].before <= revoked
      /\ call[c].at \in Nat /\ t.until \in Nat
  BY <1>1 DEF Token!Counts, Token!CallRow, Token!Tokens
<1>3. call[c].at <= now /\ now <= call[c].at + Flight /\ call[c].at + Life <= t.until
  BY <1>1 DEF Token!InTime
<1>4. /\ new \in Token!CallRow /\ new.pc = "sent" /\ new.token = t /\ new.at = now
      /\ new.tries = call[c].tries + 1 /\ new.before = call[c].before
  BY <1>1, <1>2, Carries
<1>5. call' = [call EXCEPT ![c] = new]
  BY DEF Token!Take, Token!Fields
<1>6. \A d \in Calls : call[d].tries = 1 => call[d].before <= t.era
  BY <1>1 DEF Token!Renewed
<1> HIDE DEF new, t
<1>7. call'[c] = new /\ \A d \in Calls : d # c => call'[d] = call[d]
  BY <1>5 DEF Token!Fields
<1>8. Token!OneLine' /\ queue' \in Seq(Calls) /\ \A d \in Calls : call'[d].pc \notin {"asking", "issued"}
  BY <1>1, <1>4, <1>7, LineShrinks
<1>9. Token!UsedUntil \in Nat /\ (Token!UsedUntil <= now \/ Token!UsedUntil + Margin <= t.until + Flight)
  <2>1. CASE Life > Margin
    <3>1. Token!UsedUntil = now + (Life - Margin) /\ Life - Margin \in Nat
      BY <1>1, <2>1 DEF Token!UsedUntil
    <3>2. now + Life <= t.until + Flight
      <4>1. now \in Nat /\ Life \in Nat /\ Flight \in Nat /\ call[c].at \in Nat /\ t.until \in Nat
        BY <1>1, <1>2
      <4> QED
        BY ONLY <1>3, <4>1
    <3>3. Token!UsedUntil + Margin = now + Life
      BY <1>1, <3>1
    <3> QED
      BY <1>1, <3>1, <3>2, <3>3
  <2>2. CASE ~(Life > Margin)
    <3>1. Token!UsedUntil = now
      BY <1>1, <2>2 DEF Token!UsedUntil
    <3> QED
      BY <1>1, <3>1
  <2> QED
    BY <2>1, <2>2
<1>10. Token!Fields'
  BY <1>1, <1>2, <1>4, <1>5, <1>8, <1>9 DEF Token!Fields
<1>11. Token!Counts'
  BY <1>1, <1>2, <1>4, <1>7 DEF Token!Counts
<1>12. Token!InTime'
  <2>1. now + Flight < t.until /\ now <= now /\ now <= now + Flight
    <3>1. /\ now \in Nat /\ Flight \in Nat /\ Life \in Nat
          /\ call[c].at \in Nat /\ t.until \in Nat /\ 2 * Flight < Life
      BY <1>1, <1>2
    <3>2. now + Flight <= call[c].at + 2 * Flight
      BY ONLY <1>3, <3>1
    <3>3. call[c].at + 2 * Flight < call[c].at + Life
      BY ONLY <3>1
    <3>4. now + Flight < t.until
      BY ONLY <1>3, <3>1, <3>2, <3>3
    <3>5. now <= now /\ now <= now + Flight
      BY ONLY <3>1
    <3> QED
      BY <3>4, <3>5
  <2> QED
    BY <1>1, <1>2, <1>4, <1>7, <1>8, <1>9, <2>1 DEF Token!InTime
<1>13. Token!Renewed'
  <2>1. new.tries = 2 => new.before <= new.token.era
    BY <1>2, <1>4, <1>6
  <2> QED
    BY <1>1, <1>4, <1>6, <1>7, <1>8, <2>1 DEF Token!Renewed
<1>14. Token!RefusedWasTakenBack'
  BY <1>1, <1>4, <1>7 DEF Token!RefusedWasTakenBack
<1> QED
  BY <1>8, <1>10, <1>11, <1>12, <1>13, <1>14

\* The provider answers the request itself: a token that has not ended is
\* refused only where it was taken back.
LEMMA TokenJudgeKeeps ==
    ASSUME Token!TokenBounds, Token!TokenInv, NEW c \in Calls, Token!Judge(c) PROVE Token!TokenInv'
<1> USE DEF Token!TokenInv
<1> DEFINE pc == IF Token!Good(call[c].token) THEN "fine" ELSE "unauthorised"
           new == [call[c] EXCEPT !.pc = pc]
<1>1. /\ call[c] \in Token!CallRow /\ call[c].pc = "sent" /\ call' = [call EXCEPT ![c] = new]
      /\ UNCHANGED <<now, revoked, cached, cachedUntil, queue, faults>>
      /\ now \in Nat /\ revoked \in Nat /\ Flight \in Nat
  BY DEF Token!Judge, Token!Fields, Token!TokenBounds
<1>2. pc = "unauthorised" => call[c].token.era < revoked
  <2>1. /\ now <= call[c].at + Flight /\ call[c].at + Flight < call[c].token.until
        /\ call[c].at \in Nat /\ call[c].token.until \in Nat /\ call[c].token.era \in Int
        /\ call[c].token.era <= revoked
    BY <1>1 DEF Token!InTime, Token!Counts, Token!CallRow, Token!Tokens
  <2> QED
    BY <1>1, <2>1 DEF Token!Good
<1>3. /\ pc \in {"fine", "unauthorised"}
      /\ new \in Token!CallRow /\ new.pc = pc /\ new.token = call[c].token /\ new.at = call[c].at
      /\ new.tries = call[c].tries /\ new.before = call[c].before
  BY <1>1 DEF Token!CallRow
<1> HIDE DEF new, pc
<1>4. call'[c] = new /\ \A d \in Calls : d # c => call'[d] = call[d]
  BY <1>1 DEF Token!Fields
<1>5. Token!Fields'
  BY <1>1, <1>3 DEF Token!Fields
<1>6. Token!OneLine'
  BY <1>1, <1>3, <1>4, LineStays
<1>7. Token!Counts'
  BY <1>1, <1>3, <1>4 DEF Token!Counts
<1>8. Token!InTime'
  BY <1>1, <1>3, <1>4 DEF Token!InTime
<1>9. Token!Renewed'
  BY <1>1, <1>3, <1>4 DEF Token!Renewed, Token!Usable
<1>10. Token!RefusedWasTakenBack'
  BY <1>1, <1>2, <1>3, <1>4 DEF Token!RefusedWasTakenBack
<1> QED
  BY <1>5, <1>6, <1>7, <1>8, <1>9, <1>10

\* A call is over, in the line or out of it.
LEMMA TokenEndKeeps ==
    ASSUME Token!TokenBounds, Token!TokenInv, NEW c \in Calls, NEW how \in {"done", "lost"},
           \/ call[c].pc \notin Token!InLine /\ UNCHANGED queue
           \/ queue # <<>> /\ Head(queue) = c /\ queue' = Tail(queue),
           call' = [call EXCEPT ![c] = Token!Ended(how)], faults' \in Nat,
           UNCHANGED <<now, revoked, cached, cachedUntil>>
    PROVE  Token!TokenInv'
<1> USE DEF Token!TokenInv
<1>1. revoked \in Nat /\ UNCHANGED <<now, revoked, cached, cachedUntil>>
  BY DEF Token!Fields, Token!TokenBounds
<1>2. /\ Token!Ended(how) \in Token!CallRow /\ Token!Ended(how).pc = how /\ Token!Ended(how).token = Token!NoToken
      /\ Token!Ended(how).tries = 0 /\ Token!Ended(how).before = 0 /\ Token!NoToken.era = -1
  BY DEF Token!Ended, Token!NoCall, Token!NoToken, Token!CallRow, Token!Tokens
<1>3. call'[c] = Token!Ended(how) /\ \A d \in Calls : d # c => call'[d] = call[d]
  BY DEF Token!Fields
<1>4. Token!OneLine' /\ queue' \in Seq(Calls)
  <2>1. CASE call[c].pc \notin Token!InLine /\ UNCHANGED queue
    BY <1>2, <1>3, <2>1, LineStays DEF Token!Fields
  <2>2. CASE queue # <<>> /\ Head(queue) = c /\ queue' = Tail(queue)
    BY <1>2, <1>3, <2>2, LineShrinks
  <2> QED
    BY <2>1, <2>2
<1>5. Token!Fields'
  BY <1>1, <1>2, <1>4 DEF Token!Fields
<1>6. Token!Counts'
  <2>1. -1 <= revoked /\ 0 <= revoked
    BY <1>1
  <2> QED
    BY <1>1, <1>2, <1>3, <2>1 DEF Token!Counts
<1>7. Token!InTime'
  BY <1>1, <1>2, <1>3 DEF Token!InTime
<1>8. Token!Renewed'
  BY <1>1, <1>2, <1>3 DEF Token!Renewed, Token!Usable
<1>9. Token!RefusedWasTakenBack'
  BY <1>1, <1>2, <1>3 DEF Token!RefusedWasTakenBack
<1> QED
  BY <1>4, <1>5, <1>6, <1>7, <1>8, <1>9

\* The call has its answer.
LEMMA TokenReceiveKeeps ==
    ASSUME Token!TokenBounds, Token!TokenInv, NEW c \in Calls, Token!Receive(c) PROVE Token!TokenInv'
<1>1. /\ call[c] \in Token!CallRow /\ UNCHANGED <<now, revoked, faults>>
      /\ faults \in Nat /\ revoked \in Nat
  BY DEF Token!Receive, Token!TokenInv, Token!Fields, Token!TokenBounds
<1>2. CASE /\ call[c].pc = "fine" /\ call' = [call EXCEPT ![c] = Token!Ended("done")]
           /\ UNCHANGED <<cached, cachedUntil, queue>>
  BY <1>1, <1>2, TokenEndKeeps
<1>3. CASE call[c].pc = "unauthorised" /\ call[c].tries = 1 /\ Token!ClearToken(c)
  <2>1. /\ Token!Need(c, call[c], Token!NoToken, 0) /\ cached' = Token!NoToken /\ cachedUntil' = 0
        /\ call[c].pc \notin Token!InLine /\ call[c].tries = 1
    BY <1>3 DEF Token!ClearToken
  <2>2. call[c].token.era <= revoked /\ call[c].before <= revoked
    BY DEF Token!TokenInv, Token!Counts
  <2> QED
    BY <1>1, <2>1, <2>2, TokenNeedKeeps
<1>4. CASE /\ call[c].pc = "unauthorised" /\ call[c].tries = 2
           /\ call' = [call EXCEPT ![c].pc = "refused"]
           /\ UNCHANGED <<cached, cachedUntil, queue>>
  <2> USE DEF Token!TokenInv
  <2> DEFINE new == [call[c] EXCEPT !.pc = "refused"]
  <2>1. /\ call' = [call EXCEPT ![c] = new]
        /\ UNCHANGED <<now, revoked, cached, cachedUntil, queue, faults>>
    BY <1>1, <1>4 DEF Token!Fields
  <2>2. /\ new \in Token!CallRow /\ new.pc = "refused" /\ new.token = call[c].token /\ new.at = call[c].at
        /\ new.tries = 2 /\ new.before = call[c].before
    BY <1>1, <1>4 DEF Token!CallRow
  <2> HIDE DEF new
  <2>3. call'[c] = new /\ \A d \in Calls : d # c => call'[d] = call[d]
    BY <2>1 DEF Token!Fields
  <2>4. Token!Fields'
    BY <2>1, <2>2 DEF Token!Fields
  <2>5. Token!OneLine'
    BY <1>4, <2>1, <2>2, <2>3, LineStays
  <2>6. Token!Counts'
    BY <1>4, <2>1, <2>2, <2>3 DEF Token!Counts
  <2>7. Token!InTime'
    BY <2>1, <2>2, <2>3 DEF Token!InTime
  <2>8. Token!Renewed'
    BY <1>4, <2>1, <2>2, <2>3 DEF Token!Renewed, Token!Usable
  <2>9. Token!RefusedWasTakenBack'
    BY <1>4, <2>1, <2>2, <2>3 DEF Token!RefusedWasTakenBack
  <2> QED
    BY <2>4, <2>5, <2>6, <2>7, <2>8, <2>9
<1> QED
  BY <1>2, <1>3, <1>4 DEF Token!Receive

\* A request does not arrive.
LEMMA TokenFailKeeps ==
    ASSUME Token!TokenBounds, Token!TokenInv, NEW c \in Calls, Token!Fail(c) PROVE Token!TokenInv'
<1>1. /\ call' = [call EXCEPT ![c] = Token!Ended("lost")] /\ UNCHANGED <<now, revoked, cached, cachedUntil>>
      /\ \/ queue # <<>> /\ Head(queue) = c /\ queue' = Tail(queue)
         \/ call[c].pc \in Token!Asked /\ UNCHANGED queue
  BY DEF Token!Fail, Token!Holds
<1>2. faults' \in Nat
  BY DEF Token!Fail, Token!TokenInv, Token!Fields
<1>3. call[c].pc \in Token!Asked => call[c].pc \notin Token!InLine
  OBVIOUS
<1> QED
  BY <1>1, <1>2, <1>3, TokenEndKeeps

\* The provider takes every token back.
LEMMA TokenRevokeKeeps ==
    ASSUME Token!TokenBounds, Token!TokenInv, Token!Revoke PROVE Token!TokenInv'
<1> USE DEF Token!TokenInv
<1>1. /\ revoked' = revoked + 1 /\ revoked \in Nat /\ revoked' \in 0..MaxRevocations
      /\ UNCHANGED <<now, cached, cachedUntil, queue, call, faults>>
  BY DEF Token!Revoke, Token!Fields, Token!TokenBounds
<1>2. \A c \in Calls : call[c].token.era \in Int /\ call[c].before \in Int
  BY DEF Token!Fields, Token!CallRow, Token!Tokens
<1>3. cached.era \in Int
  BY DEF Token!Fields, Token!Tokens
<1>4. Token!Fields' /\ Token!OneLine' /\ Token!Renewed'
  BY <1>1 DEF Token!Fields, Token!OneLine, Token!Renewed, Token!Usable
<1>5. Token!Counts'
  <2>1. \A c \in Calls : call[c].token.era <= revoked' /\ call[c].before <= revoked'
    BY <1>1, <1>2 DEF Token!Counts
  <2> QED
    BY <1>1, <2>1 DEF Token!Counts
<1>6. Token!InTime'
  <2>1. cached.era <= revoked'
    BY <1>1, <1>3 DEF Token!InTime
  <2> QED
    BY <1>1, <2>1 DEF Token!InTime
<1>7. Token!RefusedWasTakenBack'
  BY <1>1, <1>2 DEF Token!RefusedWasTakenBack
<1> QED
  BY <1>4, <1>5, <1>6, <1>7

\* Time passes: no request outlives Flight.
LEMMA TokenTickKeeps ==
    ASSUME Token!TokenBounds, Token!TokenInv, Token!Tick PROVE Token!TokenInv'
<1> USE DEF Token!TokenInv
<1>1. /\ now' = now + 1 /\ now \in Nat /\ now' \in 0..LastTick /\ Flight \in Nat
      /\ UNCHANGED <<revoked, cached, cachedUntil, queue, call, faults>>
      /\ cachedUntil \in Nat
  BY DEF Token!Tick, Token!Fields, Token!TokenBounds
<1>2. Token!Fields' /\ Token!OneLine' /\ Token!Counts' /\ Token!RefusedWasTakenBack'
  BY <1>1 DEF Token!Fields, Token!OneLine, Token!Counts, Token!RefusedWasTakenBack
<1>3. Token!Usable(cached, cachedUntil)' => Token!Usable(cached, cachedUntil)
  BY <1>1 DEF Token!Usable
<1>4. Token!Renewed'
  BY <1>1, <1>3 DEF Token!Renewed
<1>5. Token!InTime'
  <2>1. \A c \in Calls : call[c].pc \in {"asking", "issued"} \cup Token!Asked =>
            call[c].at <= now' /\ now' <= call[c].at + Flight
    <3>1. SUFFICES ASSUME NEW c \in Calls, call[c].pc \in {"asking", "issued"} \cup Token!Asked
                   PROVE  call[c].at <= now' /\ now' <= call[c].at + Flight
      OBVIOUS
    <3>2. now < call[c].at + Flight
      BY <3>1 DEF Token!Tick
    <3>3. call[c].at \in Nat /\ call[c].at <= now
      BY <3>1 DEF Token!Fields, Token!CallRow, Token!InTime
    <3> QED
      BY <1>1, <3>2, <3>3
  <2>2. cached = Token!NoToken \/ cachedUntil <= now' \/ cachedUntil + Margin <= cached.until + Flight
    BY <1>1 DEF Token!InTime
  <2> QED
    BY <1>1, <2>1, <2>2 DEF Token!InTime
<1> QED
  BY <1>2, <1>4, <1>5

\* Nothing happens.
LEMMA TokenStutterKeeps == ASSUME Token!TokenInv, UNCHANGED Token!tvars PROVE Token!TokenInv'
BY DEF Token!TokenInv, Token!tvars, Token!Fields, Token!OneLine, Token!Counts, Token!InTime, Token!Renewed, Token!Usable, Token!RefusedWasTakenBack

-----------------------------------------------------------------------------
(* What follows. *)

\* The inductive invariant: a token in use has longer to live than a request,
\* and what a second attempt carries was given after the call began.
THEOREM TokenIsInvariant ==
    ASSUME Token!TokenBounds PROVE Token!Spec => []Token!TokenInv
<1>1. Token!Init => Token!TokenInv
  BY TokenInitKeeps
<1>2. Token!TokenInv /\ [Token!Next]_(Token!tvars) => Token!TokenInv'
  <2>1. SUFFICES ASSUME Token!TokenInv, [Token!Next]_(Token!tvars) PROVE Token!TokenInv'
    OBVIOUS
  <2>2. ASSUME NEW c \in Calls, Token!Begin(c) \/ Token!Resume(c) \/ Token!Issue(c) \/ Token!Take(c) PROVE Token!TokenInv'
    BY <2>1, <2>2, TokenBeginKeeps, TokenResumeKeeps, TokenIssueKeeps, TokenTakeKeeps
  <2>3. ASSUME NEW c \in Calls, Token!Judge(c) \/ Token!Receive(c) \/ Token!Fail(c) PROVE Token!TokenInv'
    BY <2>1, <2>3, TokenJudgeKeeps, TokenReceiveKeeps, TokenFailKeeps
  <2>4. ASSUME Token!Revoke \/ Token!Tick PROVE Token!TokenInv'
    BY <2>1, <2>4, TokenRevokeKeeps, TokenTickKeeps
  <2>5. ASSUME UNCHANGED Token!tvars PROVE Token!TokenInv'
    BY <2>1, <2>5, TokenStutterKeeps
  <2> QED
    BY <2>1, <2>2, <2>3, <2>4, <2>5 DEF Token!Next
<1> QED
  BY <1>1, <1>2, PTL DEF Token!Spec

\* The types, for any number of calls.
THEOREM TokenTypes ==
    ASSUME Token!TokenBounds PROVE Token!Spec => []Token!TypeOK
<1>1. Token!TokenInv => Token!TypeOK
  <2>1. SUFFICES ASSUME Token!TokenInv PROVE Token!TypeOK
    OBVIOUS
  <2> USE DEF Token!TokenInv
  <2>2. now \in 0..LastTick /\ revoked \in 0..MaxRevocations /\ cached.era \in -1..revoked
    BY <2>1 DEF Token!Fields, Token!InTime, Token!Tokens, Token!TokenBounds
  <2>3. ASSUME NEW c \in Calls
        PROVE  /\ call[c].pc \in Token!Over \cup {"waiting", "asking", "issued", "sent", "fine", "unauthorised"}
               /\ call[c].tries \in 0..2
    BY <2>1 DEF Token!Fields, Token!CallRow
  <2>4. ASSUME NEW c \in Calls
        PROVE  call[c].pc \in {"waiting", "asking", "issued"} <=> \E i \in DOMAIN queue : queue[i] = c
    BY <2>1 DEF Token!OneLine
  <2>5. ASSUME NEW c \in Calls, call[c].pc \in {"asking", "issued"} PROVE Head(queue) = c
    <3>1. queue[1] = c /\ queue \in Seq(Calls)
      BY <2>1, <2>5 DEF Token!OneLine, Token!Fields
    <3>2. queue # <<>>
      BY <2>4, <2>5, <3>1
    <3> QED
      BY <3>1, <3>2, MovedUp
  <2> QED
    BY <2>2, <2>3, <2>4, <2>5 DEF Token!TypeOK
<1> QED
  BY <1>1, TokenIsInvariant, PTL

\* GraphClient.access_token: the margin is enough.  A token nobody took back is
\* not refused for its age, however the calls share it.
THEOREM TokensAreNotRefusedForAge ==
    ASSUME Token!TokenBounds PROVE Token!Spec => []Token!RefusedWasTakenBack
<1>1. Token!TokenInv => Token!RefusedWasTakenBack
  BY DEF Token!TokenInv
<1> QED
  BY <1>1, TokenIsInvariant, PTL

\* GraphClient._request: a call that is refused twice saw a revocation of its own,
\* whoever fetched the token of its second attempt.
THEOREM SecondAttemptSurvives ==
    ASSUME Token!TokenBounds PROVE Token!Spec => []Token!RefusalIsNew
<1>1. Token!TokenInv => Token!RefusalIsNew
  <2>1. SUFFICES ASSUME Token!TokenInv, NEW c \in Calls, call[c].pc = "refused"
                 PROVE  call[c].before < revoked
    BY DEF Token!RefusalIsNew
  <2>2. call[c] \in Token!CallRow /\ revoked \in Nat
    BY <2>1 DEF Token!TokenInv, Token!Fields, Token!TokenBounds
  <2>3. call[c].token.era < revoked
    BY <2>1 DEF Token!TokenInv, Token!RefusedWasTakenBack
  <2>4. call[c].before <= call[c].token.era
    BY <2>1 DEF Token!TokenInv, Token!Counts, Token!Renewed
  <2> QED
    BY <2>2, <2>3, <2>4 DEF Token!CallRow, Token!Tokens
<1> QED
  BY <1>1, TokenIsInvariant, PTL

-----------------------------------------------------------------------------
(* One call at a time. *)

\* Where one call is made at a time, nobody but the call itself fills the cache
\* between its attempts.
LEMMA TokenLoneKeeps ==
    ASSUME Token!TokenBounds, \A c, d \in Calls : c = d, Token!TokenInv, Token!LoneCall, [Token!Next]_(Token!tvars)
    PROVE  Token!LoneCall'
<1>1. /\ \A c \in Calls : call[c] \in Token!CallRow /\ call[c].token.era \in Int
      /\ call \in [Calls -> Token!CallRow] /\ cached.era \in Int
      /\ now \in Nat /\ revoked \in Nat /\ cachedUntil \in Nat
  <2>1. /\ call \in [Calls -> Token!CallRow] /\ cached \in Token!Tokens
        /\ now \in Nat /\ revoked \in Nat /\ cachedUntil \in Nat
    BY DEF Token!TokenInv, Token!Fields, Token!TokenBounds
  <2>2. \A t \in Token!Tokens : t.era \in Int
    BY DEF Token!Tokens
  <2>3. \A c \in Calls : call[c] \in Token!CallRow /\ call[c].token \in Token!Tokens
    BY <2>1 DEF Token!CallRow
  <2> QED
    BY <2>1, <2>2, <2>3
<1>2. ASSUME NEW c \in Calls, NEW from \in Token!CallRow, NEW t, NEW until, Token!Need(c, from, t, until),
             cached' = t, cachedUntil' = until, UNCHANGED <<now, revoked>>,
             \/ t = cached /\ until = cachedUntil /\ from.tries = 0
             \/ t = Token!NoToken /\ until = 0 /\ from.tries = 1 /\ revoked >= 1
      PROVE  Token!LoneCall'
  <2>1. CASE Token!Usable(t, until)
    <3> DEFINE new == Token!Sent(from, cached)
    <3>1. t = cached /\ until = cachedUntil /\ from.tries = 0 /\ Token!Usable(cached, cachedUntil)
      BY <1>2, <2>1 DEF Token!Usable
    <3>2. call' = [call EXCEPT ![c] = new]
      BY <1>2, <2>1, <3>1 DEF Token!Need
    <3>3. new.pc = "sent" /\ new.token = cached /\ new.tries = 1 /\ cached.era >= 0
      <4>1. cached \in Token!Tokens
        BY DEF Token!TokenInv, Token!Fields
      <4>2. Token!Fields
        BY DEF Token!TokenInv
      <4>3. new.pc = "sent" /\ new.token = cached /\ new.tries = 1
        BY <1>2, <3>1, <4>1, <4>2, Carries
      <4> QED
        BY <1>2, <3>1, <4>3 DEF Token!LoneCall
    <3> HIDE DEF new
    <3>4. call'[c] = new /\ \A d \in Calls : d = c
      BY <1>1, <3>2
    <3> QED
      BY <1>2, <3>1, <3>3, <3>4 DEF Token!LoneCall, Token!Usable
  <2>2. CASE ~Token!Usable(t, until)
    <3> DEFINE new == [from EXCEPT !.pc = IF queue = <<>> THEN "asking" ELSE "waiting", !.at = now]
    <3>1. call' = [call EXCEPT ![c] = new]
      BY <1>2, <2>2 DEF Token!Need
    <3>2. new.pc \in {"asking", "waiting"} /\ new.tries = from.tries /\ from.tries \in {0, 1}
      BY <1>2 DEF Token!CallRow
    <3> HIDE DEF new
    <3>3. call'[c] = new /\ \A d \in Calls : d = c
      BY <1>1, <3>1
    <3>4. ~Token!Usable(cached, cachedUntil)'
      BY <1>2, <2>2 DEF Token!Usable
    <3>5. from.tries = 1 => revoked >= 1
      BY <1>2
    <3> QED
      BY <1>2, <3>2, <3>3, <3>4, <3>5 DEF Token!LoneCall
  <2> QED
    BY <2>1, <2>2
<1>3. ASSUME NEW c \in Calls, Token!Begin(c) PROVE Token!LoneCall'
  <2> DEFINE from == [Token!NoCall EXCEPT !.before = revoked]
  <2>1. from \in Token!CallRow /\ from.tries = 0
    BY <1>1 DEF Token!NoCall, Token!NoToken, Token!CallRow, Token!Tokens
  <2>2. Token!Need(c, from, cached, cachedUntil) /\ UNCHANGED <<now, revoked, cached, cachedUntil>>
    BY <1>3 DEF Token!Begin
  <2> HIDE DEF from
  <2> QED
    BY <1>2, <2>1, <2>2
<1>4. ASSUME NEW c \in Calls, Token!Resume(c) PROVE Token!LoneCall'
  <2>1. call[c].pc = "waiting" /\ UNCHANGED <<now, revoked, cached, cachedUntil>> /\ \A d \in Calls : d = c
    BY <1>4 DEF Token!Resume, Token!Holds
  <2>2. CASE Token!Usable(cached, cachedUntil)
    <3> DEFINE new == Token!Sent(call[c], cached)
    <3>1. call' = [call EXCEPT ![c] = new]
      BY <1>4, <2>2 DEF Token!Resume
    <3>2. call[c].tries = 0
      BY <1>1, <2>1, <2>2 DEF Token!LoneCall, Token!TokenInv, Token!Counts, Token!CallRow
    <3>3. new.pc = "sent" /\ new.token = cached /\ new.tries = 1
      BY <1>1, <3>2, Carries DEF Token!TokenInv, Token!Fields
    <3> HIDE DEF new
    <3>4. call'[c] = new
      BY <1>1, <3>1
    <3> QED
      BY <2>1, <2>2, <3>3, <3>4 DEF Token!LoneCall, Token!Usable
  <2>3. CASE ~Token!Usable(cached, cachedUntil)
    <3> DEFINE new == [call[c] EXCEPT !.pc = "asking", !.at = now]
    <3>1. call' = [call EXCEPT ![c] = new]
      BY <1>1, <1>4, <2>3 DEF Token!Resume
    <3>2. new.pc = "asking" /\ new.tries = call[c].tries /\ call[c].tries # 2
      BY <1>1, <2>1 DEF Token!CallRow, Token!TokenInv, Token!Counts
    <3> HIDE DEF new
    <3>3. call'[c] = new
      BY <1>1, <3>1
    <3> QED
      BY <2>1, <2>3, <3>2, <3>3 DEF Token!LoneCall, Token!Usable
  <2> QED
    BY <2>2, <2>3
<1>5. ASSUME NEW c \in Calls, Token!Issue(c) PROVE Token!LoneCall'
  <2> DEFINE given == [until |-> now + Life, era |-> revoked]
             new == [call[c] EXCEPT !.pc = "issued", !.token = given]
  <2>1. /\ call[c].pc = "asking" /\ UNCHANGED <<now, revoked, cached, cachedUntil>>
        /\ \A d \in Calls : d = c
    BY <1>5, Zenon DEF Token!Issue, Token!Holds
  <2>2. given.era = revoked
    OBVIOUS
  <2> HIDE DEF given
  <2>3. call' = [call EXCEPT ![c] = new]
    BY <1>1, <1>5, Zenon DEF Token!Issue, Token!CallRow, given
  <2>4. new.pc = "issued" /\ new.token = given /\ new.tries = call[c].tries /\ call[c].tries # 2
    BY <1>1, <2>1 DEF Token!CallRow, Token!TokenInv, Token!Counts
  <2> HIDE DEF new
  <2>5. call'[c] = new
    BY <1>1, <2>3
  <2>6. ~Token!Usable(cached, cachedUntil) /\ (call[c].tries = 1 => revoked >= 1) /\ revoked >= 0
    BY <1>1, <2>1 DEF Token!TokenInv, Token!Renewed, Token!LoneCall
  <2> QED
    BY <2>1, <2>2, <2>4, <2>5, <2>6 DEF Token!LoneCall, Token!Usable
<1>6. ASSUME NEW c \in Calls, Token!Take(c) PROVE Token!LoneCall'
  <2> DEFINE t == call[c].token
             new == Token!Sent(call[c], t)
  <2>1. /\ call[c].pc = "issued" /\ cached' = t /\ UNCHANGED <<now, revoked>>
        /\ call' = [call EXCEPT ![c] = new] /\ \A d \in Calls : d = c
    BY <1>1, <1>6 DEF Token!Take, Token!Holds
  <2>2. t \in Token!Tokens /\ call[c].tries \in 0..1 /\ t.era >= 0 /\ (call[c].tries = 1 => t.era >= 1)
    BY <1>1, <2>1 DEF Token!TokenInv, Token!Counts, Token!CallRow, Token!LoneCall
  <2>3. new.pc = "sent" /\ new.token = t /\ new.tries = call[c].tries + 1
    BY <1>1, <2>2, Carries DEF Token!TokenInv
  <2> HIDE DEF new, t
  <2>4. call'[c] = new
    BY <1>1, <2>1
  <2>5. new.tries = 2 => t.era >= 1
    BY <2>2, <2>3
  <2> QED
    BY <2>1, <2>2, <2>3, <2>4, <2>5 DEF Token!LoneCall
<1>7. ASSUME NEW c \in Calls, NEW new, call' = [call EXCEPT ![c] = new],
             UNCHANGED <<now, revoked, cached, cachedUntil>>, new.pc \notin Token!InLine,
             new.tries = 2 => call[c].tries = 2,
             new.token = call[c].token \/ new.tries = 0,
             new.pc \in Token!Asked => call[c].pc \in Token!Asked /\ new.token = call[c].token
      PROVE  Token!LoneCall'
  <2>1. call'[c] = new /\ \A d \in Calls : d = c
    BY <1>1, <1>7
  <2>2. new.tries = 2 => new.token.era >= 1
    BY <1>7 DEF Token!LoneCall
  <2>3. new.pc \in Token!Asked => new.token.era >= 0
    BY <1>7 DEF Token!LoneCall
  <2> QED
    BY <1>7, <2>1, <2>2, <2>3 DEF Token!LoneCall, Token!Usable
<1>8. ASSUME NEW c \in Calls, Token!Judge(c) PROVE Token!LoneCall'
  <2> DEFINE pc == IF Token!Good(call[c].token) THEN "fine" ELSE "unauthorised"
             new == [call[c] EXCEPT !.pc = pc]
  <2>1. call' = [call EXCEPT ![c] = new] /\ UNCHANGED <<now, revoked, cached, cachedUntil>>
        /\ call[c].pc = "sent"
    BY <1>1, <1>8 DEF Token!Judge
  <2>2. pc \in {"fine", "unauthorised"}
    OBVIOUS
  <2> HIDE DEF pc
  <2>3. new.pc = pc /\ new.tries = call[c].tries /\ new.token = call[c].token
    BY <1>1 DEF Token!CallRow
  <2> HIDE DEF new
  <2> QED
    BY <1>7, <2>1, <2>2, <2>3
<1>9. ASSUME NEW c \in Calls, NEW how \in {"done", "lost"}, call' = [call EXCEPT ![c] = Token!Ended(how)],
             UNCHANGED <<now, revoked, cached, cachedUntil>>
      PROVE  Token!LoneCall'
  <2> DEFINE new == Token!Ended(how)
  <2>1. new.pc = how /\ new.tries = 0
    BY DEF Token!Ended, Token!NoCall
  <2>2. call' = [call EXCEPT ![c] = new]
    BY <1>9
  <2> HIDE DEF new
  <2>3. new.pc \notin Token!InLine /\ new.pc \notin Token!Asked /\ new.tries # 2
    BY <2>1
  <2> QED
    BY <1>7, <1>9, <2>1, <2>2, <2>3
<1>10. ASSUME NEW c \in Calls, Token!Receive(c) PROVE Token!LoneCall'
  <2>1. CASE /\ call[c].pc = "fine" /\ call' = [call EXCEPT ![c] = Token!Ended("done")]
             /\ UNCHANGED <<cached, cachedUntil, queue>>
    BY <1>9, <1>10, <2>1 DEF Token!Receive
  <2>2. CASE call[c].pc = "unauthorised" /\ call[c].tries = 1 /\ Token!ClearToken(c)
    <3>1. Token!Need(c, call[c], Token!NoToken, 0) /\ cached' = Token!NoToken /\ cachedUntil' = 0 /\ UNCHANGED <<now, revoked>>
      BY <1>10, <2>2 DEF Token!ClearToken, Token!Receive
    <3>2. revoked >= 1
      <4>1. call[c].token.era < revoked
        BY <2>2 DEF Token!TokenInv, Token!RefusedWasTakenBack
      <4>2. call[c].token.era >= 0
        BY <2>2 DEF Token!LoneCall
      <4> QED
        BY <1>1, <4>1, <4>2
    <3> QED
      BY <1>1, <1>2, <2>2, <3>1, <3>2
  <2>3. CASE /\ call[c].pc = "unauthorised" /\ call[c].tries = 2
             /\ call' = [call EXCEPT ![c].pc = "refused"]
             /\ UNCHANGED <<cached, cachedUntil, queue>>
    <3> DEFINE new == [call[c] EXCEPT !.pc = "refused"]
    <3>1. call' = [call EXCEPT ![c] = new] /\ UNCHANGED <<now, revoked, cached, cachedUntil>>
      BY <1>1, <1>10, <2>3 DEF Token!Receive
    <3>2. new.pc = "refused" /\ new.tries = call[c].tries /\ new.token = call[c].token
      BY <1>1 DEF Token!CallRow
    <3> HIDE DEF new
    <3> QED
      BY <1>7, <3>1, <3>2
  <2> QED
    BY <1>10, <2>1, <2>2, <2>3 DEF Token!Receive
<1>11. ASSUME NEW c \in Calls, Token!Fail(c) PROVE Token!LoneCall'
  BY <1>9, <1>11 DEF Token!Fail
<1>12. ASSUME Token!Revoke PROVE Token!LoneCall'
  BY <1>1, <1>12 DEF Token!Revoke, Token!LoneCall, Token!Usable
<1>13. ASSUME Token!Tick PROVE Token!LoneCall'
  <2>1. now' = now + 1 /\ UNCHANGED <<revoked, cached, cachedUntil, call>>
    BY <1>13 DEF Token!Tick
  <2>2. Token!Usable(cached, cachedUntil)' => Token!Usable(cached, cachedUntil)
    BY <1>1, <2>1 DEF Token!Usable
  <2> QED
    BY <2>1, <2>2 DEF Token!LoneCall
<1>14. ASSUME UNCHANGED Token!tvars PROVE Token!LoneCall'
  BY <1>14 DEF Token!tvars, Token!LoneCall, Token!Usable
<1> QED
  BY <1>3, <1>4, <1>5, <1>6, <1>8, <1>10, <1>11, <1>12, <1>13, <1>14 DEF Token!Next

\* GraphClient._request: where one call is made at a time, two refusals are of
\* two revocations.
THEOREM TwoRefusalsAreTwoRevocations ==
    ASSUME Token!TokenBounds, \A c, d \in Calls : c = d
    PROVE  Token!Spec => []Token!RefusedTwiceWasRevokedTwice
<1>1. Token!Init => Token!LoneCall
  <2>1. SUFFICES ASSUME Token!Init PROVE Token!LoneCall
    OBVIOUS
  <2>2. ASSUME NEW c \in Calls PROVE call[c].tries = 0 /\ call[c].pc = "idle"
    BY <2>1 DEF Token!Init, Token!NoCall
  <2>3. ~Token!Usable(cached, cachedUntil)
    BY <2>1 DEF Token!Init, Token!Usable
  <2>4. 0 # 1 /\ 0 # 2 /\ "idle" \notin Token!Asked /\ "idle" # "issued"
    OBVIOUS
  <2> HIDE DEF Token!Asked
  <2> QED
    BY <2>2, <2>3, <2>4 DEF Token!LoneCall
<1>2. Token!TokenInv /\ Token!LoneCall /\ [Token!Next]_(Token!tvars) => Token!LoneCall'
  BY TokenLoneKeeps
<1>3. Token!TokenInv /\ Token!LoneCall => Token!RefusedTwiceWasRevokedTwice
  <2>1. SUFFICES ASSUME Token!TokenInv, Token!LoneCall, NEW c \in Calls, call[c].pc = "refused" PROVE revoked >= 2
    BY DEF Token!RefusedTwiceWasRevokedTwice
  <2>2. call[c].token.era < revoked /\ call[c].tries = 2
    BY <2>1 DEF Token!TokenInv, Token!RefusedWasTakenBack, Token!Counts
  <2>3. call[c].token.era >= 1 /\ call[c].token.era \in Int /\ revoked \in Nat
    BY <2>1, <2>2 DEF Token!LoneCall, Token!TokenInv, Token!Fields, Token!CallRow, Token!Tokens, Token!TokenBounds
  <2> QED
    BY <2>2, <2>3
<1>4. Token!Spec => []Token!TokenInv
  BY TokenIsInvariant
<1> QED
  BY <1>1, <1>2, <1>3, <1>4, PTL DEF Token!Spec

HIDE DEF Key!Over, Key!Never, Token!Over, Token!InLine, Token!Asked

-----------------------------------------------------------------------------
(* Replies. *)

LEMMA ReplyInitKeeps == ASSUME Reply!Init PROVE Reply!ReplyInv
<1>1. /\ row = [r \in Replies |-> [status |-> "none", draft |-> 0]] /\ mailbox = <<>>
      /\ act = [p \in People |-> Reply!NoAct] /\ faults = 0 /\ crashes = 0
  BY DEF Reply!Init
<1>2. Reply!NoAct.doing = "nothing"
  BY DEF Reply!NoAct
<1>3. Reply!Fields
  BY <1>1 DEF Reply!Fields, Reply!Statuses
<1>4. Reply!OwnDrafts /\ Reply!RecordedWasSent
  BY <1>1, <1>2 DEF Reply!OwnDrafts, Reply!RecordedWasSent, Reply!Busy, Reply!DraftOf
<1>5. Reply!SaidSentWasAccepted
  BY <1>1 DEF Reply!SaidSentWasAccepted
<1> QED
  BY <1>3, <1>4, <1>5 DEF Reply!ReplyInv

\* What a person at a reply has in hand.
LEMMA AtWork ==
    ASSUME Reply!Fields, NEW p \in People, act[p].doing # "nothing"
    PROVE  act[p] \in Reply!Act
BY DEF Reply!Fields, Reply!NoAct

\* What a request becomes when it goes on, as far as its draft stays.
LEMMA CarriedOn ==
    ASSUME Reply!Fields, NEW p \in People, act[p].doing # "nothing",
           NEW what \in {"drafting", "sending", "recording", "failing", "discarding", "withdrawing"},
           NEW i \in Nat
    PROVE  LET new == [act[p] EXCEPT !.doing = what, !.draft = i]
           IN  /\ new \in Reply!Act /\ new.doing = what /\ new.reply = act[p].reply
               /\ new.seen = act[p].seen /\ new.draft = i
BY AtWork DEF Reply!Act

\* One person's request moves, the others stay where they were.
LEMMA OneActs ==
    ASSUME Reply!Fields, NEW p \in People, NEW new \in Reply!Act \cup {Reply!NoAct},
           act' = [act EXCEPT ![p] = new]
    PROVE  /\ act' \in [People -> Reply!Act \cup {Reply!NoAct}] /\ act'[p] = new
           /\ \A q \in People : q # p => act'[q] = act[q]
BY DEF Reply!Fields

\* The mailbox as it was: a row that changes its status and its draft, a request
\* that goes on or ends.
LEMMA RowsMove ==
    ASSUME Reply!ReplyInv, mailbox' = mailbox, faults' \in Nat, crashes' \in Nat,
           row' \in [Replies -> [status : Reply!Statuses, draft : Nat]],
           act' \in [People -> Reply!Act \cup {Reply!NoAct}],
           \A r \in Replies : Reply!DraftOf(r, row'[r].draft),
           \A r \in Replies : row'[r].status = "sent" => Reply!SentDrafts(r) # {},
           \A p \in People : act'[p].doing # "nothing" =>
               /\ Reply!DraftOf(act'[p].reply, act'[p].draft)
               /\ act'[p].doing \in {"sending", "recording", "discarding"} => act'[p].draft # 0
               /\ act'[p].doing = "recording" => mailbox[act'[p].draft].state = "sent"
    PROVE  Reply!ReplyInv'
<1>1. Reply!Fields'
  BY DEF Reply!ReplyInv, Reply!Fields
<1>2. \A r \in Replies : Reply!DraftOf(r, row[r].draft)'
  BY DEF Reply!DraftOf
<1>3. ASSUME NEW p \in People, act'[p].doing # "nothing"
      PROVE  Reply!DraftOf(act[p].reply, act[p].draft)'
  <2>1. Reply!DraftOf(act'[p].reply, act'[p].draft)
    BY <1>3
  <2> QED
    BY <2>1 DEF Reply!DraftOf
<1>4. \A p \in People :
        act'[p].doing \in {"sending", "recording", "discarding"} => act'[p].draft # 0
  OBVIOUS
<1>5. Reply!OwnDrafts'
  BY ONLY <1>2, <1>3, <1>4 DEF Reply!OwnDrafts, Reply!Busy
<1>6. Reply!RecordedWasSent'
  BY DEF Reply!RecordedWasSent
<1>7. Reply!SaidSentWasAccepted'
  <2>1. \A r : Reply!SentDrafts(r)' = Reply!SentDrafts(r)
    BY DEF Reply!SentDrafts
  <2> QED
    BY <2>1 DEF Reply!SaidSentWasAccepted
<1> QED
  BY <1>1, <1>5, <1>6, <1>7 DEF Reply!ReplyInv

\* The rows as they were: the mailbox keeps what it has, sent stays sent, and one
\* request goes on.
LEMMA MailMoves ==
    ASSUME Reply!ReplyInv, row' = row, faults' \in Nat, crashes' \in Nat,
           mailbox' \in Seq(Reply!Mail), DOMAIN mailbox \subseteq DOMAIN mailbox',
           \A i \in DOMAIN mailbox :
               /\ mailbox'[i].reply = mailbox[i].reply
               /\ mailbox[i].state = "sent" => mailbox'[i] = mailbox[i],
           NEW p \in People, NEW new \in Reply!Act, act' = [act EXCEPT ![p] = new],
           new.draft # 0 => new.draft \in DOMAIN mailbox' /\ mailbox'[new.draft].reply = new.reply,
           new.doing \in {"sending", "recording", "discarding"} => new.draft # 0,
           new.doing = "recording" => mailbox'[new.draft].state = "sent"
    PROVE  Reply!ReplyInv'
<1>1. /\ act' \in [People -> Reply!Act \cup {Reply!NoAct}] /\ act'[p] = new
      /\ \A q \in People : q # p => act'[q] = act[q]
  BY OneActs DEF Reply!ReplyInv
<1>2. Reply!Fields'
  BY <1>1 DEF Reply!ReplyInv, Reply!Fields
<1>3. ASSUME NEW r \in Replies, NEW i \in Nat, Reply!DraftOf(r, i) PROVE Reply!DraftOf(r, i)'
  BY <1>3 DEF Reply!DraftOf
<1>4. \A r \in Replies : Reply!DraftOf(r, row[r].draft)'
  <2>1. ASSUME NEW r \in Replies PROVE Reply!DraftOf(r, row[r].draft)'
    <3>1. Reply!DraftOf(r, row[r].draft) /\ row[r].draft \in Nat
      BY DEF Reply!ReplyInv, Reply!OwnDrafts, Reply!Fields
    <3>2. row'[r].draft = 0 \/ (row'[r].draft \in DOMAIN mailbox' /\ mailbox'[row'[r].draft].reply = r)
      BY <3>1 DEF Reply!DraftOf
    <3> QED
      BY <3>2 DEF Reply!DraftOf
  <2> QED
    BY <2>1
<1>5. ASSUME NEW q \in People, Reply!Busy(q)' PROVE Reply!DraftOf(act[q].reply, act[q].draft)'
  <2>1. CASE q = p
    <3>1. act'[q].draft = 0 \/ (act'[q].draft \in DOMAIN mailbox' /\ mailbox'[act'[q].draft].reply = act'[q].reply)
      BY <1>1, <2>1
    <3> QED
      BY <3>1 DEF Reply!DraftOf
  <2>2. CASE q # p
    <3>1. act'[q] = act[q] /\ Reply!Busy(q)
      BY <1>1, <1>5, <2>2 DEF Reply!Busy
    <3>2. Reply!DraftOf(act[q].reply, act[q].draft)
      BY <3>1 DEF Reply!ReplyInv, Reply!OwnDrafts
    <3>3. act'[q].draft = 0 \/ (act'[q].draft \in DOMAIN mailbox' /\ mailbox'[act'[q].draft].reply = act'[q].reply)
      BY <3>1, <3>2 DEF Reply!DraftOf
    <3> QED
      BY <3>3 DEF Reply!DraftOf
  <2> QED
    BY <2>1, <2>2
<1>6. \A q \in People :
        act'[q].doing \in {"sending", "recording", "discarding"} => act'[q].draft # 0
  BY <1>1 DEF Reply!ReplyInv, Reply!OwnDrafts
<1>7. Reply!OwnDrafts'
  BY <1>4, <1>5, <1>6 DEF Reply!OwnDrafts
<1>8. Reply!RecordedWasSent'
  <2>1. ASSUME NEW q \in People, act'[q].doing = "recording"
        PROVE  mailbox'[act'[q].draft].state = "sent"
    <3>1. CASE q = p
      BY <1>1, <2>1, <3>1
    <3>2. CASE q # p
      <4>1. act'[q] = act[q] /\ act[q].doing = "recording" /\ Reply!Busy(q)
        BY <1>1, <2>1, <3>2 DEF Reply!Busy
      <4>2. act[q].draft \in DOMAIN mailbox /\ mailbox[act[q].draft].state = "sent"
        BY <4>1 DEF Reply!ReplyInv, Reply!OwnDrafts, Reply!RecordedWasSent, Reply!DraftOf
      <4> QED
        BY <4>1, <4>2
    <3> QED
      BY <3>1, <3>2
  <2> QED
    BY <2>1 DEF Reply!RecordedWasSent
<1>9. Reply!SaidSentWasAccepted'
  <2>1. ASSUME NEW r \in Replies, NEW i \in Reply!SentDrafts(r) PROVE i \in Reply!SentDrafts(r)'
    BY <2>1 DEF Reply!SentDrafts
  <2>2. ASSUME NEW r \in Replies, row'[r].status = "sent" PROVE Reply!SentDrafts(r)' # {}
    <3>1. PICK i : i \in Reply!SentDrafts(r)
      BY <2>2 DEF Reply!ReplyInv, Reply!SaidSentWasAccepted
    <3> QED
      BY <2>1, <3>1
  <2> QED
    BY <2>2 DEF Reply!SaidSentWasAccepted
<1> QED
  BY <1>2, <1>7, <1>8, <1>9 DEF Reply!ReplyInv

\* A call costs a fault at most.
LEMMA CallsCount == ASSUME Reply!ReplyInv, Reply!Fine \/ Reply!Fault \/ Reply!Lost PROVE faults' \in Nat
BY DEF Reply!ReplyInv, Reply!Fields, Reply!Fine, Reply!Fault, Reply!Lost

LEMMA ComposeKeeps == ASSUME Reply!ReplyInv, NEW r \in Replies, Reply!Compose(r) PROVE Reply!ReplyInv'
<1>1. /\ row[r].status = "none" /\ row' = [row EXCEPT ![r].status = "draft"]
      /\ UNCHANGED <<mailbox, act, faults, crashes>>
  BY DEF Reply!Compose
<1>2. row \in [Replies -> [status : Reply!Statuses, draft : Nat]]
  BY DEF Reply!ReplyInv, Reply!Fields
<1>3. /\ row' \in [Replies -> [status : Reply!Statuses, draft : Nat]]
      /\ \A s \in Replies : /\ row'[s].draft = row[s].draft
                            /\ row'[s].status = "sent" => row[s].status = "sent"
  BY <1>1, <1>2 DEF Reply!Statuses
<1>4. /\ \A s \in Replies : Reply!DraftOf(s, row'[s].draft)
      /\ \A s \in Replies : row'[s].status = "sent" => Reply!SentDrafts(s) # {}
  BY <1>3 DEF Reply!ReplyInv, Reply!OwnDrafts, Reply!SaidSentWasAccepted
<1>5. \A p \in People : act'[p].doing # "nothing" =>
        /\ Reply!DraftOf(act'[p].reply, act'[p].draft)
        /\ act'[p].doing \in {"sending", "recording", "discarding"} => act'[p].draft # 0
        /\ act'[p].doing = "recording" => mailbox[act'[p].draft].state = "sent"
  BY <1>1 DEF Reply!ReplyInv, Reply!OwnDrafts, Reply!RecordedWasSent, Reply!Busy
<1>6. faults' \in Nat /\ crashes' \in Nat /\ act' \in [People -> Reply!Act \cup {Reply!NoAct}]
  BY <1>1 DEF Reply!ReplyInv, Reply!Fields
<1> QED
  BY <1>1, <1>3, <1>4, <1>5, <1>6, RowsMove

\* A request opens at a reply with the row as it is.
LEMMA OpenKeeps ==
    ASSUME Reply!ReplyInv, NEW p \in People, NEW r \in Replies,
           Reply!OpenSend(p, r) \/ Reply!OpenWithdraw(p, r)
    PROVE  Reply!ReplyInv'
<1> DEFINE new(what) == [doing |-> what, reply |-> r, seen |-> row[r], draft |-> row[r].draft]
<1>1. row[r] \in [status : Reply!Statuses, draft : Nat] /\ Reply!DraftOf(r, row[r].draft)
  BY DEF Reply!ReplyInv, Reply!Fields, Reply!OwnDrafts
<1>2. /\ UNCHANGED <<row, mailbox, faults, crashes>>
      /\ \E what \in {"drafting", "sending", "withdrawing", "discarding"} :
            /\ act' = [act EXCEPT ![p] = new(what)]
            /\ what \in {"sending", "discarding"} => row[r].draft # 0
  BY DEF Reply!OpenSend, Reply!OpenWithdraw
<1>3. PICK what \in {"drafting", "sending", "withdrawing", "discarding"} :
        /\ act' = [act EXCEPT ![p] = new(what)]
        /\ what \in {"sending", "discarding"} => row[r].draft # 0
  BY <1>2
<1>4. /\ new(what) \in Reply!Act /\ new(what).doing = what /\ new(what).reply = r
      /\ new(what).draft = row[r].draft
  BY <1>1 DEF Reply!Act
<1> HIDE DEF new
<1>5. faults' \in Nat /\ crashes' \in Nat /\ mailbox' \in Seq(Reply!Mail) /\ mailbox' = mailbox
  BY <1>2 DEF Reply!ReplyInv, Reply!Fields
<1> QED
  BY <1>1, <1>2, <1>3, <1>4, <1>5, MailMoves DEF Reply!DraftOf

\* The provider makes a draft: the others stay where they are.
LEMMA Drafted ==
    ASSUME mailbox \in Seq(Reply!Mail), NEW m \in Reply!Mail, mailbox' = Append(mailbox, m)
    PROVE  /\ mailbox' \in Seq(Reply!Mail) /\ DOMAIN mailbox \subseteq DOMAIN mailbox'
           /\ \A i \in DOMAIN mailbox : mailbox'[i] = mailbox[i]
           /\ Len(mailbox) + 1 \in DOMAIN mailbox' /\ mailbox'[Len(mailbox) + 1] = m
           /\ Len(mailbox) + 1 \in Nat /\ Len(mailbox) + 1 # 0
           /\ DOMAIN mailbox' = DOMAIN mailbox \cup {Len(mailbox) + 1}
OBVIOUS

\* The provider changes the state of a draft.
LEMMA Restated ==
    ASSUME mailbox \in Seq(Reply!Mail), NEW i \in DOMAIN mailbox, NEW state \in {"sent", "deleted"},
           mailbox' = [mailbox EXCEPT ![i].state = state]
    PROVE  /\ mailbox' \in Seq(Reply!Mail) /\ DOMAIN mailbox' = DOMAIN mailbox
           /\ \A j \in DOMAIN mailbox :
                /\ mailbox'[j].reply = mailbox[j].reply
                /\ j # i => mailbox'[j] = mailbox[j]
           /\ mailbox'[i].state = state
<1> DEFINE new == [mailbox[i] EXCEPT !.state = state]
<1>1. mailbox[i] \in Reply!Mail /\ \A j \in DOMAIN mailbox : mailbox[j] \in Reply!Mail
  OBVIOUS
<1>2. new \in Reply!Mail /\ new.reply = mailbox[i].reply /\ new.state = state
  BY <1>1 DEF Reply!Mail
<1>3. mailbox' = [mailbox EXCEPT ![i] = new]
  OBVIOUS
<1> HIDE DEF new
<1>4. /\ DOMAIN mailbox' = DOMAIN mailbox /\ mailbox'[i] = new
      /\ \A j \in DOMAIN mailbox : j # i => mailbox'[j] = mailbox[j]
  BY <1>3
<1>5. mailbox' \in Seq(Reply!Mail)
  BY <1>2, <1>3
<1> QED
  BY <1>1, <1>2, <1>4, <1>5

LEMMA CreateDraftKeeps == ASSUME Reply!ReplyInv, NEW p \in People, Reply!Create(p) PROVE Reply!ReplyInv'
<1>1. act[p].doing = "drafting" /\ UNCHANGED <<row, crashes>> /\ act[p].doing # "nothing"
  BY DEF Reply!Create
<1>2. faults' \in Nat /\ crashes' \in Nat /\ mailbox \in Seq(Reply!Mail) /\ act[p] \in Reply!Act
  BY <1>1, CallsCount, AtWork DEF Reply!Create, Reply!ReplyInv, Reply!Fields
<1>3. CASE Reply!Carry(p, "failing") /\ UNCHANGED mailbox
  <2> DEFINE new == [act[p] EXCEPT !.doing = "failing"]
  <2>1. /\ new \in Reply!Act /\ new.doing = "failing" /\ new.reply = act[p].reply
        /\ new.draft = act[p].draft
    BY <1>2 DEF Reply!Act
  <2>2. act' = [act EXCEPT ![p] = new]
    BY <1>3 DEF Reply!Carry
  <2>3. act[p].draft # 0 => act[p].draft \in DOMAIN mailbox /\ mailbox[act[p].draft].reply = act[p].reply
    BY <1>1 DEF Reply!ReplyInv, Reply!OwnDrafts, Reply!DraftOf, Reply!Busy
  <2> HIDE DEF new
  <2> QED
    BY <1>1, <1>2, <1>3, <2>1, <2>2, <2>3, MailMoves
<1>4. ASSUME mailbox' = Append(mailbox, [reply |-> act[p].reply, state |-> "draft"]),
             NEW what \in {"sending", "failing"}, NEW i \in {0, Len(mailbox) + 1},
             what = "sending" => i # 0,
             act' = [act EXCEPT ![p] = [act[p] EXCEPT !.doing = what, !.draft = i]]
      PROVE  Reply!ReplyInv'
  <2> DEFINE new == [act[p] EXCEPT !.doing = what, !.draft = i]
             m == [reply |-> act[p].reply, state |-> "draft"]
  <2>1. m \in Reply!Mail /\ m.reply = act[p].reply
    BY <1>2 DEF Reply!Mail, Reply!Act
  <2> HIDE DEF m
  <2>2. /\ mailbox' \in Seq(Reply!Mail) /\ DOMAIN mailbox \subseteq DOMAIN mailbox'
        /\ \A j \in DOMAIN mailbox : mailbox'[j] = mailbox[j]
        /\ Len(mailbox) + 1 \in DOMAIN mailbox' /\ mailbox'[Len(mailbox) + 1] = m
        /\ Len(mailbox) + 1 \in Nat
    BY <1>2, <1>4, <2>1, Drafted DEF m
  <2>3. i \in Nat
    BY <2>2
  <2>4. new \in Reply!Act /\ new.doing = what /\ new.reply = act[p].reply /\ new.draft = i
    BY <1>2, <2>3 DEF Reply!Act
  <2>5. act' = [act EXCEPT ![p] = new]
    BY <1>4
  <2> HIDE DEF new
  <2>6. i # 0 => i \in DOMAIN mailbox' /\ mailbox'[i].reply = new.reply
    BY <2>1, <2>2, <2>4
  <2> QED
    BY <1>1, <1>2, <1>4, <2>2, <2>4, <2>5, <2>6, MailMoves
<1>5. CASE /\ mailbox' = Append(mailbox, [reply |-> act[p].reply, state |-> "draft"])
           /\ act' = [act EXCEPT ![p] = [act[p] EXCEPT
                        !.doing = IF faults' = faults THEN "sending" ELSE "failing",
                        !.draft = IF faults' = faults THEN Len(mailbox) + 1 ELSE 0]]
  <2>0. Len(mailbox) + 1 # 0
    BY <1>2
  <2>1. CASE faults' = faults
    BY <1>4, <1>5, <2>0, <2>1
  <2>2. CASE faults' # faults
    BY <1>4, <1>5, <2>2
  <2> QED
    BY <2>1, <2>2
<1> QED
  BY <1>3, <1>5 DEF Reply!Create

LEMMA PostKeeps == ASSUME Reply!ReplyInv, NEW p \in People, Reply!Post(p) PROVE Reply!ReplyInv'
<1>1. act[p].doing = "sending" /\ UNCHANGED <<row, crashes>> /\ act[p].doing # "nothing"
  BY DEF Reply!Post
<1>2. faults' \in Nat /\ crashes' \in Nat /\ mailbox \in Seq(Reply!Mail) /\ act[p] \in Reply!Act
  BY <1>1, CallsCount, AtWork DEF Reply!Post, Reply!ReplyInv, Reply!Fields
<1>3. act[p].draft \in DOMAIN mailbox /\ mailbox[act[p].draft].reply = act[p].reply
  BY <1>1 DEF Reply!ReplyInv, Reply!OwnDrafts, Reply!DraftOf, Reply!Busy
<1>4. PICK what \in {"recording", "failing"} :
        /\ Reply!Carry(p, what)
        /\ \/ /\ mailbox[act[p].draft].state = "draft"
              /\ mailbox' = [mailbox EXCEPT ![act[p].draft].state = "sent"]
           \/ mailbox' = mailbox /\ what = "failing"
  BY DEF Reply!Post
<1> DEFINE new == [act[p] EXCEPT !.doing = what]
<1>5. /\ new \in Reply!Act /\ new.doing = what /\ new.reply = act[p].reply
      /\ new.draft = act[p].draft
  BY <1>2 DEF Reply!Act
<1>6. act' = [act EXCEPT ![p] = new]
  BY <1>4 DEF Reply!Carry
<1> HIDE DEF new
<1>7. CASE mailbox' = mailbox /\ what = "failing"
  BY <1>1, <1>2, <1>3, <1>5, <1>6, <1>7, MailMoves
<1>8. CASE /\ mailbox[act[p].draft].state = "draft"
           /\ mailbox' = [mailbox EXCEPT ![act[p].draft].state = "sent"]
  <2>1. /\ mailbox' \in Seq(Reply!Mail) /\ DOMAIN mailbox' = DOMAIN mailbox
        /\ \A j \in DOMAIN mailbox :
                /\ mailbox'[j].reply = mailbox[j].reply
                /\ j # act[p].draft => mailbox'[j] = mailbox[j]
        /\ mailbox'[act[p].draft].state = "sent"
    BY <1>2, <1>3, <1>8, Restated
  <2>2. \A j \in DOMAIN mailbox : mailbox[j].state = "sent" => mailbox'[j] = mailbox[j]
    BY <1>8, <2>1
  <2>3. /\ \A j \in DOMAIN mailbox :
             mailbox'[j].reply = mailbox[j].reply /\ (mailbox[j].state = "sent" => mailbox'[j] = mailbox[j])
        /\ DOMAIN mailbox \subseteq DOMAIN mailbox'
    BY <2>1, <2>2
  <2>4. /\ new.draft \in DOMAIN mailbox' /\ mailbox'[new.draft].reply = new.reply
        /\ mailbox'[new.draft].state = "sent" /\ new.draft # 0
    BY <1>2, <1>3, <1>5, <2>1
  <2> QED
    BY <1>1, <1>2, <1>5, <1>6, <2>1, <2>3, <2>4, MailMoves
<1> QED
  BY <1>4, <1>7, <1>8

LEMMA DiscardKeeps == ASSUME Reply!ReplyInv, NEW p \in People, Reply!Discard(p) PROVE Reply!ReplyInv'
<1>1. act[p].doing = "discarding" /\ UNCHANGED <<row, crashes>> /\ act[p].doing # "nothing"
  BY DEF Reply!Discard
<1>2. faults' \in Nat /\ crashes' \in Nat /\ mailbox \in Seq(Reply!Mail) /\ act[p] \in Reply!Act
  BY <1>1, CallsCount, AtWork DEF Reply!Discard, Reply!ReplyInv, Reply!Fields
<1>3. act[p].draft \in DOMAIN mailbox /\ mailbox[act[p].draft].reply = act[p].reply
  BY <1>1 DEF Reply!ReplyInv, Reply!OwnDrafts, Reply!DraftOf, Reply!Busy
<1> DEFINE new == [act[p] EXCEPT !.doing = "withdrawing"]
<1>5. /\ new \in Reply!Act /\ new.doing = "withdrawing" /\ new.reply = act[p].reply
      /\ new.draft = act[p].draft
  BY <1>2 DEF Reply!Act
<1>6. act' = [act EXCEPT ![p] = new]
  BY DEF Reply!Discard, Reply!Carry
<1> HIDE DEF new
<1>7. CASE mailbox' = mailbox
  BY <1>1, <1>2, <1>3, <1>5, <1>6, <1>7, MailMoves
<1>8. CASE /\ mailbox[act[p].draft].state = "draft"
           /\ mailbox' = [mailbox EXCEPT ![act[p].draft].state = "deleted"]
  <2>1. /\ mailbox' \in Seq(Reply!Mail) /\ DOMAIN mailbox' = DOMAIN mailbox
        /\ \A j \in DOMAIN mailbox :
                /\ mailbox'[j].reply = mailbox[j].reply
                /\ j # act[p].draft => mailbox'[j] = mailbox[j]
    BY <1>2, <1>3, <1>8, Restated
  <2>2. \A j \in DOMAIN mailbox : mailbox[j].state = "sent" => mailbox'[j] = mailbox[j]
    BY <1>8, <2>1
  <2> QED
    BY <1>1, <1>2, <1>3, <1>5, <1>6, <2>1, <2>2, MailMoves
<1> QED
  BY <1>7, <1>8 DEF Reply!Discard

\* A request ends with a row that names a draft of its reply, and says "sent" of
\* a reply only that was.
LEMMA ClosingKeeps ==
    ASSUME Reply!ReplyInv, NEW p \in People, act' = [act EXCEPT ![p] = Reply!NoAct],
           mailbox' = mailbox, faults' \in Nat, crashes' \in Nat,
           row' \in [Replies -> [status : Reply!Statuses, draft : Nat]],
           \A r \in Replies : Reply!DraftOf(r, row'[r].draft),
           \A r \in Replies : row'[r].status = "sent" => Reply!SentDrafts(r) # {}
    PROVE  Reply!ReplyInv'
<1>1. /\ act' \in [People -> Reply!Act \cup {Reply!NoAct}] /\ act'[p] = Reply!NoAct
      /\ \A q \in People : q # p => act'[q] = act[q]
  BY OneActs DEF Reply!ReplyInv
<1>2. \A q \in People : act'[q].doing # "nothing" => act'[q] = act[q]
  BY <1>1 DEF Reply!NoAct
<1>3. \A q \in People : act'[q].doing # "nothing" =>
        /\ Reply!DraftOf(act'[q].reply, act'[q].draft)
        /\ act'[q].doing \in {"sending", "recording", "discarding"} => act'[q].draft # 0
        /\ act'[q].doing = "recording" => mailbox[act'[q].draft].state = "sent"
  BY <1>2 DEF Reply!ReplyInv, Reply!OwnDrafts, Reply!RecordedWasSent, Reply!Busy
<1> QED
  BY <1>1, <1>3, RowsMove

\* One row changes.
LEMMA OneRow ==
    ASSUME Reply!ReplyInv, NEW r \in Replies, NEW status \in Reply!Statuses, NEW i \in Nat,
           Reply!DraftOf(r, i), status = "sent" => Reply!SentDrafts(r) # {},
           row' = [row EXCEPT ![r] = [status |-> status, draft |-> i]]
    PROVE  /\ row' \in [Replies -> [status : Reply!Statuses, draft : Nat]]
           /\ \A s \in Replies : Reply!DraftOf(s, row'[s].draft)
           /\ \A s \in Replies : row'[s].status = "sent" => Reply!SentDrafts(s) # {}
<1>1. row \in [Replies -> [status : Reply!Statuses, draft : Nat]]
  BY DEF Reply!ReplyInv, Reply!Fields
<1>2. row'[r].status = status /\ row'[r].draft = i /\ \A s \in Replies : s # r => row'[s] = row[s]
  BY <1>1
<1>3. row' \in [Replies -> [status : Reply!Statuses, draft : Nat]]
  BY <1>1
<1> QED
  BY <1>2, <1>3 DEF Reply!ReplyInv, Reply!OwnDrafts, Reply!SaidSentWasAccepted

LEMMA RecordSentKeeps == ASSUME Reply!ReplyInv, NEW p \in People, Reply!RecordSent(p) PROVE Reply!ReplyInv'
<1> DEFINE r == act[p].reply
           i == IF act[p].draft = act[p].seen.draft THEN row[r].draft ELSE act[p].draft
<1>1. /\ act[p].doing = "recording" /\ act[p].doing # "nothing"
      /\ row' = [row EXCEPT ![r] = [status |-> "sent", draft |-> i]]
      /\ act' = [act EXCEPT ![p] = Reply!NoAct] /\ UNCHANGED <<mailbox, faults, crashes>>
  BY DEF Reply!RecordSent, Reply!Close
<1>2. act[p] \in Reply!Act /\ faults \in Nat /\ crashes \in Nat /\ mailbox \in Seq(Reply!Mail)
  BY <1>1, AtWork DEF Reply!ReplyInv, Reply!Fields
<1>3. r \in Replies /\ act[p].draft \in Nat /\ row[r].draft \in Nat
  BY <1>2 DEF Reply!Act, Reply!ReplyInv, Reply!Fields
<1>4. /\ Reply!DraftOf(r, row[r].draft) /\ Reply!DraftOf(r, act[p].draft) /\ act[p].draft # 0
      /\ mailbox[act[p].draft].state = "sent"
  BY <1>1, <1>3 DEF Reply!ReplyInv, Reply!OwnDrafts, Reply!Busy, Reply!RecordedWasSent
<1>5. act[p].draft \in DOMAIN mailbox /\ mailbox[act[p].draft] = [reply |-> r, state |-> "sent"]
  <2>1. act[p].draft \in DOMAIN mailbox /\ mailbox[act[p].draft].reply = r
    BY <1>4 DEF Reply!DraftOf
  <2>2. mailbox[act[p].draft] \in Reply!Mail
    BY <1>2, <2>1
  <2> QED
    BY <1>4, <2>1, <2>2 DEF Reply!Mail
<1>6. Reply!SentDrafts(r) # {}
  BY <1>5 DEF Reply!SentDrafts
<1>7. i \in Nat /\ Reply!DraftOf(r, i)
  BY <1>3, <1>4
<1> HIDE DEF r, i
<1>8. "sent" \in Reply!Statuses
  BY DEF Reply!Statuses
<1>9. /\ row' \in [Replies -> [status : Reply!Statuses, draft : Nat]]
      /\ \A s \in Replies : Reply!DraftOf(s, row'[s].draft)
      /\ \A s \in Replies : row'[s].status = "sent" => Reply!SentDrafts(s) # {}
  BY <1>1, <1>3, <1>6, <1>7, <1>8, OneRow
<1> QED
  BY <1>1, <1>2, <1>9, ClosingKeeps

LEMMA RecordFailureKeeps ==
    ASSUME Reply!ReplyInv, NEW p \in People, Reply!RecordFailure(p) PROVE Reply!ReplyInv'
<1>1. /\ act[p].doing = "failing" /\ act[p].doing # "nothing"
      /\ row' = [row EXCEPT ![act[p].reply] = [status |-> "failed", draft |-> act[p].draft]]
      /\ act' = [act EXCEPT ![p] = Reply!NoAct] /\ UNCHANGED <<mailbox, faults, crashes>>
  BY DEF Reply!RecordFailure, Reply!Close
<1>2. /\ act[p].reply \in Replies /\ act[p].draft \in Nat /\ faults \in Nat /\ crashes \in Nat
      /\ Reply!DraftOf(act[p].reply, act[p].draft)
  BY <1>1, AtWork DEF Reply!ReplyInv, Reply!Fields, Reply!Act, Reply!OwnDrafts, Reply!Busy
<1>3. "failed" \in Reply!Statuses
  BY DEF Reply!Statuses
<1>4. /\ row' \in [Replies -> [status : Reply!Statuses, draft : Nat]]
      /\ \A s \in Replies : Reply!DraftOf(s, row'[s].draft)
      /\ \A s \in Replies : row'[s].status = "sent" => Reply!SentDrafts(s) # {}
  BY <1>1, <1>2, <1>3, OneRow
<1> QED
  BY <1>1, <1>2, <1>4, ClosingKeeps

LEMMA WithdrawReplyKeeps ==
    ASSUME Reply!ReplyInv, NEW p \in People, Reply!Withdraw(p) PROVE Reply!ReplyInv'
<1> DEFINE r == act[p].reply
<1>1. /\ act[p].doing # "nothing" /\ act' = [act EXCEPT ![p] = Reply!NoAct]
      /\ UNCHANGED <<mailbox, faults, crashes>>
      /\ row' = row \/ row' = [row EXCEPT ![r].status = "withdrawn"]
  BY DEF Reply!Withdraw, Reply!Close
<1>2. r \in Replies /\ faults \in Nat /\ crashes \in Nat
  BY <1>1, AtWork DEF Reply!ReplyInv, Reply!Fields, Reply!Act
<1>3. /\ row \in [Replies -> [status : Reply!Statuses, draft : Nat]]
      /\ \A s \in Replies : Reply!DraftOf(s, row[s].draft)
      /\ \A s \in Replies : row[s].status = "sent" => Reply!SentDrafts(s) # {}
  BY DEF Reply!ReplyInv, Reply!Fields, Reply!OwnDrafts, Reply!SaidSentWasAccepted
<1> HIDE DEF r
<1>4. CASE row' = row
  BY <1>1, <1>2, <1>3, <1>4, ClosingKeeps
<1>5. CASE row' = [row EXCEPT ![r].status = "withdrawn"]
  <2>1. /\ row' \in [Replies -> [status : Reply!Statuses, draft : Nat]]
        /\ \A s \in Replies : /\ row'[s].draft = row[s].draft
                              /\ row'[s].status = "sent" => row[s].status = "sent"
    BY <1>2, <1>3, <1>5 DEF Reply!Statuses
  <2> QED
    BY <1>1, <1>2, <1>3, <2>1, ClosingKeeps
<1> QED
  BY <1>1, <1>4, <1>5

LEMMA CrashKeeps == ASSUME Reply!ReplyInv, NEW p \in People, Reply!Crash(p) PROVE Reply!ReplyInv'
<1>1. act' = [act EXCEPT ![p] = Reply!NoAct] /\ UNCHANGED <<row, mailbox, faults>> /\ crashes' = crashes + 1
  BY DEF Reply!Crash, Reply!Close
<1>2. /\ row \in [Replies -> [status : Reply!Statuses, draft : Nat]] /\ faults \in Nat
      /\ crashes' \in Nat
      /\ \A s \in Replies : Reply!DraftOf(s, row[s].draft)
      /\ \A s \in Replies : row[s].status = "sent" => Reply!SentDrafts(s) # {}
  BY <1>1 DEF Reply!ReplyInv, Reply!Fields, Reply!OwnDrafts, Reply!SaidSentWasAccepted
<1> QED
  BY <1>1, <1>2, ClosingKeeps

LEMMA ReplyStutters == ASSUME Reply!ReplyInv, UNCHANGED Reply!rvars PROVE Reply!ReplyInv'
<1>1. UNCHANGED <<row, mailbox, act, faults, crashes>>
  BY DEF Reply!rvars
<1> QED
  BY <1>1 DEF Reply!ReplyInv, Reply!Fields, Reply!OwnDrafts, Reply!RecordedWasSent,
              Reply!SaidSentWasAccepted, Reply!SentDrafts, Reply!DraftOf, Reply!Busy

LEMMA ReplySteps == ASSUME Reply!ReplyInv, [Reply!Next]_(Reply!rvars) PROVE Reply!ReplyInv'
<1>1. CASE \E r \in Replies : Reply!Compose(r)
  BY <1>1, ComposeKeeps
<1>2. CASE \E p \in People, r \in Replies : Reply!OpenSend(p, r) \/ Reply!OpenWithdraw(p, r)
  BY <1>2, OpenKeeps
<1>3. ASSUME NEW p \in People,
             \/ Reply!Create(p) \/ Reply!Post(p) \/ Reply!RecordSent(p) \/ Reply!RecordFailure(p)
             \/ Reply!Discard(p) \/ Reply!Withdraw(p) \/ Reply!Crash(p)
      PROVE  Reply!ReplyInv'
  BY <1>3, CreateDraftKeeps, PostKeeps, RecordSentKeeps, RecordFailureKeeps, DiscardKeeps,
     WithdrawReplyKeeps, CrashKeeps
<1>4. CASE UNCHANGED Reply!rvars
  BY <1>4, ReplyStutters
<1> QED
  BY <1>1, <1>2, <1>3, <1>4 DEF Reply!Next

\* The invariant of the replies, for any number of people at them.
THEOREM ReplyIsInvariant == Reply!Spec => []Reply!ReplyInv
<1>1. Reply!Init => Reply!ReplyInv
  BY ReplyInitKeeps
<1>2. Reply!ReplyInv /\ [Reply!Next]_(Reply!rvars) => Reply!ReplyInv'
  BY ReplySteps
<1> QED
  BY <1>1, <1>2, PTL DEF Reply!Spec

\* A reply and a request have their types, and whoever sends or discards holds a
\* draft of that reply.
THEOREM ReplyTypes == Reply!Spec => []Reply!TypeOK
<1>1. Reply!ReplyInv => Reply!TypeOK
  <2>1. SUFFICES ASSUME Reply!ReplyInv PROVE Reply!TypeOK
    OBVIOUS
  <2>2. mailbox \in Seq(Reply!Mail) /\ row \in [Replies -> [status : Reply!Statuses, draft : Nat]]
    BY <2>1 DEF Reply!ReplyInv, Reply!Fields
  <2>3. DOMAIN mailbox = 1..Len(mailbox) /\ Len(mailbox) \in Nat
    BY <2>2
  <2>4. ASSUME NEW r \in Replies PROVE row[r].status \in Reply!Statuses /\ row[r].draft \in 0..Len(mailbox)
    <3>1. Reply!DraftOf(r, row[r].draft)
      BY <2>1 DEF Reply!ReplyInv, Reply!OwnDrafts
    <3>2. row[r].draft = 0 \/ row[r].draft \in 1..Len(mailbox)
      BY <2>3, <3>1 DEF Reply!DraftOf
    <3> QED
      BY <2>2, <2>3, <3>2
  <2>5. ASSUME NEW p \in People, act[p].doing \in {"sending", "recording", "discarding"}
        PROVE  act[p].draft \in DOMAIN mailbox /\ mailbox[act[p].draft].reply = act[p].reply
    BY <2>1, <2>5 DEF Reply!ReplyInv, Reply!OwnDrafts, Reply!Busy, Reply!DraftOf
  <2> QED
    BY <2>4, <2>5 DEF Reply!TypeOK
<1> QED
  BY <1>1, ReplyIsInvariant, PTL

\* email_reply_service.py: a row never says "sent" of a reply the provider did
\* not accept, however many people are at it, and whatever is lost or stopped.
THEOREM SaidSentIsSent == Reply!Spec => []Reply!SaidSentWasAccepted
<1>1. Reply!ReplyInv => Reply!SaidSentWasAccepted
  BY DEF Reply!ReplyInv
<1> QED
  BY <1>1, ReplyIsInvariant, PTL

-----------------------------------------------------------------------------
(* Replies, one person at a time. *)

\* What is sent of a reply, and what each call changes of that.
LEMMA SentSame ==
    ASSUME mailbox \in Seq(Reply!Mail),
           \/ mailbox' = mailbox
           \/ \E m \in Reply!Mail : m.state = "draft" /\ mailbox' = Append(mailbox, m)
           \/ \E i \in DOMAIN mailbox :
                /\ mailbox[i].state = "draft"
                /\ mailbox' = [mailbox EXCEPT ![i].state = "deleted"]
    PROVE  \A r : Reply!SentDrafts(r)' = Reply!SentDrafts(r)
<1>1. CASE mailbox' = mailbox
  BY <1>1 DEF Reply!SentDrafts
<1>2. ASSUME NEW m \in Reply!Mail, m.state = "draft", mailbox' = Append(mailbox, m)
      PROVE  \A r : Reply!SentDrafts(r)' = Reply!SentDrafts(r)
  <2>1. /\ DOMAIN mailbox' = DOMAIN mailbox \cup {Len(mailbox) + 1}
        /\ \A i \in DOMAIN mailbox : mailbox'[i] = mailbox[i]
        /\ mailbox'[Len(mailbox) + 1] = m
    BY <1>2, Drafted
  <2>2. \A r : m # [reply |-> r, state |-> "sent"]
    BY <1>2
  <2> QED
    BY <2>1, <2>2 DEF Reply!SentDrafts
<1>3. ASSUME NEW i \in DOMAIN mailbox, mailbox[i].state = "draft",
             mailbox' = [mailbox EXCEPT ![i].state = "deleted"]
      PROVE  \A r : Reply!SentDrafts(r)' = Reply!SentDrafts(r)
  <2>1. /\ DOMAIN mailbox' = DOMAIN mailbox /\ mailbox'[i].state = "deleted"
        /\ \A j \in DOMAIN mailbox : j # i => mailbox'[j] = mailbox[j]
    BY <1>3, Restated
  <2>2. \A r : mailbox'[i] # [reply |-> r, state |-> "sent"] /\ mailbox[i] # [reply |-> r, state |-> "sent"]
    BY <1>3, <2>1
  <2> QED
    BY <2>1, <2>2 DEF Reply!SentDrafts
<1> QED
  BY <1>1, <1>2, <1>3

LEMMA SentGrows ==
    ASSUME mailbox \in Seq(Reply!Mail), NEW i \in DOMAIN mailbox,
           mailbox' = [mailbox EXCEPT ![i].state = "sent"]
    PROVE  \A r : Reply!SentDrafts(r)' =
                     Reply!SentDrafts(r) \cup (IF r = mailbox[i].reply THEN {i} ELSE {})
<1>1. /\ mailbox' \in Seq(Reply!Mail) /\ DOMAIN mailbox' = DOMAIN mailbox
      /\ mailbox'[i].reply = mailbox[i].reply /\ mailbox'[i].state = "sent"
      /\ \A j \in DOMAIN mailbox : j # i => mailbox'[j] = mailbox[j]
  BY Restated
<1>2. mailbox[i] \in Reply!Mail /\ mailbox'[i] \in Reply!Mail
  BY <1>1
<1>3. \A r : mailbox'[i] = [reply |-> r, state |-> "sent"] <=> r = mailbox[i].reply
  BY <1>1, <1>2 DEF Reply!Mail
<1>4. \A r : mailbox[i] = [reply |-> r, state |-> "sent"] => r = mailbox[i].reply
  BY <1>2
<1>5. ASSUME NEW r, NEW j
      PROVE  j \in Reply!SentDrafts(r)'
                 <=> j \in Reply!SentDrafts(r) \cup (IF r = mailbox[i].reply THEN {i} ELSE {})
  <2>1. CASE j = i
    BY <1>1, <1>3, <1>4, <2>1 DEF Reply!SentDrafts
  <2>2. CASE j # i
    BY <1>1, <2>2 DEF Reply!SentDrafts
  <2> QED
    BY <2>1, <2>2
<1> QED
  BY <1>5


LEMMA LoneEnds ==
    ASSUME Reply!ReplyInv, \A p, q \in People : p = q, NEW p \in People,
           act' = [act EXCEPT ![p] = Reply!NoAct]
    PROVE  \A q \in People : act'[q] = Reply!NoAct /\ act'[q].doing = "nothing"
BY OneActs DEF Reply!NoAct, Reply!ReplyInv

LEMMA LoneReads ==
    ASSUME Reply!ReplyInv, \A p, q \in People : p = q, Reply!ReadStands,
           [Reply!Next]_(Reply!rvars)
    PROVE  Reply!ReadStands'
<1> DEFINE Stands(q) == Reply!Busy(q) =>
        /\ act[q].seen = row[act[q].reply] /\ act[q].seen.status # "none"
        /\ act[q].seen.draft # 0 => act[q].draft = act[q].seen.draft
        /\ act[q].doing = "drafting" => act[q].seen.draft = 0
<1>a. Reply!ReadStands' <=> \A q \in People : Stands(q)'
  BY DEF Reply!ReadStands
<1>b. \A q \in People : Stands(q)
  BY DEF Reply!ReadStands
<1>c. /\ row \in [Replies -> [status : Reply!Statuses, draft : Nat]]
      /\ act \in [People -> Reply!Act \cup {Reply!NoAct}]
  BY DEF Reply!ReplyInv, Reply!Fields
<1>1. ASSUME NEW r \in Replies, Reply!Compose(r) PROVE Reply!ReadStands'
  <2>1. act' = act /\ row[r].status = "none" /\ \A s \in Replies : s # r => row'[s] = row[s]
    BY <1>1, <1>c DEF Reply!Compose
  <2>2. ASSUME NEW q \in People, Reply!Busy(q)' PROVE Stands(q)'
    <3>1. Stands(q) /\ Reply!Busy(q) /\ act[q].reply \in Replies
      BY <1>b, <2>1, <2>2, <1>c, AtWork DEF Reply!Busy, Reply!Act, Reply!ReplyInv
    <3>2. row'[act[q].reply] = row[act[q].reply]
      BY <2>1, <3>1
    <3> QED
      BY <2>1, <3>1, <3>2 DEF Reply!Busy
  <2> QED
    BY <1>a, <2>2
<1>2. ASSUME NEW p \in People, act' = [act EXCEPT ![p] = Reply!NoAct] PROVE Reply!ReadStands'
  <2>1. \A q \in People : act'[q].doing = "nothing"
    BY <1>2, LoneEnds
  <2>2. \A q \in People : Stands(q)'
    BY <2>1 DEF Reply!Busy
  <2> QED
    BY <1>a, <2>2
<1>3. ASSUME NEW p \in People, NEW r \in Replies, Reply!OpenSend(p, r) \/ Reply!OpenWithdraw(p, r)
      PROVE  Reply!ReadStands'
  <2>1. /\ row' = row /\ row[r].status # "none"
        /\ \E what \in {"drafting", "sending", "withdrawing", "discarding"} :
            /\ act' = [act EXCEPT ![p] =
                        [doing |-> what, reply |-> r, seen |-> row[r], draft |-> row[r].draft]]
            /\ what = "drafting" => row[r].draft = 0
    BY <1>3 DEF Reply!OpenSend, Reply!OpenWithdraw
  <2>2. PICK what \in {"drafting", "sending", "withdrawing", "discarding"} :
            /\ act' = [act EXCEPT ![p] =
                        [doing |-> what, reply |-> r, seen |-> row[r], draft |-> row[r].draft]]
            /\ what = "drafting" => row[r].draft = 0
    BY <2>1
  <2>3. act'[p] = [doing |-> what, reply |-> r, seen |-> row[r], draft |-> row[r].draft]
    BY <2>2, <1>c
  <2>4. Stands(p)'
    BY <2>1, <2>2, <2>3
  <2> QED
    BY <1>a, <2>4
<1>4. ASSUME NEW p \in People, act[p].doing # "nothing", row' = row, act'[p].seen = act[p].seen,
             act'[p].reply = act[p].reply, act'[p].doing # "drafting",
             act'[p].draft = act[p].draft \/ act[p].seen.draft = 0
      PROVE  Reply!ReadStands'
  <2>1. Stands(p) /\ Reply!Busy(p)
    BY <1>4, <1>b DEF Reply!Busy
  <2>2. Stands(p)'
    BY <1>4, <2>1
  <2> QED
    BY <1>a, <2>2
<1>5. ASSUME NEW p \in People, act[p].doing # "nothing", row' = row,
             NEW what \in {"sending", "recording", "failing", "withdrawing"}, Reply!Carry(p, what)
      PROVE  Reply!ReadStands'
  <2> DEFINE new == [act[p] EXCEPT !.doing = what]
  <2>1. act[p] \in Reply!Act
    BY <1>5, AtWork DEF Reply!ReplyInv
  <2>2. new.doing = what /\ new.reply = act[p].reply /\ new.seen = act[p].seen /\ new.draft = act[p].draft
    BY <2>1 DEF Reply!Act
  <2>3. act'[p] = new
    BY <1>5, <1>c DEF Reply!Carry
  <2> HIDE DEF new
  <2> QED
    BY <1>4, <1>5, <2>2, <2>3
<1>6. ASSUME NEW p \in People, Reply!Create(p) PROVE Reply!ReadStands'
  <2>1. act[p].doing = "drafting" /\ row' = row /\ act[p].doing # "nothing" /\ act[p].seen.draft = 0
    BY <1>6, <1>b DEF Reply!Create, Reply!Busy
  <2>2. CASE Reply!Carry(p, "failing")
    BY <1>5, <2>1, <2>2
  <2>3. CASE act' = [act EXCEPT ![p] = [act[p] EXCEPT
                        !.doing = IF faults' = faults THEN "sending" ELSE "failing",
                        !.draft = IF faults' = faults THEN Len(mailbox) + 1 ELSE 0]]
    <3> DEFINE what == IF faults' = faults THEN "sending" ELSE "failing"
               i == IF faults' = faults THEN Len(mailbox) + 1 ELSE 0
               new == [act[p] EXCEPT !.doing = what, !.draft = i]
    <3>1. act[p] \in Reply!Act
      BY <2>1, AtWork DEF Reply!ReplyInv
    <3>2. new.doing = what /\ new.reply = act[p].reply /\ new.seen = act[p].seen
      BY <3>1 DEF Reply!Act
    <3>3. act'[p] = new
      BY <2>3, <1>c
    <3>4. what # "drafting"
      OBVIOUS
    <3> HIDE DEF new, what, i
    <3> QED
      BY <1>4, <2>1, <3>2, <3>3, <3>4
  <2> QED
    BY <1>6, <2>2, <2>3 DEF Reply!Create
<1>7. ASSUME NEW p \in People, Reply!Post(p) PROVE Reply!ReadStands'
  <2>1. act[p].doing # "nothing" /\ row' = row /\ (Reply!Carry(p, "recording") \/ Reply!Carry(p, "failing"))
    BY <1>7 DEF Reply!Post
  <2> QED
    BY <1>5, <2>1
<1>8. ASSUME NEW p \in People, Reply!Discard(p) PROVE Reply!ReadStands'
  <2>1. act[p].doing # "nothing" /\ row' = row /\ Reply!Carry(p, "withdrawing")
    BY <1>8 DEF Reply!Discard
  <2> QED
    BY <1>5, <2>1
<1>9. ASSUME NEW p \in People,
             Reply!RecordSent(p) \/ Reply!RecordFailure(p) \/ Reply!Withdraw(p) \/ Reply!Crash(p)
      PROVE  Reply!ReadStands'
  BY <1>2, <1>9 DEF Reply!RecordSent, Reply!RecordFailure, Reply!Withdraw, Reply!Crash, Reply!Close
<1>10. CASE UNCHANGED Reply!rvars
  BY <1>10 DEF Reply!rvars, Reply!ReadStands, Reply!Busy
<1> QED
  BY <1>1, <1>3, <1>6, <1>7, <1>8, <1>9, <1>10 DEF Reply!Next

\* And as long as no process stops, the row of what is sent remembers the draft,
\* or the request at it does.
LEMMA LoneRemembers ==
    ASSUME Reply!ReplyInv, \A p, q \in People : p = q, MaxCrashes = 0,
           Reply!ReadStands, Reply!SentIsRemembered, [Reply!Next]_(Reply!rvars)
    PROVE  Reply!SentIsRemembered'
<1> DEFINE Kept(r, i) ==
        \/ row[r].draft = i
        \/ /\ row[r].draft = 0
           /\ \E p \in People : /\ act[p].doing \in {"recording", "failing"}
                               /\ act[p].reply = r /\ act[p].draft = i
<1>a. Reply!SentIsRemembered' <=> \A r \in Replies : \A i \in Reply!SentDrafts(r)' : Kept(r, i)'
  BY DEF Reply!SentIsRemembered
<1>b. \A r \in Replies : \A i \in Reply!SentDrafts(r) : Kept(r, i)
  BY DEF Reply!SentIsRemembered
<1>c. /\ row \in [Replies -> [status : Reply!Statuses, draft : Nat]]
      /\ act \in [People -> Reply!Act \cup {Reply!NoAct}] /\ mailbox \in Seq(Reply!Mail)
      /\ crashes \in Nat
  BY DEF Reply!ReplyInv, Reply!Fields
<1>1. ASSUME NEW p \in People, act[p].doing \notin {"recording", "failing"},
             \A r \in Replies : row'[r].draft = row[r].draft,
             \A r : Reply!SentDrafts(r)' = Reply!SentDrafts(r)
      PROVE  Reply!SentIsRemembered'
  <2>1. \A r \in Replies : \A i \in Reply!SentDrafts(r) : row[r].draft = i
    BY <1>1, <1>b
  <2> QED
    BY <1>1, <1>a, <2>1
<1>2. ASSUME mailbox' = mailbox PROVE \A r : Reply!SentDrafts(r)' = Reply!SentDrafts(r)
  BY <1>2, <1>c, SentSame
<1>3. ASSUME NEW r \in Replies, Reply!Compose(r) PROVE Reply!SentIsRemembered'
  <2>1. act' = act /\ mailbox' = mailbox /\ \A s \in Replies : row'[s].draft = row[s].draft
    BY <1>3, <1>c DEF Reply!Compose
  <2> QED
    BY <1>2, <1>a, <1>b, <2>1
<1>4. ASSUME NEW p \in People, NEW r \in Replies, Reply!OpenSend(p, r) \/ Reply!OpenWithdraw(p, r)
      PROVE  Reply!SentIsRemembered'
  <2>1. act[p].doing = "nothing" /\ row' = row /\ mailbox' = mailbox
    BY <1>4 DEF Reply!OpenSend, Reply!OpenWithdraw, Reply!NoAct
  <2> QED
    BY <1>1, <1>2, <2>1
<1>5. ASSUME NEW p \in People, Reply!Create(p) PROVE Reply!SentIsRemembered'
  <2>1. act[p].doing = "drafting" /\ row' = row
    BY <1>5 DEF Reply!Create
  <2>2. act[p].reply \in Replies
    BY <2>1, AtWork DEF Reply!ReplyInv, Reply!Act
  <2>3. mailbox' = mailbox \/ mailbox' = Append(mailbox, [reply |-> act[p].reply, state |-> "draft"])
    BY <1>5 DEF Reply!Create
  <2>4. [reply |-> act[p].reply, state |-> "draft"] \in Reply!Mail
    BY <2>2 DEF Reply!Mail
  <2>5. \A r : Reply!SentDrafts(r)' = Reply!SentDrafts(r)
    BY <1>c, <2>3, <2>4, SentSame
  <2> QED
    BY <1>1, <2>1, <2>5
<1>6. ASSUME NEW p \in People, Reply!Post(p) PROVE Reply!SentIsRemembered'
  <2> DEFINE r == act[p].reply
             i == act[p].draft
  <2>1. act[p].doing = "sending" /\ act[p].doing # "nothing" /\ row' = row
    BY <1>6 DEF Reply!Post
  <2>2. /\ r \in Replies /\ i \in DOMAIN mailbox /\ mailbox[i].reply = r
        /\ act[p].seen = row[r] /\ (row[r].draft # 0 => i = row[r].draft)
    BY <2>1, AtWork DEF Reply!ReplyInv, Reply!Act, Reply!OwnDrafts, Reply!DraftOf, Reply!Busy,
                         Reply!ReadStands
  <2>3. \A s \in Replies : \A j \in Reply!SentDrafts(s) : row[s].draft = j
    BY <1>b, <2>1
  <2>4. CASE mailbox' = mailbox
    BY <1>1, <1>2, <2>1, <2>4
  <2>5. CASE /\ mailbox' = [mailbox EXCEPT ![act[p].draft].state = "sent"]
             /\ Reply!Carry(p, "recording") \/ Reply!Carry(p, "failing")
    <3>1. PICK what \in {"recording", "failing"} : Reply!Carry(p, what)
      BY <2>5
    <3> DEFINE new == [act[p] EXCEPT !.doing = what]
    <3>2. act[p] \in Reply!Act
      BY <2>1, AtWork DEF Reply!ReplyInv
    <3>3. new.doing = what /\ new.reply = r /\ new.draft = i
      BY <3>2 DEF Reply!Act
    <3>4. act'[p] = new
      BY <3>1, <1>c DEF Reply!Carry
    <3>5. \A s : Reply!SentDrafts(s)' = Reply!SentDrafts(s) \cup (IF s = r THEN {i} ELSE {})
      BY <1>c, <2>2, <2>5, SentGrows
    <3> HIDE DEF new, r, i
    <3>6. ASSUME NEW s \in Replies, NEW j \in Reply!SentDrafts(s)' PROVE Kept(s, j)'
      <4>1. CASE j \in Reply!SentDrafts(s)
        BY <2>1, <2>3, <4>1
      <4>2. CASE s = r /\ j = i
        <5>1. act'[p].doing \in {"recording", "failing"} /\ act'[p].reply = s /\ act'[p].draft = j
          BY <3>1, <3>3, <3>4, <4>2
        <5>2. row[s].draft = 0 \/ row[s].draft = j
          BY <2>2, <4>2
        <5> QED
          BY <2>1, <5>1, <5>2
      <4> QED
        BY <3>5, <3>6, <4>1, <4>2
    <3> QED
      BY <1>a, <3>6
  <2> QED
    BY <1>6, <2>4, <2>5 DEF Reply!Post
<1>7. ASSUME NEW p \in People, Reply!Discard(p) PROVE Reply!SentIsRemembered'
  <2>1. act[p].doing = "discarding" /\ act[p].doing # "nothing" /\ row' = row
    BY <1>7 DEF Reply!Discard
  <2>2. act[p].draft \in DOMAIN mailbox
    BY <2>1 DEF Reply!ReplyInv, Reply!OwnDrafts, Reply!DraftOf, Reply!Busy
  <2>3. \/ mailbox' = mailbox
        \/ /\ mailbox[act[p].draft].state = "draft"
           /\ mailbox' = [mailbox EXCEPT ![act[p].draft].state = "deleted"]
    BY <1>7 DEF Reply!Discard
  <2>4. \A r : Reply!SentDrafts(r)' = Reply!SentDrafts(r)
    BY <1>c, <2>2, <2>3, SentSame
  <2> QED
    BY <1>1, <2>1, <2>4
\* The row takes the draft that the request has in hand.
<1>8. ASSUME NEW p \in People, act[p].doing \in {"recording", "failing"}, mailbox' = mailbox,
             row'[act[p].reply].draft = act[p].draft,
             \A s \in Replies : s # act[p].reply => row'[s] = row[s]
      PROVE  Reply!SentIsRemembered'
  <2>1. \A s \in Replies : \A j \in Reply!SentDrafts(s) : j # 0
    BY <1>c DEF Reply!SentDrafts
  <2>2. /\ act[p].seen = row[act[p].reply]
        /\ act[p].seen.draft # 0 => act[p].draft = act[p].seen.draft
    BY <1>8 DEF Reply!ReadStands, Reply!Busy
  <2>3. ASSUME NEW s \in Replies, NEW j \in Reply!SentDrafts(s) PROVE row'[s].draft = j
    <3>1. Kept(s, j)
      BY <1>b, <2>3
    <3>2. CASE s = act[p].reply
      <4>1. CASE row[s].draft = j
        BY <1>8, <2>1, <2>2, <3>2, <4>1
      <4>2. CASE row[s].draft # j
        BY <1>8, <3>1, <3>2, <4>2
      <4> QED
        BY <4>1, <4>2
    <3>3. CASE s # act[p].reply
      BY <1>8, <3>1, <3>3
    <3> QED
      BY <3>2, <3>3
  <2> QED
    BY <1>2, <1>8, <1>a, <2>3
<1>9. ASSUME NEW p \in People, Reply!RecordSent(p) PROVE Reply!SentIsRemembered'
  <2> DEFINE r == act[p].reply
             i == IF act[p].draft = act[p].seen.draft THEN row[r].draft ELSE act[p].draft
  <2>1. /\ act[p].doing = "recording" /\ act[p].doing # "nothing" /\ mailbox' = mailbox
        /\ row' = [row EXCEPT ![r] = [status |-> "sent", draft |-> i]]
    BY <1>9 DEF Reply!RecordSent
  <2>2. r \in Replies /\ act[p].seen = row[r]
    BY <2>1, AtWork DEF Reply!ReplyInv, Reply!Act, Reply!ReadStands, Reply!Busy
  <2>3. i = act[p].draft
    BY <2>2
  <2>4. row'[r].draft = i /\ \A s \in Replies : s # r => row'[s] = row[s]
    BY <1>c, <2>1, <2>2
  <2> HIDE DEF i
  <2> QED
    BY <1>8, <2>1, <2>3, <2>4
<1>10. ASSUME NEW p \in People, Reply!RecordFailure(p) PROVE Reply!SentIsRemembered'
  <2>1. /\ act[p].doing = "failing" /\ act[p].doing # "nothing" /\ mailbox' = mailbox
        /\ row' = [row EXCEPT ![act[p].reply] = [status |-> "failed", draft |-> act[p].draft]]
    BY <1>10 DEF Reply!RecordFailure
  <2>2. act[p].reply \in Replies
    BY <2>1, AtWork DEF Reply!ReplyInv, Reply!Act
  <2>3. row'[act[p].reply].draft = act[p].draft /\ \A s \in Replies : s # act[p].reply => row'[s] = row[s]
    BY <1>c, <2>1, <2>2
  <2> QED
    BY <1>8, <2>1, <2>3
<1>11. ASSUME NEW p \in People, Reply!Withdraw(p) PROVE Reply!SentIsRemembered'
  <2>1. /\ act[p].doing = "withdrawing" /\ mailbox' = mailbox
        /\ row' = row \/ row' = [row EXCEPT ![act[p].reply].status = "withdrawn"]
    BY <1>11 DEF Reply!Withdraw
  <2>2. \A r \in Replies : row'[r].draft = row[r].draft
    <3>1. CASE row' = row
      BY <3>1
    <3>2. CASE row' = [row EXCEPT ![act[p].reply].status = "withdrawn"]
      BY <1>c, <3>2
    <3> QED
      BY <2>1, <3>1, <3>2
  <2>3. \A r : Reply!SentDrafts(r)' = Reply!SentDrafts(r)
    BY <1>2, <2>1
  <2>4. act[p].doing \notin {"recording", "failing"}
    BY <2>1
  <2> QED
    BY <1>1, <2>2, <2>3, <2>4
<1>12. ASSUME NEW p \in People, Reply!Crash(p) PROVE FALSE
  <2>1. crashes < MaxCrashes /\ crashes \in Nat
    BY <1>12, <1>c DEF Reply!Crash
  <2> QED
    BY ONLY <2>1, MaxCrashes = 0
<1>13. CASE UNCHANGED Reply!rvars
  BY <1>13, <1>2, <1>a, <1>b DEF Reply!rvars
<1> QED
  BY <1>3, <1>4, <1>5, <1>6, <1>7, <1>9, <1>10, <1>11, <1>12, <1>13 DEF Reply!Next

\* One person at a time, whose process does not stop: a counterparty is sent one
\* message for one reply, also when the answer to a send was lost and the send
\* is tried again (email_reply_service.py, the draft a failed send keeps).
THEOREM OneMessageIsSent ==
    (\A p, q \in People : p = q) /\ MaxCrashes = 0 => (Reply!Spec => []Reply!OneMessageLeaves)
<1> SUFFICES ASSUME \A p, q \in People : p = q, MaxCrashes = 0
             PROVE  Reply!Spec => []Reply!OneMessageLeaves
  OBVIOUS
<1>1. Reply!Init => Reply!ReadStands /\ Reply!SentIsRemembered
  <2>1. SUFFICES ASSUME Reply!Init PROVE Reply!ReadStands /\ Reply!SentIsRemembered
    OBVIOUS
  <2>2. mailbox = <<>> /\ \A p \in People : act[p].doing = "nothing"
    BY <2>1 DEF Reply!Init, Reply!NoAct
  <2> QED
    BY <2>2 DEF Reply!ReadStands, Reply!SentIsRemembered, Reply!SentDrafts, Reply!Busy
<1>2. Reply!ReplyInv /\ Reply!ReadStands /\ [Reply!Next]_(Reply!rvars) => Reply!ReadStands'
  BY LoneReads
<1>3. Reply!ReplyInv /\ Reply!ReadStands /\ Reply!SentIsRemembered /\ [Reply!Next]_(Reply!rvars)
        => Reply!SentIsRemembered'
  BY LoneRemembers
<1>4. Reply!ReplyInv /\ Reply!ReadStands /\ Reply!SentIsRemembered => Reply!OneMessageLeaves
  <2>1. SUFFICES ASSUME Reply!ReplyInv, Reply!SentIsRemembered,
                        NEW r \in Replies, NEW i \in Reply!SentDrafts(r), NEW j \in Reply!SentDrafts(r)
                 PROVE  i = j
    BY DEF Reply!OneMessageLeaves
  <2>2. mailbox \in Seq(Reply!Mail)
    BY <2>1 DEF Reply!ReplyInv, Reply!Fields
  <2>3. i # 0 /\ j # 0
    BY <2>2 DEF Reply!SentDrafts
  <2> QED
    BY <2>1, <2>3 DEF Reply!SentIsRemembered
<1> QED
  BY <1>1, <1>2, <1>3, <1>4, ReplyIsInvariant, PTL DEF Reply!Spec

\* Nor is any answer lost: what was sent of a reply says so, or the one request
\* that sent it is about to.
LEMMA LoneSays ==
    ASSUME Reply!ReplyInv, \A p, q \in People : p = q, MaxCrashes = 0, MayBeLost = FALSE,
           Reply!ReadStands, Reply!SentIsSaid, [Reply!Next]_(Reply!rvars)
    PROVE  Reply!SentIsSaid'
<1> DEFINE Read(q) ==
        /\ act[q].doing \in {"drafting", "sending", "recording", "failing"} =>
               act[q].seen.status \in {"draft", "failed"}
        /\ act[q].doing \in {"discarding", "withdrawing"} => act[q].seen.status # "sent"
      Said(r) == row[r].status = "sent"
                   \/ \E p \in People : act[p].doing = "recording" /\ act[p].reply = r
<1>a. Reply!SentIsSaid' <=>
        (\A q \in People : Read(q)') /\ \A r \in Replies : Reply!SentDrafts(r)' # {} => Said(r)'
  BY DEF Reply!SentIsSaid
<1>b. (\A q \in People : Read(q)) /\ \A r \in Replies : Reply!SentDrafts(r) # {} => Said(r)
  BY DEF Reply!SentIsSaid
<1>c. /\ row \in [Replies -> [status : Reply!Statuses, draft : Nat]]
      /\ act \in [People -> Reply!Act \cup {Reply!NoAct}] /\ mailbox \in Seq(Reply!Mail)
      /\ crashes \in Nat
  BY DEF Reply!ReplyInv, Reply!Fields
<1>d. ASSUME mailbox' = mailbox PROVE \A r : Reply!SentDrafts(r)' = Reply!SentDrafts(r)
  BY <1>d, <1>c, SentSame
\* Whoever does not record leaves the row as it is, and nothing more is sent.
<1>1. ASSUME NEW p \in People, act[p].doing # "recording", row' = row, Read(p)',
             \A r : Reply!SentDrafts(r)' = Reply!SentDrafts(r)
      PROVE  Reply!SentIsSaid'
  <2>1. \A q \in People : Read(q)'
    BY <1>1
  <2>2. ASSUME NEW r \in Replies, Reply!SentDrafts(r)' # {} PROVE Said(r)'
    <3>1. Said(r)
      BY <1>1, <1>b, <2>2
    <3>2. row[r].status = "sent"
      BY <1>1, <3>1
    <3> QED
      BY <1>1, <3>2
  <2> QED
    BY <1>a, <2>1, <2>2
<1>2. ASSUME NEW p \in People, act[p].doing # "nothing", row' = row,
             NEW what \in {"sending", "recording", "failing", "withdrawing"}, Reply!Carry(p, what)
      PROVE  /\ act'[p].doing = what /\ act'[p].seen = act[p].seen /\ act'[p].reply = act[p].reply
             /\ act[p].reply \in Replies
  <2>1. act[p] \in Reply!Act
    BY <1>2, AtWork DEF Reply!ReplyInv
  <2>2. act'[p] = [act[p] EXCEPT !.doing = what]
    BY <1>2, <1>c DEF Reply!Carry
  <2> QED
    BY <2>1, <2>2 DEF Reply!Act
<1>3. ASSUME NEW r \in Replies, Reply!Compose(r) PROVE Reply!SentIsSaid'
  <2>1. /\ act' = act /\ mailbox' = mailbox
        /\ row[r].status = "none" /\ \A s \in Replies : s # r => row'[s] = row[s]
    BY <1>3, <1>c DEF Reply!Compose
  <2>2. \A q \in People : Read(q)'
    BY <1>b, <2>1
  <2>3. ASSUME NEW s \in Replies, Reply!SentDrafts(s)' # {} PROVE Said(s)'
    <3>1. Said(s)
      BY <1>d, <1>b, <2>1, <2>3
    <3>2. CASE row[s].status = "sent"
      BY <2>1, <3>2
    <3>3. CASE \E p \in People : act[p].doing = "recording" /\ act[p].reply = s
      BY <2>1, <3>3
    <3> QED
      BY <3>1, <3>2, <3>3
  <2> QED
    BY <1>a, <2>2, <2>3
<1>4. ASSUME NEW p \in People, NEW r \in Replies, Reply!OpenSend(p, r) \/ Reply!OpenWithdraw(p, r)
      PROVE  Reply!SentIsSaid'
  <2>1. /\ act[p].doing = "nothing" /\ row' = row /\ mailbox' = mailbox
        /\ \E what \in {"drafting", "sending", "withdrawing", "discarding"} :
            /\ act' = [act EXCEPT ![p] =
                        [doing |-> what, reply |-> r, seen |-> row[r], draft |-> row[r].draft]]
            /\ what \in {"drafting", "sending"} => row[r].status \in {"draft", "failed"}
            /\ what \in {"withdrawing", "discarding"} => row[r].status # "sent"
    BY <1>4 DEF Reply!OpenSend, Reply!OpenWithdraw, Reply!NoAct
  <2>2. PICK what \in {"drafting", "sending", "withdrawing", "discarding"} :
            /\ act' = [act EXCEPT ![p] =
                        [doing |-> what, reply |-> r, seen |-> row[r], draft |-> row[r].draft]]
            /\ what \in {"drafting", "sending"} => row[r].status \in {"draft", "failed"}
            /\ what \in {"withdrawing", "discarding"} => row[r].status # "sent"
    BY <2>1
  <2>3. act'[p] = [doing |-> what, reply |-> r, seen |-> row[r], draft |-> row[r].draft]
    BY <2>2, <1>c
  <2>4. act'[p].doing = what /\ act'[p].seen.status = row[r].status
    BY <2>3
  <2>5. Read(p)'
    BY <2>2, <2>4
  <2> QED
    BY <1>1, <1>d, <2>1, <2>5
<1>5. ASSUME NEW p \in People, Reply!Create(p) PROVE Reply!SentIsSaid'
  <2>1. act[p].doing = "drafting" /\ row' = row /\ act[p].doing # "nothing"
        /\ act[p].seen.status \in {"draft", "failed"}
    BY <1>5, <1>b DEF Reply!Create
  <2>2. act[p] \in Reply!Act /\ act[p].reply \in Replies
    BY <2>1, AtWork DEF Reply!ReplyInv, Reply!Act
  <2>3. act'[p].doing \in {"sending", "failing"} /\ act'[p].seen = act[p].seen
    <3>1. CASE Reply!Carry(p, "failing")
      BY <1>2, <2>1, <3>1
    <3>2. CASE act' = [act EXCEPT ![p] = [act[p] EXCEPT
                        !.doing = IF faults' = faults THEN "sending" ELSE "failing",
                        !.draft = IF faults' = faults THEN Len(mailbox) + 1 ELSE 0]]
      BY <1>c, <2>2, <3>2 DEF Reply!Act
    <3> QED
      BY <1>5, <3>1, <3>2 DEF Reply!Create
  <2>4. mailbox' = mailbox \/ mailbox' = Append(mailbox, [reply |-> act[p].reply, state |-> "draft"])
    BY <1>5 DEF Reply!Create
  <2>5. [reply |-> act[p].reply, state |-> "draft"] \in Reply!Mail
    BY <2>2 DEF Reply!Mail
  <2>6. \A r : Reply!SentDrafts(r)' = Reply!SentDrafts(r)
    BY <1>c, <2>4, <2>5, SentSame
  <2>7. Read(p)'
    BY <2>1, <2>3
  <2> QED
    BY <1>1, <2>1, <2>6, <2>7
<1>6. ASSUME NEW p \in People, Reply!Post(p) PROVE Reply!SentIsSaid'
  <2>1. /\ act[p].doing = "sending" /\ act[p].doing # "nothing" /\ act[p].doing # "recording"
        /\ row' = row /\ act[p].seen.status \in {"draft", "failed"}
    BY <1>6, <1>b DEF Reply!Post
  <2>2. act[p].draft \in DOMAIN mailbox /\ mailbox[act[p].draft].reply = act[p].reply
    BY <2>1 DEF Reply!ReplyInv, Reply!OwnDrafts, Reply!DraftOf, Reply!Busy
  <2>3. CASE mailbox' = mailbox /\ Reply!Carry(p, "failing")
    <3>1. Read(p)'
      BY <1>2, <2>1, <2>3
    <3> QED
      BY <1>1, <1>d, <2>1, <2>3, <3>1
  <2>4. CASE /\ mailbox' = [mailbox EXCEPT ![act[p].draft].state = "sent"]
             /\ Reply!Carry(p, "recording")
    <3>1. /\ act'[p].doing = "recording" /\ act'[p].seen = act[p].seen
          /\ act'[p].reply = act[p].reply
      BY <1>2, <2>1, <2>4
    <3>2. \A s : Reply!SentDrafts(s)' =
                   Reply!SentDrafts(s) \cup (IF s = act[p].reply THEN {act[p].draft} ELSE {})
      BY <1>c, <2>2, <2>4, SentGrows
    <3>3. ASSUME NEW s \in Replies, Reply!SentDrafts(s)' # {} PROVE Said(s)'
      <4>1. CASE s = act[p].reply
        BY <3>1, <4>1
      <4>2. CASE s # act[p].reply
        <5>1. Said(s)
          BY <1>b, <3>2, <3>3, <4>2
        <5>2. row[s].status = "sent"
          BY <2>1, <5>1
        <5> QED
          BY <2>1, <5>2
      <4> QED
        BY <4>1, <4>2
    <3>4. Read(p)'
      BY <2>1, <3>1
    <3>5. \A q \in People : Read(q)'
      BY <3>4
    <3> QED
      BY <1>a, <3>3, <3>5
  <2> QED
    BY <1>6, <2>3, <2>4 DEF Reply!Post, Reply!Lost
<1>7. ASSUME NEW p \in People, Reply!Discard(p) PROVE Reply!SentIsSaid'
  <2>1. /\ act[p].doing = "discarding" /\ act[p].doing # "nothing" /\ act[p].doing # "recording"
        /\ row' = row /\ act[p].seen.status # "sent" /\ Reply!Carry(p, "withdrawing")
    BY <1>7, <1>b DEF Reply!Discard
  <2>2. act[p].draft \in DOMAIN mailbox
    BY <2>1 DEF Reply!ReplyInv, Reply!OwnDrafts, Reply!DraftOf, Reply!Busy
  <2>3. \/ mailbox' = mailbox
        \/ /\ mailbox[act[p].draft].state = "draft"
           /\ mailbox' = [mailbox EXCEPT ![act[p].draft].state = "deleted"]
    BY <1>7 DEF Reply!Discard
  <2>4. \A r : Reply!SentDrafts(r)' = Reply!SentDrafts(r)
    BY <1>c, <2>2, <2>3, SentSame
  <2>5. Read(p)'
    BY <1>2, <2>1
  <2> QED
    BY <1>1, <2>1, <2>4, <2>5
\* A request that has sent nothing of its reply: it read what the row still
\* says, and the row does not say "sent".
<1>8. ASSUME NEW p \in People, act[p].doing \notin {"nothing", "recording"},
             act[p].seen.status # "sent", mailbox' = mailbox,
             act' = [act EXCEPT ![p] = Reply!NoAct],
             \A s \in Replies : s # act[p].reply => row'[s] = row[s]
      PROVE  Reply!SentIsSaid'
  <2>1. act[p].seen = row[act[p].reply]
    BY <1>8 DEF Reply!ReadStands, Reply!Busy
  <2>2. \A q \in People : act'[q].doing = "nothing"
    BY <1>8, LoneEnds
  <2>3. ASSUME NEW s \in Replies, Reply!SentDrafts(s)' # {} PROVE Said(s)'
    <3>1. Said(s)
      BY <1>8, <1>d, <1>b, <2>3
    <3>2. row[s].status = "sent"
      BY <1>8, <3>1
    <3>3. s # act[p].reply
      BY <1>8, <2>1, <3>2
    <3> QED
      BY <1>8, <3>2, <3>3
  <2>4. \A q \in People : Read(q)'
    BY <2>2
  <2> QED
    BY <1>a, <2>3, <2>4
<1>9. ASSUME NEW p \in People, Reply!RecordSent(p) PROVE Reply!SentIsSaid'
  <2> DEFINE r == act[p].reply
             i == IF act[p].draft = act[p].seen.draft THEN row[r].draft ELSE act[p].draft
  <2>1. /\ act[p].doing = "recording" /\ act[p].doing # "nothing" /\ mailbox' = mailbox
        /\ row' = [row EXCEPT ![r] = [status |-> "sent", draft |-> i]]
        /\ act' = [act EXCEPT ![p] = Reply!NoAct]
    BY <1>9 DEF Reply!RecordSent, Reply!Close
  <2>2. r \in Replies
    BY <2>1, AtWork DEF Reply!ReplyInv, Reply!Act
  <2> HIDE DEF i
  <2>3. row'[r].status = "sent" /\ \A s \in Replies : s # r => row'[s] = row[s]
    BY <1>c, <2>1, <2>2
  <2>4. \A q \in People : act'[q].doing = "nothing"
    BY <2>1, LoneEnds
  <2>5. ASSUME NEW s \in Replies, Reply!SentDrafts(s)' # {} PROVE Said(s)'
    <3>1. CASE s = r
      BY <2>3, <3>1
    <3>2. CASE s # r
      <4>1. Said(s)
        BY <1>d, <1>b, <2>1, <2>5
      <4>2. row[s].status = "sent"
        BY <2>1, <3>2, <4>1
      <4> QED
        BY <2>3, <3>2, <4>2
    <3> QED
      BY <3>1, <3>2
  <2>6. \A q \in People : Read(q)'
    BY <2>4
  <2> QED
    BY <1>a, <2>5, <2>6
<1>10. ASSUME NEW p \in People, Reply!RecordFailure(p) PROVE Reply!SentIsSaid'
  <2>1. /\ act[p].doing = "failing" /\ mailbox' = mailbox /\ act[p].seen.status # "sent"
        /\ act' = [act EXCEPT ![p] = Reply!NoAct]
        /\ row' = [row EXCEPT ![act[p].reply] = [status |-> "failed", draft |-> act[p].draft]]
    BY <1>10, <1>b DEF Reply!RecordFailure, Reply!Close
  <2>2. \A s \in Replies : s # act[p].reply => row'[s] = row[s]
    BY <1>c, <2>1
  <2> QED
    BY <1>8, <2>1, <2>2
<1>11. ASSUME NEW p \in People, Reply!Withdraw(p) PROVE Reply!SentIsSaid'
  <2>1. /\ act[p].doing = "withdrawing" /\ mailbox' = mailbox /\ act[p].seen.status # "sent"
        /\ act' = [act EXCEPT ![p] = Reply!NoAct]
        /\ row' = row \/ row' = [row EXCEPT ![act[p].reply].status = "withdrawn"]
    BY <1>11, <1>b DEF Reply!Withdraw, Reply!Close
  <2>2. \A s \in Replies : s # act[p].reply => row'[s] = row[s]
    BY <1>c, <2>1
  <2> QED
    BY <1>8, <2>1, <2>2
<1>12. ASSUME NEW p \in People, Reply!Crash(p) PROVE FALSE
  <2>1. crashes < MaxCrashes /\ crashes \in Nat
    BY <1>12, <1>c DEF Reply!Crash
  <2> QED
    BY ONLY <2>1, MaxCrashes = 0
<1>13. CASE UNCHANGED Reply!rvars
  BY <1>13, <1>d, <1>a, <1>b DEF Reply!rvars
<1> QED
  BY <1>3, <1>4, <1>5, <1>6, <1>7, <1>9, <1>10, <1>11, <1>12, <1>13 DEF Reply!Next

\* One person at a time, whose process does not stop, and no answer lost: what a
\* reply that says "withdrawn" stands for has not left (requests.py,
\* "Withdrawn. Nothing was sent.").
THEOREM WithdrawnHasNotLeft ==
    (\A p, q \in People : p = q) /\ MaxCrashes = 0 /\ MayBeLost = FALSE
        => (Reply!Spec => []Reply!WithdrawnWasNotSent)
<1> SUFFICES ASSUME \A p, q \in People : p = q, MaxCrashes = 0, MayBeLost = FALSE
             PROVE  Reply!Spec => []Reply!WithdrawnWasNotSent
  OBVIOUS
<1>1. Reply!Init => Reply!ReadStands /\ Reply!SentIsSaid
  <2>1. SUFFICES ASSUME Reply!Init PROVE Reply!ReadStands /\ Reply!SentIsSaid
    OBVIOUS
  <2>2. mailbox = <<>> /\ \A p \in People : act[p].doing = "nothing"
    BY <2>1 DEF Reply!Init, Reply!NoAct
  <2> QED
    BY <2>2 DEF Reply!ReadStands, Reply!SentIsSaid, Reply!SentDrafts, Reply!Busy
<1>2. Reply!ReplyInv /\ Reply!ReadStands /\ [Reply!Next]_(Reply!rvars) => Reply!ReadStands'
  BY LoneReads
<1>3. Reply!ReplyInv /\ Reply!ReadStands /\ Reply!SentIsSaid /\ [Reply!Next]_(Reply!rvars)
        => Reply!SentIsSaid'
  BY LoneSays
<1>4. Reply!ReadStands /\ Reply!SentIsSaid => Reply!WithdrawnWasNotSent
  <2>1. SUFFICES ASSUME Reply!ReadStands, Reply!SentIsSaid, NEW r \in Replies,
                        row[r].status = "withdrawn", Reply!SentDrafts(r) # {}
                 PROVE  FALSE
    BY DEF Reply!WithdrawnWasNotSent
  <2>2. PICK p \in People : act[p].doing = "recording" /\ act[p].reply = r
    BY <2>1 DEF Reply!SentIsSaid
  <2>3. act[p].seen = row[r] /\ act[p].seen.status \in {"draft", "failed"}
    BY <2>1, <2>2 DEF Reply!ReadStands, Reply!SentIsSaid, Reply!Busy
  <2> QED
    BY <2>1, <2>3
<1> QED
  BY <1>1, <1>2, <1>3, <1>4, ReplyIsInvariant, PTL DEF Reply!Spec

\* All of it, for any number of people and replies, whether answers are lost and
\* processes stop or not: each promise under the condition it is made for.
THEOREM RepliesStayHonest == Reply!Spec => []Reply!RepliesAreHonest
<1> DEFINE alone == (\A p, q \in People : p = q) /\ MaxCrashes = 0
<1>1. alone => (Reply!Spec => []Reply!OneMessageLeaves)
  BY OneMessageIsSent
<1>2. alone /\ ~MayBeLost => (Reply!Spec => []Reply!WithdrawnWasNotSent)
  BY WithdrawnHasNotLeft
<1>3. CASE ~alone
  <2>1. Reply!SaidSentWasAccepted => Reply!RepliesAreHonest
    BY <1>3 DEF Reply!RepliesAreHonest
  <2> QED
    BY <2>1, SaidSentIsSent, PTL
<1>4. CASE alone /\ MayBeLost
  <2>1. Reply!SaidSentWasAccepted /\ Reply!OneMessageLeaves => Reply!RepliesAreHonest
    BY <1>4 DEF Reply!RepliesAreHonest
  <2> QED
    BY <1>1, <1>4, <2>1, SaidSentIsSent, PTL
<1>5. CASE alone /\ ~MayBeLost
  <2>1. Reply!SaidSentWasAccepted /\ Reply!OneMessageLeaves /\ Reply!WithdrawnWasNotSent
          => Reply!RepliesAreHonest
    BY DEF Reply!RepliesAreHonest
  <2> QED
    BY <1>1, <1>2, <1>5, <2>1, SaidSentIsSent, PTL
<1> QED
  BY <1>3, <1>4, <1>5

-----------------------------------------------------------------------------
(* The subscription on the mailbox. *)

LEMMA WatchInitKeeps == ASSUME Watch!WatchBounds, Watch!Init PROVE Watch!WatchInv
<1>1. /\ Ttl \in Nat /\ Margin \in 0..Ttl /\ MaxFaults \in Nat /\ live = [i \in Ids |-> 0]
      /\ held = Watch!NoHandle /\ due = TRUE /\ ever = FALSE /\ lapses = 0 /\ drops = 0
  BY DEF Watch!WatchBounds, Watch!Init
<1>2. live \in [Ids -> 0..Ttl] /\ lapses \in 0..MaxFaults /\ drops \in Nat
  BY <1>1
<1>3. {due, ever} \subseteq BOOLEAN
  BY <1>1, Zenon
<1>4. ~held.known
  BY <1>1 DEF Watch!NoHandle
<1>5. Watch!HeldIsLive /\ Watch!FaultsCostTurns
  BY <1>1, <1>4 DEF Watch!HeldIsLive, Watch!FaultsCostTurns
<1> QED
  BY <1>1, <1>2, <1>3, <1>4, <1>5 DEF Watch!WatchInv, Watch!TypeOK

\* The parts the proofs of the steps speak of.
LEMMA WatchParts ==
    ASSUME Watch!WatchBounds, Watch!WatchInv
    PROVE  /\ Ttl \in Nat /\ Margin \in 0..Ttl /\ MaxFaults \in Nat
           /\ live \in [Ids -> 0..Ttl] /\ due \in BOOLEAN /\ ever \in BOOLEAN
           /\ lapses \in 0..MaxFaults /\ drops \in Nat
           /\ held \in [known : {TRUE}, id : Ids, left : Nat] \cup {Watch!NoHandle}
           /\ held.known => /\ held.id \in Ids /\ held.left \in 0..Ttl /\ live[held.id] <= held.left
                            /\ held \in [known : {TRUE}, id : Ids, left : Nat]
<1>1. due \in BOOLEAN /\ ever \in BOOLEAN
  BY Zenon DEF Watch!WatchInv, Watch!TypeOK
<1>2. held.known => held # Watch!NoHandle
  BY DEF Watch!NoHandle
<1> QED
  BY <1>1, <1>2 DEF Watch!WatchBounds, Watch!WatchInv, Watch!TypeOK

\* The keeper makes or renews a subscription: it has its whole life before it.
LEMMA HoldKeeps ==
    ASSUME Watch!WatchBounds, MaxFaults < Margin, Margin < Ttl, Watch!WatchInv,
           NEW i \in Ids, Watch!Hold(i), due' = FALSE, UNCHANGED drops
    PROVE  Watch!WatchInv'
<1>1. /\ Ttl \in Nat /\ Margin \in 0..Ttl /\ lapses \in 0..MaxFaults /\ drops \in Nat /\ MaxFaults \in Nat
      /\ live \in [Ids -> 0..Ttl]
  BY WatchParts
<1>2. /\ live' = [live EXCEPT ![i] = Ttl] /\ held' = [known |-> TRUE, id |-> i, left |-> Ttl]
      /\ ever' = TRUE /\ lapses' = lapses
  BY DEF Watch!Hold
<1>3. live' \in [Ids -> 0..Ttl] /\ live'[i] = Ttl
  BY <1>1, <1>2
<1>4. held' \in [known : {TRUE}, id : Ids, left : Nat] /\ held'.id = i /\ held'.left = Ttl
  BY <1>1, <1>2
<1>5. Watch!HeldIsLive'
  BY <1>1, <1>3, <1>4 DEF Watch!HeldIsLive, Watch!Enough
<1>6. Watch!FaultsCostTurns'
  BY <1>1, <1>2, <1>3 DEF Watch!FaultsCostTurns, Watch!Enough
<1>7. {due', ever'} \subseteq BOOLEAN
  BY <1>2, Zenon
<1> QED
  BY <1>1, <1>2, <1>3, <1>4, <1>5, <1>6, <1>7 DEF Watch!WatchInv, Watch!TypeOK

\* The keeper knows of none any more, after a fault that has cost no more than
\* the turn before.
LEMMA ForgetKeeps ==
    ASSUME Watch!WatchBounds, Watch!WatchInv, held' = Watch!NoHandle,
           live' \in [Ids -> 0..Ttl], due' \in BOOLEAN, ever' = ever, drops' \in Nat,
           lapses' \in 0..MaxFaults, Watch!FaultsCostTurns'
    PROVE  Watch!WatchInv'
BY WatchParts DEF Watch!WatchInv, Watch!TypeOK, Watch!HeldIsLive, Watch!NoHandle

\* A fault that takes no life from a subscription is paid for already.
LEMMA FaultIsPaid ==
    ASSUME Watch!WatchBounds, Watch!WatchInv, lapses' = lapses + 1, lapses < MaxFaults,
           live' \in [Ids -> 0..Ttl], \A i \in Ids : live[i] <= live'[i],
           ever' = ever, drops' = drops
    PROVE  Watch!FaultsCostTurns' /\ lapses' \in 0..MaxFaults
<1>1. /\ Ttl \in Nat /\ Margin \in 0..Ttl /\ MaxFaults \in Nat /\ lapses \in 0..MaxFaults
      /\ live \in [Ids -> 0..Ttl]
  BY WatchParts
<1>2. SUFFICES ASSUME drops = 0, ever PROVE \E i \in Ids : Watch!Enough(live[i] + lapses)'
  BY <1>1 DEF Watch!FaultsCostTurns
<1>3. PICK i \in Ids : Watch!Enough(live[i] + lapses)
  BY <1>2 DEF Watch!WatchInv, Watch!FaultsCostTurns
<1>4. live[i] \in Nat /\ live'[i] \in Nat /\ live[i] <= live'[i] /\ lapses \in Nat
  BY <1>1
<1>5. live[i] + lapses >= Margin
  BY <1>1, <1>3, <1>4 DEF Watch!Enough
<1>6. live'[i] + lapses' > Margin
  BY ONLY <1>1, <1>4, <1>5, lapses' = lapses + 1
<1> QED
  BY <1>1, <1>4, <1>6 DEF Watch!Enough

LEMMA RenewKeeps ==
    ASSUME Watch!WatchBounds, MaxFaults < Margin, Margin < Ttl, Watch!WatchInv,
           due, Watch!Renew, due' = FALSE, UNCHANGED drops
    PROVE  Watch!WatchInv'
<1>1. /\ Ttl \in Nat /\ Margin \in 0..Ttl /\ MaxFaults \in Nat /\ lapses \in 0..MaxFaults
      /\ drops \in Nat /\ live \in [Ids -> 0..Ttl]
      /\ held.id \in Ids /\ held.left \in 0..Ttl /\ held.known
  BY WatchParts DEF Watch!Renew
<1>2. CASE Watch!Hold(held.id)
  BY <1>1, <1>2, HoldKeeps
<1>3. CASE live[held.id] = 0 /\ Watch!Forget /\ UNCHANGED <<live, lapses>>
  <2>1. drops # 0
    <3>1. drops = 0 => live[held.id] = held.left /\ held.left >= Margin
      BY <1>1 DEF Watch!WatchInv, Watch!HeldIsLive, Watch!Enough
    <3> QED
      BY <1>1, <1>3, <3>1
  <2>2. Watch!FaultsCostTurns'
    BY <2>1 DEF Watch!FaultsCostTurns
  <2> QED
    BY <1>1, <1>3, <2>2, ForgetKeeps DEF Watch!Forget, Watch!WatchInv
<1>4. CASE /\ Watch!Slip /\ Watch!Forget
           /\ \/ UNCHANGED live
              \/ live[held.id] > 0 /\ live' = [live EXCEPT ![held.id] = Ttl]
  <2>1. live' \in [Ids -> 0..Ttl] /\ \A i \in Ids : live[i] <= live'[i]
    <3>1. \A i \in Ids : live[i] \in 0..Ttl
      BY <1>1
    <3>2. CASE UNCHANGED live
      BY <1>1, <3>1, <3>2
    <3>3. CASE live' = [live EXCEPT ![held.id] = Ttl]
      BY <1>1, <3>1, <3>3
    <3> QED
      BY <1>4, <3>2, <3>3
  <2>2. Watch!FaultsCostTurns' /\ lapses' \in 0..MaxFaults
    BY <1>4, <2>1, FaultIsPaid DEF Watch!Slip, Watch!Forget
  <2> QED
    BY <1>1, <1>4, <2>1, <2>2, ForgetKeeps DEF Watch!Forget
<1> QED
  BY <1>2, <1>3, <1>4 DEF Watch!Renew

LEMMA CreateKeeps ==
    ASSUME Watch!WatchBounds, MaxFaults < Margin, Margin < Ttl, Watch!WatchInv,
           due, Watch!Create, due' = FALSE, UNCHANGED drops
    PROVE  Watch!WatchInv'
<1>1. /\ Ttl \in Nat /\ Margin \in 0..Ttl /\ MaxFaults \in Nat /\ lapses \in 0..MaxFaults
      /\ drops \in Nat /\ live \in [Ids -> 0..Ttl] /\ held = Watch!NoHandle
  BY WatchParts DEF Watch!Create
<1>2. PICK i \in Ids :
        \/ Watch!Hold(i)
        \/ /\ Watch!Slip /\ UNCHANGED <<held, ever>>
           /\ UNCHANGED live \/ live' = [live EXCEPT ![i] = Ttl]
  BY DEF Watch!Create
<1>3. CASE Watch!Hold(i)
  BY <1>3, HoldKeeps
<1>4. CASE /\ Watch!Slip /\ UNCHANGED <<held, ever>>
           /\ UNCHANGED live \/ live' = [live EXCEPT ![i] = Ttl]
  <2>1. live' \in [Ids -> 0..Ttl] /\ \A j \in Ids : live[j] <= live'[j]
    <3>1. \A j \in Ids : live[j] \in 0..Ttl
      BY <1>1
    <3>2. CASE UNCHANGED live
      BY <1>1, <3>1, <3>2
    <3>3. CASE live' = [live EXCEPT ![i] = Ttl]
      BY <1>1, <3>1, <3>3
    <3> QED
      BY <1>4, <3>2, <3>3
  <2>2. Watch!FaultsCostTurns' /\ lapses' \in 0..MaxFaults
    BY <1>4, <2>1, FaultIsPaid DEF Watch!Slip
  <2> QED
    BY <1>1, <1>4, <2>1, <2>2, ForgetKeeps
<1> QED
  BY <1>2, <1>3, <1>4

LEMMA KeepKeeps ==
    ASSUME Watch!WatchBounds, Watch!WatchInv, due, Watch!KeepAsItIs, due' = FALSE, UNCHANGED drops
    PROVE  Watch!WatchInv'
<1>1. /\ Ttl \in Nat /\ Margin \in 0..Ttl /\ MaxFaults \in Nat /\ lapses \in 0..MaxFaults
      /\ drops \in Nat /\ live \in [Ids -> 0..Ttl]
      /\ held.id \in Ids /\ held.left \in 0..Ttl /\ held.known /\ held.left > Margin
      /\ UNCHANGED <<live, held, ever, lapses>>
  BY WatchParts DEF Watch!KeepAsItIs
<1>2. drops = 0 => live[held.id] = held.left
  BY <1>1 DEF Watch!WatchInv, Watch!HeldIsLive
<1>3. Watch!HeldIsLive'
  BY <1>1, <1>2 DEF Watch!HeldIsLive, Watch!Enough
<1>4. Watch!FaultsCostTurns'
  <2>1. drops = 0 => live[held.id] + lapses > Margin
    BY ONLY <1>1, <1>2
  <2> QED
    BY <1>1, <2>1 DEF Watch!FaultsCostTurns, Watch!Enough
<1> QED
  BY <1>1, <1>3, <1>4 DEF Watch!WatchInv, Watch!TypeOK

\* A turn takes one from what is left, of the subscription and of what the
\* keeper believes.
LEMMA WatchTickKeeps ==
    ASSUME Watch!WatchBounds, Watch!WatchInv, Watch!Tick PROVE Watch!WatchInv'
<1>1. /\ Ttl \in Nat /\ Margin \in 0..Ttl /\ MaxFaults \in Nat /\ lapses \in 0..MaxFaults
      /\ drops \in Nat /\ live \in [Ids -> 0..Ttl] /\ ever \in BOOLEAN
      /\ held.known => /\ held.id \in Ids /\ held.left \in 0..Ttl /\ live[held.id] <= held.left
                       /\ held \in [known : {TRUE}, id : Ids, left : Nat]
  BY WatchParts
<1>2. /\ ~due /\ due' = TRUE /\ UNCHANGED <<ever, lapses, drops>>
      /\ live' = [i \in Ids |-> Watch!Less(live[i])]
      /\ held' = IF held.known THEN [held EXCEPT !.left = Watch!Less(held.left)] ELSE held
  BY DEF Watch!Tick
<1>3. \A n \in 0..Ttl : Watch!Less(n) \in 0..Ttl /\ (n > 0 => Watch!Less(n) = n - 1) /\ Watch!Less(n) <= n
  BY <1>1 DEF Watch!Less
<1>4. \A m, n \in 0..Ttl : m <= n => Watch!Less(m) <= Watch!Less(n)
  BY <1>1 DEF Watch!Less
<1>5. live' \in [Ids -> 0..Ttl] /\ \A i \in Ids : live'[i] = Watch!Less(live[i])
  BY <1>1, <1>2, <1>3
<1> DEFINE Believed ==
        /\ Watch!HeldIsLive
        /\ held \in [known : {TRUE}, id : Ids, left : Nat] \cup {Watch!NoHandle}
        /\ held.known => held.id \in Ids /\ held.left \in 0..Ttl /\ live[held.id] <= held.left
<1>6. ASSUME held.known PROVE Believed'
  <2>1. /\ held' \in [known : {TRUE}, id : Ids, left : Nat] /\ held'.known
        /\ held'.id = held.id /\ held'.left = Watch!Less(held.left) /\ held'.left \in 0..Ttl
    <3>1. held' = [held EXCEPT !.left = Watch!Less(held.left)]
      BY <1>2, <1>6
    <3>2. held \in [known : {TRUE}, id : Ids, left : Nat] /\ held.left \in 0..Ttl
      BY <1>1, <1>6
    <3>3. Watch!Less(held.left) \in 0..Ttl /\ Watch!Less(held.left) \in Nat
      BY <1>1, <1>3, <3>2
    <3> QED
      BY <3>1, <3>2, <3>3
  <2>2. live'[held.id] = Watch!Less(live[held.id]) /\ live[held.id] \in 0..Ttl
    BY <1>1, <1>5, <1>6
  <2>3. live'[held'.id] <= held'.left
    BY <1>1, <1>4, <1>6, <2>1, <2>2
  <2>4. ASSUME drops = 0 PROVE live'[held'.id] = held'.left /\ held'.left >= Margin
    <3>1. live[held.id] = held.left /\ held.left > Margin
      BY <1>2, <1>6, <2>4 DEF Watch!WatchInv, Watch!HeldIsLive, Watch!Enough
    <3>2. held'.left = held.left - 1
      BY <1>1, <1>3, <1>6, <2>1, <3>1
    <3> QED
      BY <1>1, <1>6, <2>1, <2>2, <3>1, <3>2
  <2> QED
    BY <1>1, <1>2, <2>1, <2>3, <2>4 DEF Watch!HeldIsLive, Watch!Enough
<1>7. ASSUME ~held.known PROVE Believed'
  <2>1. held' = Watch!NoHandle
    BY <1>2, <1>7, WatchParts
  <2> QED
    BY <2>1 DEF Watch!HeldIsLive, Watch!NoHandle
<1>8. Believed'
  BY <1>6, <1>7
<1>9. Watch!FaultsCostTurns'
  <2>1. SUFFICES ASSUME drops = 0, ever PROVE \E i \in Ids : live'[i] + lapses >= Margin
    BY <1>2 DEF Watch!FaultsCostTurns, Watch!Enough
  <2>2. PICK i \in Ids : live[i] + lapses > Margin
    BY <1>2, <2>1 DEF Watch!WatchInv, Watch!FaultsCostTurns, Watch!Enough
  <2>3. live[i] \in 0..Ttl
    BY <1>1
  <2>4. live'[i] \in Nat /\ live'[i] >= live[i] - 1
    BY <1>1, <1>5, <2>3 DEF Watch!Less
  <2>5. live'[i] + lapses >= Margin
    BY ONLY <1>1, <2>2, <2>3, <2>4
  <2> QED
    BY <2>5
<1>10. {due', ever'} \subseteq BOOLEAN /\ lapses' \in 0..MaxFaults /\ drops' \in Nat
  <2>1. lapses' \in 0..MaxFaults /\ drops' \in Nat
    BY <1>1, <1>2
  <2>2. due' \in BOOLEAN /\ ever' \in BOOLEAN
    BY <1>1, <1>2, Zenon
  <2> QED
    BY <2>1, <2>2
<1> QED
  BY <1>5, <1>8, <1>9, <1>10 DEF Watch!WatchInv, Watch!TypeOK

LEMMA RestartKeeps ==
    ASSUME Watch!WatchBounds, Watch!WatchInv, Watch!Restart PROVE Watch!WatchInv'
<1>1. /\ Ttl \in Nat /\ Margin \in 0..Ttl /\ MaxFaults \in Nat /\ lapses \in 0..MaxFaults
      /\ drops \in Nat /\ live \in [Ids -> 0..Ttl]
  BY WatchParts
<1>2. /\ lapses' = lapses + 1 /\ lapses < MaxFaults /\ due' = TRUE
      /\ UNCHANGED <<live, ever, drops>> /\ held' = Watch!NoHandle
  BY DEF Watch!Restart, Watch!Slip
<1>3. \A i \in Ids : live[i] <= live'[i]
  BY <1>1, <1>2
<1>4. Watch!FaultsCostTurns' /\ lapses' \in 0..MaxFaults
  BY <1>1, <1>2, <1>3, FaultIsPaid
<1> QED
  BY <1>1, <1>2, <1>4, ForgetKeeps

LEMMA DropKeeps ==
    ASSUME Watch!WatchBounds, Watch!WatchInv, NEW i \in Ids, Watch!Drop(i) PROVE Watch!WatchInv'
<1>1. /\ Ttl \in Nat /\ drops \in Nat /\ live \in [Ids -> 0..Ttl]
      /\ held.known => held.id \in Ids /\ held.left \in 0..Ttl /\ live[held.id] <= held.left
  BY WatchParts
<1>2. /\ live' = [live EXCEPT ![i] = 0] /\ drops' = drops + 1
      /\ UNCHANGED <<held, due, ever, lapses>>
  BY DEF Watch!Drop
<1>3. live' \in [Ids -> 0..Ttl] /\ drops' \in Nat /\ drops' # 0
  BY <1>1, <1>2
<1>4. held.known => live'[held.id] <= held.left
  BY <1>1, <1>2
<1>5. Watch!HeldIsLive' /\ Watch!FaultsCostTurns'
  BY <1>3 DEF Watch!HeldIsLive, Watch!FaultsCostTurns
<1> QED
  BY <1>2, <1>3, <1>4, <1>5 DEF Watch!WatchInv, Watch!TypeOK

LEMMA WatchStutters == ASSUME Watch!WatchInv, UNCHANGED Watch!wvars PROVE Watch!WatchInv'
BY DEF Watch!wvars, Watch!WatchInv, Watch!TypeOK, Watch!HeldIsLive, Watch!FaultsCostTurns, Watch!Enough

\* The invariant of the subscription, when the margin it is renewed before its end
\* has more turns than there are calls and processes that fail.
THEOREM WatchIsInvariant ==
    Watch!WatchBounds /\ MaxFaults < Margin /\ Margin < Ttl => (Watch!Spec => []Watch!WatchInv)
<1> SUFFICES ASSUME Watch!WatchBounds, MaxFaults < Margin, Margin < Ttl
             PROVE  Watch!Spec => []Watch!WatchInv
  OBVIOUS
<1>1. Watch!Init => Watch!WatchInv
  BY WatchInitKeeps
<1>2. Watch!WatchInv /\ [Watch!Next]_(Watch!wvars) => Watch!WatchInv'
  <2>1. SUFFICES ASSUME Watch!WatchInv, [Watch!Next]_(Watch!wvars) PROVE Watch!WatchInv'
    OBVIOUS
  <2>2. CASE Watch!Ensure
    <3>1. due /\ due' = FALSE /\ UNCHANGED drops
      BY <2>2 DEF Watch!Ensure
    <3> QED
      BY <2>1, <2>2, <3>1, KeepKeeps, RenewKeeps, CreateKeeps DEF Watch!Ensure
  <2>3. CASE Watch!Tick
    BY <2>1, <2>3, WatchTickKeeps
  <2>4. CASE Watch!Restart
    BY <2>1, <2>4, RestartKeeps
  <2>5. CASE \E i \in Ids : Watch!Drop(i)
    BY <2>1, <2>5, DropKeeps
  <2>6. CASE UNCHANGED Watch!wvars
    BY <2>1, <2>6, WatchStutters
  <2> QED
    BY <2>1, <2>2, <2>3, <2>4, <2>5, <2>6 DEF Watch!Next
<1> QED
  BY <1>1, <1>2, PTL DEF Watch!Spec

\* mailbox_worker.py: once there was a subscription there is one, through
\* renewals that fail and through restarts, unless the provider drops it.
THEOREM SubscriptionStays ==
    Watch!WatchBounds /\ MaxFaults < Margin /\ Margin < Ttl => (Watch!Spec => []Watch!StaysWatched)
<1> SUFFICES ASSUME Watch!WatchBounds, MaxFaults < Margin, Margin < Ttl
             PROVE  Watch!Spec => []Watch!StaysWatched
  OBVIOUS
<1>1. Watch!WatchInv => Watch!StaysWatched
  <2>1. SUFFICES ASSUME Watch!WatchInv, ever, drops = 0 PROVE Watch!Watched
    BY DEF Watch!StaysWatched
  <2>2. /\ Margin \in Nat /\ MaxFaults \in Nat /\ lapses \in 0..MaxFaults /\ live \in [Ids -> 0..Ttl]
        /\ Ttl \in Nat
    BY <2>1, WatchParts
  <2>3. PICK i \in Ids : Watch!Enough(live[i] + lapses)
    BY <2>1 DEF Watch!WatchInv, Watch!FaultsCostTurns
  <2>4. live[i] \in 0..Ttl
    BY <2>2
  <2>5. live[i] + lapses >= Margin
    BY <2>2, <2>3, <2>4 DEF Watch!Enough
  <2>6. live[i] > 0
    BY ONLY <2>2, <2>4, <2>5, MaxFaults < Margin
  <2> QED
    BY <2>6 DEF Watch!Watched
<1> QED
  BY <1>1, WatchIsInvariant, PTL

-----------------------------------------------------------------------------
(* The roles of an account. *)

LEMMA MirrorInitKeeps == ASSUME Mirror!MirrorBounds, Mirror!Init PROVE Mirror!MirrorInv
BY DEF Mirror!MirrorBounds, Mirror!Init, Mirror!MirrorInv, Mirror!Fields, Mirror!Granted,
       Mirror!ForeignStays, Mirror!MirrorWasGranted, Mirror!NoWork

\* What an administrator has in hand when its override goes on: the row of the
\* others stays.
LEMMA OverrideMoves ==
    ASSUME Mirror!Fields, Mirror!Granted, NEW a \in Admins, NEW new \in Mirror!OverrideRow \cup {Mirror!NoWork},
           new # Mirror!NoWork => row.there /\ new.held \subseteq ever',
           new.at \in {"removing", "mirroring"} => new.wanted \subseteq ever',
           ever \subseteq ever', work' = [work EXCEPT ![a] = new], row' = row
    PROVE  /\ work' \in [Admins -> Mirror!OverrideRow \cup {Mirror!NoWork}]
           /\ \A b \in Admins :
                /\ work'[b].at # "idle" => row'.there /\ work'[b].held \subseteq ever'
                /\ work'[b].at \in {"removing", "mirroring"} => work'[b].wanted \subseteq ever'
<1>1. new.at # "idle" => new # Mirror!NoWork
  BY DEF Mirror!NoWork
<1>2. work'[a] = new /\ \A b \in Admins : b # a => work'[b] = work[b]
  BY DEF Mirror!Fields
<1>3. work' \in [Admins -> Mirror!OverrideRow \cup {Mirror!NoWork}]
  BY DEF Mirror!Fields
<1> QED
  BY <1>1, <1>2, <1>3 DEF Mirror!Fields, Mirror!Granted

\* The rest of the invariant, when only the mapping and the overrides move.
LEMMA MappingMoves ==
    ASSUME Mirror!MirrorInv, NEW a \in Admins, NEW new \in Mirror!OverrideRow \cup {Mirror!NoWork},
           new # Mirror!NoWork => row.there /\ new.held \subseteq ever',
           new.at \in {"removing", "mirroring"} => new.wanted \subseteq ever',
           work' = [work EXCEPT ![a] = new],
           UNCHANGED <<token, row, request>>,
           realm' \subseteq Roles \cup Foreign, realm' \cap Foreign = realm \cap Foreign,
           realm' \subseteq ever', ever \subseteq ever'
    PROVE  Mirror!MirrorInv'
<1> USE DEF Mirror!MirrorInv
<1>1. /\ work' \in [Admins -> Mirror!OverrideRow \cup {Mirror!NoWork}]
      /\ \A b \in Admins :
           /\ work'[b].at # "idle" => row'.there /\ work'[b].held \subseteq ever'
           /\ work'[b].at \in {"removing", "mirroring"} => work'[b].wanted \subseteq ever'
  BY OverrideMoves
<1>2. Mirror!Fields'
  BY <1>1 DEF Mirror!Fields
<1>3. Mirror!Granted'
  BY <1>1 DEF Mirror!Granted, Mirror!MirrorWasGranted
<1>4. Mirror!ForeignStays'
  BY DEF Mirror!ForeignStays
<1> QED
  BY <1>2, <1>3, <1>4

LEMMA AskKeeps ==
    ASSUME Mirror!MirrorInv, NEW a \in Admins, NEW wanted \in SUBSET Roles, Mirror!Ask(a, wanted)
    PROVE  Mirror!MirrorInv'
<1> DEFINE new == [at |-> "looking", wanted |-> wanted, previous |-> row.roles, held |-> {}]
<1>1. row.there /\ work' = [work EXCEPT ![a] = new] /\ UNCHANGED <<realm, ever, token, row, request>>
  BY DEF Mirror!Ask
<1>2. new \in Mirror!OverrideRow
  BY DEF Mirror!MirrorInv, Mirror!Fields, Mirror!OverrideRow
<1>3. /\ new # Mirror!NoWork => row.there /\ new.held \subseteq ever'
      /\ new.at \in {"removing", "mirroring"} => new.wanted \subseteq ever'
  BY <1>1
<1>4. /\ realm' \subseteq Roles \cup Foreign /\ realm' \cap Foreign = realm \cap Foreign
      /\ realm' \subseteq ever' /\ ever \subseteq ever'
  BY <1>1 DEF Mirror!MirrorInv, Mirror!Fields, Mirror!Granted
<1> HIDE DEF new
<1> QED
  BY <1>1, <1>2, <1>3, <1>4, MappingMoves

\* An override that goes on keeps what it wants, and is done with nothing.
LEMMA OverrideGoesOn ==
    ASSUME Mirror!MirrorInv, NEW a \in Admins, work[a].at # "idle"
    PROVE  /\ row.there /\ work[a] \in Mirror!OverrideRow
           /\ work[a].held \subseteq ever /\ work[a].held \subseteq Roles /\ work[a].wanted \subseteq Roles
           /\ \A at \in {"adding", "removing", "mirroring"} :
                LET new == [work[a] EXCEPT !.at = at]
                IN  /\ new \in Mirror!OverrideRow /\ new.at = at
                    /\ new.held = work[a].held /\ new.wanted = work[a].wanted
<1>1. work[a] \in Mirror!OverrideRow /\ row.there /\ work[a].held \subseteq ever
  BY DEF Mirror!MirrorInv, Mirror!Fields, Mirror!Granted, Mirror!NoWork
<1> QED
  BY <1>1 DEF Mirror!OverrideRow

\* An override that is over leaves the account as it is.
LEMMA OverNow ==
    ASSUME Mirror!MirrorInv, NEW a \in Admins, Mirror!Refuse(a),
           UNCHANGED <<token, row, request>>,
           realm' \subseteq Roles \cup Foreign, realm' \cap Foreign = realm \cap Foreign,
           realm' \subseteq ever', ever \subseteq ever'
    PROVE  Mirror!MirrorInv'
<1>1. work' = [work EXCEPT ![a] = Mirror!NoWork]
  BY DEF Mirror!Refuse
<1>2. Mirror!NoWork.at \notin {"removing", "mirroring"}
  BY DEF Mirror!NoWork
<1>3. Mirror!NoWork \in Mirror!OverrideRow \cup {Mirror!NoWork}
  OBVIOUS
<1> QED
  BY <1>1, <1>2, <1>3, MappingMoves

\* No step of its own but the next.
LEMMA LookKeeps == ASSUME Mirror!MirrorInv, NEW a \in Admins, Mirror!Look(a) PROVE Mirror!MirrorInv'
<1>1. work[a].at # "idle" /\ UNCHANGED <<realm, ever, token, row, request>>
  BY DEF Mirror!Look
<1>2. /\ realm' \subseteq Roles \cup Foreign /\ realm' \cap Foreign = realm \cap Foreign
      /\ realm' \subseteq ever' /\ ever \subseteq ever'
  BY <1>1 DEF Mirror!MirrorInv, Mirror!Fields, Mirror!Granted
<1>3. CASE Mirror!Refuse(a)
  BY <1>1, <1>2, <1>3, OverNow
<1>4. CASE work' = [work EXCEPT ![a] = [work[a] EXCEPT !.at = "adding", !.held = realm \cap Roles]]
  <2> DEFINE new == [work[a] EXCEPT !.at = "adding", !.held = realm \cap Roles]
  <2>1. new \in Mirror!OverrideRow /\ new.at = "adding" /\ new.held = realm \cap Roles
    BY <1>1, OverrideGoesOn DEF Mirror!OverrideRow
  <2>2. /\ new # Mirror!NoWork => row.there /\ new.held \subseteq ever'
        /\ new.at \in {"removing", "mirroring"} => new.wanted \subseteq ever'
    BY <1>1, <1>2, <2>1, OverrideGoesOn
  <2>3. work' = [work EXCEPT ![a] = new]
    BY <1>4
  <2> HIDE DEF new
  <2> QED
    BY <1>1, <1>2, <2>1, <2>2, <2>3, MappingMoves
<1> QED
  BY <1>3, <1>4 DEF Mirror!Look

\* One write of the mapping, and one that is not needed: nothing the provider
\* keeps for itself comes or goes, and what is wanted is granted.
LEMMA ApplyKeeps ==
    ASSUME Mirror!MirrorInv, NEW a \in Admins, work[a].at # "idle",
           NEW roles, roles \subseteq Roles \cup Foreign, roles \cap Foreign = realm \cap Foreign,
           NEW at \in {"removing", "mirroring"}, work[a].wanted \subseteq ever \cup roles,
           Mirror!Apply(a, roles, at)
    PROVE  Mirror!MirrorInv'
<1>1. UNCHANGED <<token, row, request>>
  BY DEF Mirror!Apply
<1>2. realm \subseteq Roles \cup Foreign /\ realm \subseteq ever
  BY DEF Mirror!MirrorInv, Mirror!Fields, Mirror!Granted
<1>3. CASE Mirror!Refuse(a)
  <2>1. \/ realm' = roles /\ ever' = ever \cup roles
        \/ realm' = realm /\ ever' = ever
    BY <1>3 DEF Mirror!Apply, Mirror!Map
  <2> QED
    BY <1>1, <1>2, <1>3, <2>1, OverNow
<1>4. CASE Mirror!Map(roles) /\ Mirror!Go(a, at)
  <2> DEFINE new == [work[a] EXCEPT !.at = at]
  <2>1. /\ new \in Mirror!OverrideRow /\ new.at = at
        /\ new.held = work[a].held /\ new.wanted = work[a].wanted
        /\ row.there /\ work[a].held \subseteq ever
    BY OverrideGoesOn
  <2>2. realm' = roles /\ ever' = ever \cup roles /\ work' = [work EXCEPT ![a] = new]
    BY <1>4 DEF Mirror!Map, Mirror!Go
  <2> HIDE DEF new
  <2>3. /\ new # Mirror!NoWork => row.there /\ new.held \subseteq ever'
        /\ new.at \in {"removing", "mirroring"} => new.wanted \subseteq ever'
    BY <2>1, <2>2
  <2> QED
    BY <1>1, <1>2, <2>1, <2>2, <2>3, MappingMoves
<1> QED
  BY <1>3, <1>4 DEF Mirror!Apply

LEMMA SkipKeeps ==
    ASSUME Mirror!MirrorInv, NEW a \in Admins, work[a].at # "idle",
           NEW at \in {"removing", "mirroring"}, work[a].wanted \subseteq ever,
           Mirror!Skip(a, at)
    PROVE  Mirror!MirrorInv'
<1> DEFINE new == [work[a] EXCEPT !.at = at]
<1>1. /\ new \in Mirror!OverrideRow /\ new.at = at
      /\ new.held = work[a].held /\ new.wanted = work[a].wanted
      /\ row.there /\ work[a].held \subseteq ever
  BY OverrideGoesOn
<1>2. UNCHANGED <<realm, ever, token, row, request>> /\ work' = [work EXCEPT ![a] = new]
  BY DEF Mirror!Skip, Mirror!Go
<1> HIDE DEF new
<1>3. /\ new # Mirror!NoWork => row.there /\ new.held \subseteq ever'
      /\ new.at \in {"removing", "mirroring"} => new.wanted \subseteq ever'
  BY <1>1, <1>2
<1>4. /\ realm' \subseteq Roles \cup Foreign /\ realm' \cap Foreign = realm \cap Foreign
      /\ realm' \subseteq ever' /\ ever \subseteq ever'
  BY <1>2 DEF Mirror!MirrorInv, Mirror!Fields, Mirror!Granted
<1> QED
  BY <1>1, <1>2, <1>3, <1>4, MappingMoves

LEMMA AddKeeps ==
    ASSUME Mirror!MirrorBounds, Mirror!MirrorInv, NEW a \in Admins, Mirror!Add(a)
    PROVE  Mirror!MirrorInv'
<1> DEFINE missing == work[a].wanted \ work[a].held
<1>1. work[a].at = "adding"
  BY DEF Mirror!Add
<1>2. work[a].held \subseteq ever /\ work[a].wanted \subseteq Roles
  BY <1>1, OverrideGoesOn
<1>3. CASE missing = {}
  <2>1. Mirror!Skip(a, "removing")
    BY <1>3 DEF Mirror!Add
  <2>2. work[a].wanted \subseteq ever
    BY <1>2, <1>3
  <2> QED
    BY <1>1, <2>1, <2>2, SkipKeeps
<1>4. CASE missing # {}
  <2>1. Mirror!Apply(a, realm \cup missing, "removing")
    BY <1>4 DEF Mirror!Add
  <2>2. /\ realm \cup missing \subseteq Roles \cup Foreign
        /\ (realm \cup missing) \cap Foreign = realm \cap Foreign
        /\ work[a].wanted \subseteq ever \cup (realm \cup missing)
    BY <1>2 DEF Mirror!MirrorBounds, Mirror!MirrorInv, Mirror!Fields
  <2> HIDE DEF missing
  <2> QED
    BY <1>1, <2>1, <2>2, ApplyKeeps
<1> QED
  BY <1>3, <1>4

LEMMA RemoveKeeps ==
    ASSUME Mirror!MirrorBounds, Mirror!MirrorInv, NEW a \in Admins, Mirror!Remove(a)
    PROVE  Mirror!MirrorInv'
<1> DEFINE extra == work[a].held \ work[a].wanted
<1>1. work[a].at = "removing"
  BY DEF Mirror!Remove
<1>2. work[a].held \subseteq Roles /\ work[a].wanted \subseteq ever
  BY <1>1, OverrideGoesOn DEF Mirror!MirrorInv, Mirror!Granted
<1>3. CASE extra = {}
  <2>1. Mirror!Skip(a, "mirroring")
    BY <1>3 DEF Mirror!Remove
  <2> QED
    BY <1>1, <1>2, <2>1, SkipKeeps
<1>4. CASE extra # {}
  <2>1. Mirror!Apply(a, realm \ extra, "mirroring")
    BY <1>4 DEF Mirror!Remove
  <2>2. /\ realm \ extra \subseteq Roles \cup Foreign
        /\ (realm \ extra) \cap Foreign = realm \cap Foreign
        /\ work[a].wanted \subseteq ever \cup (realm \ extra)
    BY <1>2 DEF Mirror!MirrorBounds, Mirror!MirrorInv, Mirror!Fields
  <2> HIDE DEF extra
  <2> QED
    BY <1>1, <2>1, <2>2, ApplyKeeps
<1> QED
  BY <1>3, <1>4

\* The account's row is written: by an override that is over, or by a request.
LEMMA RowMoves ==
    ASSUME Mirror!MirrorInv, UNCHANGED <<realm, ever, token>>,
           row' \in [there : BOOLEAN, roles : SUBSET Roles], row'.roles \subseteq ever,
           row.there => row'.there,
           work' \in [Admins -> Mirror!OverrideRow \cup {Mirror!NoWork}],
           \A a \in Admins : work'[a] = work[a] \/ work'[a] = Mirror!NoWork,
           request' \in [Requests -> Mirror!RequestRow \cup {Mirror!NoWork}],
           \A q \in Requests : request'[q] = request[q] \/ request'[q] = Mirror!NoWork
    PROVE  Mirror!MirrorInv'
<1> USE DEF Mirror!MirrorInv
<1>1. Mirror!NoWork.at = "idle"
  BY DEF Mirror!NoWork
<1>2. \A a \in Admins : work'[a].at # "idle" => work'[a] = work[a]
  BY <1>1
<1>3. \A q \in Requests : request'[q].at # "idle" => request'[q] = request[q]
  BY <1>1
<1>4. Mirror!Fields'
  BY <1>2 DEF Mirror!Fields
<1>5. Mirror!Granted'
  <2>1. realm' \subseteq ever' /\ token' \subseteq ever' /\ Mirror!MirrorWasGranted'
    BY DEF Mirror!Granted, Mirror!MirrorWasGranted
  <2>2. \A a \in Admins :
          /\ work'[a].at # "idle" => work'[a].held \subseteq ever'
          /\ work'[a].at \in {"removing", "mirroring"} => work'[a].wanted \subseteq ever'
    BY <1>2 DEF Mirror!Granted
  <2>3. \A q \in Requests : request'[q].at # "idle" => request'[q].says \subseteq ever'
    BY <1>3 DEF Mirror!Granted
  <2> QED
    BY <2>1, <2>2, <2>3 DEF Mirror!Granted
<1>6. Mirror!ForeignStays'
  BY DEF Mirror!ForeignStays
<1> QED
  BY <1>4, <1>5, <1>6

LEMMA MirrorKeeps == ASSUME Mirror!MirrorInv, NEW a \in Admins, Mirror!Mirror(a) PROVE Mirror!MirrorInv'
<1>1. /\ work[a].at = "mirroring" /\ work' = [work EXCEPT ![a] = Mirror!NoWork]
      /\ UNCHANGED <<realm, ever, token, request>>
      /\ row' = row \/ row' = [row EXCEPT !.roles = work[a].wanted]
  BY DEF Mirror!Mirror, Mirror!Refuse
<1>2. /\ row \in [there : BOOLEAN, roles : SUBSET Roles] /\ row.roles \subseteq ever
      /\ work[a].wanted \subseteq ever /\ work[a].wanted \subseteq Roles
  BY <1>1, OverrideGoesOn DEF Mirror!MirrorInv, Mirror!Fields, Mirror!Granted, Mirror!MirrorWasGranted
<1>3. row' \in [there : BOOLEAN, roles : SUBSET Roles] /\ row'.roles \subseteq ever /\ row'.there = row.there
  BY <1>1, <1>2
<1>4. /\ work' \in [Admins -> Mirror!OverrideRow \cup {Mirror!NoWork}]
      /\ \A b \in Admins : work'[b] = work[b] \/ work'[b] = Mirror!NoWork
      /\ request' \in [Requests -> Mirror!RequestRow \cup {Mirror!NoWork}]
  BY <1>1 DEF Mirror!MirrorInv, Mirror!Fields
<1> QED
  BY <1>1, <1>3, <1>4, RowMoves

LEMMA SignInKeeps == ASSUME Mirror!MirrorInv, Mirror!SignIn PROVE Mirror!MirrorInv'
<1> USE DEF Mirror!MirrorInv
<1>1. token' = realm \cap Roles /\ UNCHANGED <<realm, ever, row, work, request>>
  BY DEF Mirror!SignIn
<1>2. Mirror!Fields'
  BY <1>1 DEF Mirror!Fields
<1>3. Mirror!Granted'
  BY <1>1 DEF Mirror!Granted, Mirror!MirrorWasGranted
<1>4. Mirror!ForeignStays'
  BY <1>1 DEF Mirror!ForeignStays
<1> QED
  BY <1>2, <1>3, <1>4

\* A request carries what the token says.
LEMMA FindKeeps == ASSUME Mirror!MirrorInv, NEW q \in Requests, Mirror!Find(q) PROVE Mirror!MirrorInv'
<1> USE DEF Mirror!MirrorInv
<1> DEFINE new == [at |-> IF row.there THEN "updating" ELSE "inserting",
                   says |-> token, previous |-> row.roles]
<1>1. request' = [request EXCEPT ![q] = new] /\ UNCHANGED <<realm, ever, token, row, work>>
  BY DEF Mirror!Find
<1>2. new \in Mirror!RequestRow /\ new.says \subseteq ever
  BY DEF Mirror!Fields, Mirror!Granted, Mirror!RequestRow
<1> HIDE DEF new
<1>3. request'[q] = new /\ \A r \in Requests : r # q => request'[r] = request[r]
  BY <1>1 DEF Mirror!Fields
<1>4. Mirror!Fields'
  BY <1>1, <1>2 DEF Mirror!Fields
<1>5. Mirror!Granted'
  BY <1>1, <1>2, <1>3 DEF Mirror!Granted, Mirror!MirrorWasGranted
<1>6. Mirror!ForeignStays'
  BY <1>1 DEF Mirror!ForeignStays
<1> QED
  BY <1>4, <1>5, <1>6

\* A request writes the row, if at all, with what it carries.
LEMMA AnswerKeeps ==
    ASSUME Mirror!MirrorInv, NEW q \in Requests, Mirror!Provision(q) \/ Mirror!Refresh(q)
    PROVE  Mirror!MirrorInv'
<1>1. /\ request[q].at # "idle" /\ request' = [request EXCEPT ![q] = Mirror!NoWork]
      /\ UNCHANGED <<realm, ever, token, work>>
      /\ \/ row' = row
         \/ row' = [there |-> TRUE, roles |-> request[q].says]
         \/ row' = [row EXCEPT !.roles = request[q].says]
  <2>1. CASE Mirror!Provision(q)
    BY <2>1, row.there \/ ~row.there DEF Mirror!Provision
  <2>2. CASE Mirror!Refresh(q)
    BY <2>2 DEF Mirror!Refresh
  <2> QED
    BY <2>1, <2>2
<1>2. /\ row \in [there : BOOLEAN, roles : SUBSET Roles] /\ row.roles \subseteq ever
      /\ request[q].says \subseteq ever /\ request[q].says \subseteq Roles
  BY <1>1 DEF Mirror!MirrorInv, Mirror!Fields, Mirror!Granted, Mirror!MirrorWasGranted,
              Mirror!RequestRow, Mirror!NoWork
<1>3. /\ row' \in [there : BOOLEAN, roles : SUBSET Roles] /\ row'.roles \subseteq ever
      /\ row.there => row'.there
  <2>1. CASE row' = row
    BY <1>2, <2>1
  <2>2. CASE row' = [there |-> TRUE, roles |-> request[q].says]
    BY <1>2, <2>2
  <2>3. CASE row' = [row EXCEPT !.roles = request[q].says]
    BY <1>2, <2>3
  <2> QED
    BY <1>1, <2>1, <2>2, <2>3
<1>4. /\ request' \in [Requests -> Mirror!RequestRow \cup {Mirror!NoWork}]
      /\ \A r \in Requests : request'[r] = request[r] \/ request'[r] = Mirror!NoWork
      /\ work' \in [Admins -> Mirror!OverrideRow \cup {Mirror!NoWork}]
  BY <1>1 DEF Mirror!MirrorInv, Mirror!Fields
<1> QED
  BY <1>1, <1>3, <1>4, RowMoves

LEMMA MirrorStutters == ASSUME Mirror!MirrorInv, UNCHANGED Mirror!mvars PROVE Mirror!MirrorInv'
BY DEF Mirror!mvars, Mirror!MirrorInv, Mirror!Fields, Mirror!Granted, Mirror!MirrorWasGranted,
       Mirror!ForeignStays

LEMMA MirrorSteps ==
    ASSUME Mirror!MirrorBounds, Mirror!MirrorInv, [Mirror!Next]_(Mirror!mvars)
    PROVE  Mirror!MirrorInv'
<1>1. ASSUME NEW a \in Admins, NEW wanted \in SUBSET Roles, Mirror!Ask(a, wanted)
      PROVE  Mirror!MirrorInv'
  BY <1>1, AskKeeps
<1>2. ASSUME NEW a \in Admins, Mirror!Override(a) PROVE Mirror!MirrorInv'
  BY <1>2, LookKeeps, AddKeeps, RemoveKeeps, MirrorKeeps DEF Mirror!Override
<1>3. ASSUME NEW q \in Requests, Mirror!Serve(q) PROVE Mirror!MirrorInv'
  BY <1>3, FindKeeps, AnswerKeeps DEF Mirror!Serve
<1>4. CASE Mirror!SignIn
  BY <1>4, SignInKeeps
<1>5. CASE UNCHANGED Mirror!mvars
  BY <1>5, MirrorStutters
<1> QED
  BY <1>1, <1>2, <1>3, <1>4, <1>5 DEF Mirror!Next

\* The invariant of the mirror, for any roles, administrators and requests.
THEOREM MirrorIsInvariant == Mirror!MirrorBounds => (Mirror!Spec => []Mirror!MirrorInv)
<1> SUFFICES ASSUME Mirror!MirrorBounds PROVE Mirror!Spec => []Mirror!MirrorInv
  OBVIOUS
<1>1. Mirror!Init => Mirror!MirrorInv
  BY MirrorInitKeeps
<1>2. Mirror!MirrorInv /\ [Mirror!Next]_(Mirror!mvars) => Mirror!MirrorInv'
  BY MirrorSteps
<1> QED
  BY <1>1, <1>2, PTL DEF Mirror!Spec

\* The mirror and what is in hand have their types: nobody gets a role outside
\* the platform's vocabulary (schemas/admin.py, keycloak_admin.py).
THEOREM MirrorTypes == Mirror!MirrorBounds => (Mirror!Spec => []Mirror!TypeOK)
<1> SUFFICES ASSUME Mirror!MirrorBounds PROVE Mirror!Spec => []Mirror!TypeOK
  OBVIOUS
<1>1. Mirror!MirrorInv => Mirror!TypeOK
  <2>1. SUFFICES ASSUME Mirror!MirrorInv PROVE Mirror!TypeOK
    OBVIOUS
  <2>2. ASSUME NEW a \in Admins, work[a] # Mirror!NoWork
        PROVE  row.there /\ work[a].held \subseteq Roles
    BY <2>1, <2>2 DEF Mirror!MirrorInv, Mirror!Fields, Mirror!OverrideRow
  <2> QED
    BY <2>1, <2>2 DEF Mirror!MirrorInv, Mirror!Fields, Mirror!TypeOK
<1> QED
  BY <1>1, MirrorIsInvariant, PTL

\* admin.py, "never a local role the identity provider has never granted": no role
\* in the platform's row that the provider never mapped, however many overrides
\* and requests interleave and whichever of their calls fail.
THEOREM RolesWereGranted == Mirror!MirrorBounds => (Mirror!Spec => []Mirror!MirrorWasGranted)
<1> SUFFICES ASSUME Mirror!MirrorBounds PROVE Mirror!Spec => []Mirror!MirrorWasGranted
  OBVIOUS
<1>1. Mirror!MirrorInv => Mirror!MirrorWasGranted
  BY DEF Mirror!MirrorInv, Mirror!Granted
<1> QED
  BY <1>1, MirrorIsInvariant, PTL

\* keycloak_admin.py: an override neither takes nor gives a role that the
\* provider keeps for itself.
THEOREM ForeignRolesStay == Mirror!MirrorBounds => (Mirror!Spec => []Mirror!ForeignStays)
<1> SUFFICES ASSUME Mirror!MirrorBounds PROVE Mirror!Spec => []Mirror!ForeignStays
  OBVIOUS
<1>1. Mirror!MirrorInv => Mirror!ForeignStays
  BY DEF Mirror!MirrorInv
<1> QED
  BY <1>1, MirrorIsInvariant, PTL

\* One administrator at a time: what the mapping holds follows from what the
\* override has read and wants.
LEMMA LoneOverride ==
    ASSUME Mirror!MirrorBounds, \A a, b \in Admins : a = b,
           Mirror!MirrorInv, Mirror!MappingIsKnown, [Mirror!Next]_(Mirror!mvars)
    PROVE  Mirror!MappingIsKnown'
<1> DEFINE Known(b) ==
        /\ work[b].at = "adding" => realm \cap Roles = work[b].held
        /\ work[b].at = "removing" => realm \cap Roles = work[b].held \cup work[b].wanted
        /\ work[b].at = "mirroring" => realm \cap Roles = work[b].wanted
<1>a. Mirror!MappingIsKnown' <=> \A b \in Admins : Known(b)'
  BY DEF Mirror!MappingIsKnown
<1>b. \A b \in Admins : Known(b)
  BY DEF Mirror!MappingIsKnown
<1>c. Mirror!NoWork.at = "idle" /\ work \in [Admins -> Mirror!OverrideRow \cup {Mirror!NoWork}]
  BY DEF Mirror!NoWork, Mirror!MirrorInv, Mirror!Fields
<1>1. ASSUME NEW a \in Admins, work'[a].at \in {"idle", "looking"} PROVE Mirror!MappingIsKnown'
  BY <1>1, <1>a
<1>2. ASSUME NEW a \in Admins, Mirror!Refuse(a) PROVE Mirror!MappingIsKnown'
  BY <1>1, <1>2, <1>c DEF Mirror!Refuse
<1>3. ASSUME NEW a \in Admins, NEW at \in {"adding", "removing", "mirroring"},
             work[a].at # "idle", Mirror!Go(a, at)
      PROVE  /\ work'[a].at = at /\ work'[a].held = work[a].held /\ work'[a].wanted = work[a].wanted
             /\ work[a].held \subseteq Roles /\ work[a].wanted \subseteq Roles
  <2> DEFINE new == [work[a] EXCEPT !.at = at]
  <2>1. new.at = at /\ new.held = work[a].held /\ new.wanted = work[a].wanted
    BY <1>3, OverrideGoesOn
  <2>2. work'[a] = new
    BY <1>3, <1>c DEF Mirror!Go
  <2> QED
    BY <1>3, <2>1, <2>2, OverrideGoesOn
<1>4. ASSUME NEW a \in Admins, NEW wanted \in SUBSET Roles, Mirror!Ask(a, wanted)
      PROVE  Mirror!MappingIsKnown'
  <2>1. work'[a].at = "looking"
    BY <1>4, <1>c DEF Mirror!Ask
  <2> QED
    BY <1>1, <2>1
<1>5. ASSUME NEW a \in Admins, Mirror!Look(a) PROVE Mirror!MappingIsKnown'
  <2>1. CASE Mirror!Refuse(a)
    BY <1>2, <2>1
  <2>2. CASE work' = [work EXCEPT ![a] = [work[a] EXCEPT !.at = "adding", !.held = realm \cap Roles]]
    <3> DEFINE new == [work[a] EXCEPT !.at = "adding", !.held = realm \cap Roles]
    <3>1. work[a] \in Mirror!OverrideRow
      BY <1>5, OverrideGoesOn DEF Mirror!Look
    <3>2. new.at = "adding" /\ new.held = realm \cap Roles
      BY <3>1 DEF Mirror!OverrideRow
    <3>3. work'[a] = new /\ realm' = realm
      BY <1>5, <1>c, <2>2 DEF Mirror!Look
    <3> QED
      BY <1>a, <3>2, <3>3
  <2> QED
    BY <1>5, <2>1, <2>2 DEF Mirror!Look
<1>6. ASSUME NEW a \in Admins, Mirror!Add(a) PROVE Mirror!MappingIsKnown'
  <2> DEFINE missing == work[a].wanted \ work[a].held
  <2>1. work[a].at = "adding" /\ realm \cap Roles = work[a].held
    BY <1>6, <1>b DEF Mirror!Add
  <2>2. \/ Mirror!Refuse(a)
        \/ Mirror!Go(a, "removing") /\ missing = {} /\ realm' = realm
        \/ Mirror!Go(a, "removing") /\ realm' = realm \cup missing
    BY <1>6 DEF Mirror!Add, Mirror!Skip, Mirror!Apply, Mirror!Map
  <2>3. CASE Mirror!Refuse(a)
    BY <1>2, <2>3
  <2>4. CASE ~Mirror!Refuse(a)
    <3>1. Mirror!Go(a, "removing") /\ realm' = realm \cup missing
      BY <2>2, <2>4
    <3>2. /\ work'[a].at = "removing" /\ work'[a].held = work[a].held
          /\ work'[a].wanted = work[a].wanted
          /\ work[a].held \subseteq Roles /\ work[a].wanted \subseteq Roles
      BY <1>3, <2>1, <3>1
    <3>3. realm' \cap Roles = work[a].held \cup work[a].wanted
      BY <2>1, <3>1, <3>2
    <3> QED
      BY <1>a, <3>2, <3>3
  <2> QED
    BY <2>3, <2>4
<1>7. ASSUME NEW a \in Admins, Mirror!Remove(a) PROVE Mirror!MappingIsKnown'
  <2> DEFINE extra == work[a].held \ work[a].wanted
  <2>1. work[a].at = "removing" /\ realm \cap Roles = work[a].held \cup work[a].wanted
    BY <1>7, <1>b DEF Mirror!Remove
  <2>2. \/ Mirror!Refuse(a)
        \/ Mirror!Go(a, "mirroring") /\ extra = {} /\ realm' = realm
        \/ Mirror!Go(a, "mirroring") /\ realm' = realm \ extra
    BY <1>7 DEF Mirror!Remove, Mirror!Skip, Mirror!Apply, Mirror!Map
  <2>3. CASE Mirror!Refuse(a)
    BY <1>2, <2>3
  <2>4. CASE ~Mirror!Refuse(a)
    <3>1. Mirror!Go(a, "mirroring") /\ realm' = realm \ extra
      BY <2>2, <2>4
    <3>2. /\ work'[a].at = "mirroring" /\ work'[a].held = work[a].held
          /\ work'[a].wanted = work[a].wanted
          /\ work[a].held \subseteq Roles /\ work[a].wanted \subseteq Roles
      BY <1>3, <2>1, <3>1
    <3>3. realm' \cap Roles = work[a].wanted
      BY <2>1, <3>1, <3>2
    <3> QED
      BY <1>a, <3>2, <3>3
  <2> QED
    BY <2>3, <2>4
<1>8. ASSUME NEW a \in Admins, Mirror!Mirror(a) PROVE Mirror!MappingIsKnown'
  BY <1>2, <1>8 DEF Mirror!Mirror
<1>9. CASE UNCHANGED <<realm, work>>
  BY <1>9 DEF Mirror!MappingIsKnown
<1>10. ASSUME NEW q \in Requests, Mirror!Serve(q) PROVE UNCHANGED <<realm, work>>
  BY <1>10 DEF Mirror!Serve, Mirror!Find, Mirror!Provision, Mirror!Refresh
<1>11. Mirror!SignIn \/ UNCHANGED Mirror!mvars => UNCHANGED <<realm, work>>
  BY DEF Mirror!SignIn, Mirror!mvars
<1> QED
  BY <1>4, <1>5, <1>6, <1>7, <1>8, <1>9, <1>10, <1>11 DEF Mirror!Next, Mirror!Override

\* admin.py, one administrator at a time: what an override is about to mirror and
\* to report as confirmed is exactly what the provider holds.
THEOREM ConfirmedRolesAreHeld ==
    Mirror!MirrorBounds /\ (\A a, b \in Admins : a = b) => (Mirror!Spec => []Mirror!ConfirmedIsHeld)
<1> SUFFICES ASSUME Mirror!MirrorBounds, \A a, b \in Admins : a = b
             PROVE  Mirror!Spec => []Mirror!ConfirmedIsHeld
  OBVIOUS
<1>1. Mirror!Init => Mirror!MappingIsKnown
  BY DEF Mirror!Init, Mirror!MappingIsKnown, Mirror!NoWork
<1>2. Mirror!MirrorInv /\ Mirror!MappingIsKnown /\ [Mirror!Next]_(Mirror!mvars)
        => Mirror!MappingIsKnown'
  BY LoneOverride
<1>3. Mirror!MappingIsKnown => Mirror!ConfirmedIsHeld
  BY DEF Mirror!MappingIsKnown, Mirror!ConfirmedIsHeld
<1> QED
  BY <1>1, <1>2, <1>3, MirrorIsInvariant, PTL DEF Mirror!Spec
=============================================================================
