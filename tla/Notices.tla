------------------------------- MODULE Notices -------------------------------
(***************************************************************************)
(* Telling people of what happened: notify and dispatch_deliveries of      *)
(* services/notification_service.py, the two channels of services/delivery *)
(* and the routes of api/v1/notifications.py.                              *)
(*                                                                         *)
(* A session that does something worth telling opens here and tells in one *)
(* or more calls; every call flushes a row for each person and then mails  *)
(* and pushes, while the transaction of the event is still open.           *)
(*                                                                         *)
(* Not modelled: what a message says, templates and headers, the attempts  *)
(* of one mail (it is accepted in the end, or not), paging, VAPID keys.    *)
(***************************************************************************)
EXTENDS Integers, FiniteSets

CONSTANTS
    Users, Roles,
    FirstAccounts,      \* [Users -> [roles, active, mail: EMAIL_CHANNELS]]
    Browsers,           \* endpoints
    Sessions,           \* of the requests and workers that tell
    Events,             \* what there is to tell of, each at most once:
                        \* [kinds, role, by, assignee, submitter]
    Admin, Hod,         \* the two standing desks
    MaxFaults,          \* bound: mails and pushes that are refused, failed events
    MaxChanges          \* bound: changes of accounts and of subscriptions

NoticeAssumption ==
    /\ MaxFaults \in Nat /\ MaxChanges \in Nat
    /\ FirstAccounts \in [Users -> [roles : SUBSET Roles, active : BOOLEAN, mail : BOOLEAN]]

VARIABLES
    account,
    browser,    \* push_subscriptions: <<user, endpoint>>
    notice,     \* the committed rows
    audit,      \* notification.email_failed, committed
    sent,       \* what left the building: <<row key, channel>>
    tx,         \* per session: the transaction it has open
    faults,
    changes

vars == <<account, browser, notice, audit, sent, tx, faults, changes>>

None == "none"

\* Whoever is named in an event has an account.
EventAssumption == \A e \in Events : {e.assignee, e.submitter} \subseteq Users \cup {None}

NoEvent == [kinds |-> {}, role |-> None, by |-> None, assignee |-> None, submitter |-> None]

Closed ==
    [phase |-> "closed", event |-> NoEvent, calls |-> {}, rows |-> {}, todo |-> {},
     subs |-> {}, stamped |-> {}, dropped |-> {}, failed |-> {}]

\* The trigger points, each a call of notify: the owning desk; that desk and the
\* approving one, less who escalated; who is named, or the approving desk less
\* who asked; who submitted last; the integration support; both standing desks.
CallOf(e, kind) ==
    LET To(users, roles, exclude) ==
            {[name |-> kind, users |-> users, roles |-> roles, exclude |-> exclude, mail |-> TRUE]}
    IN  CASE kind = "exception.opened" -> To({}, {e.role}, {})
          [] kind = "exception.escalated" -> To({}, {e.role, Hod}, {e.by})
          [] kind = "approval.requested" /\ e.assignee # None -> To({e.assignee}, {}, {})
          [] kind = "approval.requested" /\ e.assignee = None -> To({}, {e.role}, {e.by})
          [] kind = "approval.decided" /\ e.submitter # None -> To({e.submitter}, {}, {e.by})
          [] kind = "integration.attention" -> To({}, {Admin}, {})
          [] kind = "report.ready" -> To({}, {Admin, Hod}, {})
          [] OTHER -> {}

CallsOf(e) == UNION {CallOf(e, kind) : kind \in e.kinds}

KeyOf(row) == <<row.event, row.call, row.user>>

\* active_users_with_role, of every role that is named.
Holders(roles) == {u \in Users : account[u].active /\ account[u].roles \cap roles # {}}

\* notify: named people and holders of the roles, once each, less the one who did it.
Recipients(call) == (call.users \cup Holders(call.roles)) \ call.exclude

Row(e, call, u) ==
    [event |-> e, call |-> call.name, user |-> u, read |-> FALSE, mailed |-> FALSE, pushed |-> FALSE,
     wants |-> call.mail /\ account[u].active /\ account[u].mail]

Fault == faults < MaxFaults /\ faults' = faults + 1
Chance(accepted) == IF accepted THEN UNCHANGED faults ELSE Fault

\* Rows of push_subscriptions that an open transaction has written.
Locked(s) == tx[s].stamped \cup tx[s].dropped
HeldByOther(s, sub) == \E o \in Sessions \ {s} : sub \in Locked(o)

-----------------------------------------------------------------------------
\* Something happens, in a transaction of its own.
Open(s, e, calls) ==
    /\ tx[s].phase = "closed"
    /\ tx' = [tx EXCEPT ![s] = [Closed EXCEPT !.phase = "open", !.event = e, !.calls = calls]]
    /\ UNCHANGED <<account, browser, notice, audit, sent, faults, changes>>

\* notify: the rows, flushed, and the accounts of the people as they are now.
Tell(s, call) ==
    /\ tx[s].phase = "open" /\ tx[s].todo = {} /\ call \in tx[s].calls
    /\ LET rows == {Row(tx[s].event, call, u) : u \in Recipients(call)}
       IN  tx' = [tx EXCEPT ![s] = [tx[s] EXCEPT !.calls = @ \ {call}, !.rows = @ \cup rows,
                  !.todo = {KeyOf(r) : r \in {x \in rows : account[x.user].active}}]]
    /\ UNCHANGED <<account, browser, notice, audit, sent, faults, changes>>

Pending(s, key) == CHOOSE r \in tx[s].rows : KeyOf(r) = key
Amended(s, row, new) == (tx[s].rows \ {row}) \cup {new}

Stamped(row, accepted) == [row EXCEPT !.mailed = accepted /\ row.wants]

\* Slip: a mail that was refused is only logged.
NotRecorded(s, key, accepted) == tx[s].failed

Recorded(s, key, accepted) == IF accepted THEN tx[s].failed ELSE tx[s].failed \cup {key}

\* _deliver_email for who asked for it, then the browsers of the person as they
\* are listed now; a delivery to any of them is a request of its own.
Mail(s, key, accepted) ==
    LET row == Pending(s, key)
    IN  /\ tx[s].phase = "open" /\ key \in tx[s].todo /\ tx[s].subs = {}
        /\ ~accepted => row.wants
        /\ Chance(accepted)
        /\ sent' = IF row.wants /\ accepted THEN sent \cup {<<key, "mail">>} ELSE sent
        /\ tx' = [tx EXCEPT ![s] =
                [tx[s] EXCEPT !.rows = Amended(s, row, Stamped(row, accepted)),
                          !.failed = Recorded(s, key, accepted), !.todo = @ \ {key},
                          !.subs = {<<key, sub>> : sub \in {b \in browser : b[1] = row.user}}]]
        /\ UNCHANGED <<account, browser, notice, audit, changes>>

\* The push service takes it, and the subscription is stamped.  Where the row
\* has gone meanwhile the flush fails: the exception is swallowed, the
\* transaction it belonged to is not to be committed any more.
Push(s, key, sub) ==
    /\ tx[s].phase = "open" /\ <<key, sub>> \in tx[s].subs /\ ~HeldByOther(s, sub)
    /\ sent' = sent \cup {<<key, "push">>}
    /\ LET row == Pending(s, key)
       IN  tx' = IF sub \in browser
                 THEN [tx EXCEPT ![s] =
                        [tx[s] EXCEPT !.subs = @ \ {<<key, sub>>}, !.stamped = @ \cup {sub},
                                  !.rows = Amended(s, row, [row EXCEPT !.pushed = TRUE])]]
                 ELSE [tx EXCEPT ![s] = [tx[s] EXCEPT !.phase = "broken", !.subs = {}, !.todo = {}]]
    /\ UNCHANGED <<account, browser, notice, audit, faults, changes>>

\* 404 or 410: the browser is forgotten.  Anything else costs this delivery.
PushRefused(s, key, sub, dead) ==
    /\ tx[s].phase = "open" /\ <<key, sub>> \in tx[s].subs /\ ~HeldByOther(s, sub)
    /\ Fault
    /\ tx' = [tx EXCEPT ![s] = [tx[s] EXCEPT !.subs = @ \ {<<key, sub>>},
                                        !.dropped = IF dead THEN @ \cup {sub} ELSE @]]
    /\ UNCHANGED <<account, browser, notice, audit, sent, changes>>

\* Two sessions wait for each other's rows: PostgreSQL ends one of them.
Waits(s, o) == \E x \in tx[s].subs : x[2] \in Locked(o)

Deadlocked(s) ==
    /\ \E o \in Sessions \ {s} : Waits(s, o) /\ Waits(o, s)
    /\ tx' = [tx EXCEPT ![s] = [Closed EXCEPT !.phase = "broken", !.event = tx[s].event]]
    /\ UNCHANGED <<account, browser, notice, audit, sent, faults, changes>>

Told(s) == tx[s].calls = {} /\ tx[s].todo = {} /\ tx[s].subs = {}

\* The caller's commit.
Commit(s) ==
    /\ tx[s].phase = "open" /\ Told(s)
    /\ notice' = notice \cup tx[s].rows
    /\ audit' = audit \cup tx[s].failed
    /\ browser' = browser \ tx[s].dropped
    /\ tx' = [tx EXCEPT ![s] = Closed]
    /\ UNCHANGED <<account, sent, faults, changes>>

\* The event is undone: at its commit, when a delivery has spoiled it, or by a
\* fault of its own.  What was mailed and pushed is not.
Undo(s) ==
    /\ \/ tx[s].phase = "broken" /\ UNCHANGED faults
       \/ tx[s].phase = "open" /\ Fault
    /\ tx' = [tx EXCEPT ![s] = Closed]
    /\ UNCHANGED <<account, browser, notice, audit, sent, changes>>

Deliver(s) ==
    \/ \E key \in tx[s].todo, accepted \in BOOLEAN : Mail(s, key, accepted)
    \/ \E x \in tx[s].subs :
          Push(s, x[1], x[2]) \/ \E dead \in BOOLEAN : PushRefused(s, x[1], x[2], dead)
    \/ Deadlocked(s)

-----------------------------------------------------------------------------
Changed == changes < MaxChanges /\ changes' = changes + 1

\* push-subscribe: one row for an account's browser, however often it registers.
Subscribe(u, b) ==
    /\ Changed /\ <<u, b>> \notin browser
    /\ browser' = browser \cup {<<u, b>>}
    /\ UNCHANGED <<account, notice, audit, sent, tx, faults>>

Unsubscribe(u, b) ==
    /\ Changed /\ <<u, b>> \in browser /\ \A s \in Sessions : <<u, b>> \notin Locked(s)
    /\ browser' = browser \ {<<u, b>>}
    /\ UNCHANGED <<account, notice, audit, sent, tx, faults>>

\* mark-all-read, of the caller's own rows that it sees.
MarkAllRead(u) ==
    /\ \E n \in notice : n.user = u /\ ~n.read
    /\ notice' = {IF n.user = u THEN [n EXCEPT !.read = TRUE] ELSE n : n \in notice}
    /\ UNCHANGED <<account, browser, audit, sent, tx, faults, changes>>

\* An account is disabled or enabled, or its channel is changed.
ChangeAccount(u, field) ==
    /\ Changed
    /\ account' = [account EXCEPT ![u][field] = ~@]
    /\ UNCHANGED <<browser, notice, audit, sent, tx, faults>>

Init ==
    /\ account = FirstAccounts
    /\ browser = {} /\ notice = {} /\ audit = {} /\ sent = {}
    /\ tx = [s \in Sessions |-> Closed]
    /\ faults = 0 /\ changes = 0

Happened(e) == \E n \in notice : n.event = e

Next ==
    \/ \E s \in Sessions :
         \/ \E e \in Events : /\ \A o \in Sessions : tx[o].phase # "closed" => tx[o].event # e
                              /\ ~Happened(e)
                              /\ Open(s, e, CallsOf(e))
         \/ \E call \in tx[s].calls : Tell(s, call)
         \/ Deliver(s) \/ Commit(s) \/ Undo(s)
    \/ \E u \in Users :
         \/ MarkAllRead(u)
         \/ \E b \in Browsers : Subscribe(u, b) \/ Unsubscribe(u, b)
         \/ \E field \in {"active", "mail"} : ChangeAccount(u, field)

Spec == Init /\ [][Next]_vars

-----------------------------------------------------------------------------
TypeOK ==
    /\ \A n \in notice : n.user \in Users /\ n.event \in Events
    /\ \A n, m \in notice : KeyOf(n) = KeyOf(m) => n = m
    /\ browser \subseteq Users \X Browsers
    /\ \A s \in Sessions : tx[s].phase \in {"closed", "open", "broken"}
    /\ faults \in 0..MaxFaults /\ changes \in 0..MaxChanges

\* A stamp on a notice is evidence: the relay, or a push service, took it.
StampMeansSent ==
    \A n \in notice :
        (n.mailed => <<KeyOf(n), "mail">> \in sent) /\ (n.pushed => <<KeyOf(n), "push">> \in sent)

\* Who asked for mail either was sent it or is on the audit trail as missed,
\* and not both.
SentOrOnRecord ==
    \A n \in notice : n.wants => (n.mailed <=> KeyOf(n) \notin audit)

\* What a notice says was sent was sent, and what was not is on the audit trail.
DeliveryIsOnRecord == StampMeansSent /\ SentOrOnRecord

\* Telling somebody is structurally incapable of harming what is told.
DeliveryHarmsNothing == \A s \in Sessions : tx[s].phase # "broken"

-----------------------------------------------------------------------------
\* Why the first two hold: the fields;
Kinds == UNION {e.kinds : e \in Events}
Keys == Events \X Kinds \X Users
NoticeRow ==
    [event : Events, call : Kinds, user : Users, read : BOOLEAN, mailed : BOOLEAN,
     pushed : BOOLEAN, wants : BOOLEAN]
TxRow ==
    [phase : {"closed", "open", "broken"}, event : Events \cup {NoEvent},
     calls : SUBSET UNION {CallsOf(e) : e \in Events}, rows : SUBSET NoticeRow,
     todo : SUBSET Keys, subs : SUBSET (Keys \X (Users \X Browsers)),
     stamped : SUBSET (Users \X Browsers), dropped : SUBSET (Users \X Browsers),
     failed : SUBSET Keys]

Fields ==
    /\ account \in [Users -> [roles : SUBSET Roles, active : BOOLEAN, mail : BOOLEAN]]
    /\ browser \subseteq Users \X Browsers
    /\ notice \subseteq NoticeRow /\ audit \subseteq Keys
    /\ tx \in [Sessions -> TxRow]
    /\ faults \in 0..MaxFaults /\ changes \in 0..MaxChanges

\* a row is known by its event, its call and its reader, and a call that is yet
\* to be told has none;
Distinct(rows) == \A r, o \in rows : KeyOf(r) = KeyOf(o) => r = o

OwnRow(t) ==
    /\ t.event \in Events /\ t.calls \subseteq CallsOf(t.event)
    /\ \A r \in t.rows : r.event = t.event /\ \A c \in t.calls : c.name # r.call
    /\ Distinct(t.rows)
    /\ t.todo \cup t.failed \subseteq {KeyOf(r) : r \in t.rows}
    /\ \A x \in t.subs : x[1] \in {KeyOf(r) : r \in t.rows}

OwnRows == \A s \in Sessions : tx[s].phase = "open" => OwnRow(tx[s])

\* a transaction that is closed has nothing to deliver;
Idle == \A s \in Sessions : tx[s].phase = "closed" => tx[s].subs = {}

\* an event is told by one session and once, so that what it commits is new;
Once ==
    /\ \A s, o \in Sessions :
        s # o /\ tx[s].phase # "closed" /\ tx[o].phase # "closed" => tx[s].event # tx[o].event
    /\ \A s \in Sessions : tx[s].phase # "closed" =>
        (\A n \in notice : n.event # tx[s].event) /\ \A k \in audit : k[1] # tx[s].event
    /\ \A k \in audit : \E n \in notice : n.event = k[1]
    /\ Distinct(notice)

\* and of the rows of an open transaction the same is true as of those that are
\* committed, but for those that are yet to be mailed.
Evidence(n, posted) ==
    (n.mailed => <<KeyOf(n), "mail">> \in posted) /\ (n.pushed => <<KeyOf(n), "push">> \in posted)

SincereRow(r, t, posted) ==
    /\ Evidence(r, posted)
    /\ KeyOf(r) \in t.todo => ~r.mailed /\ KeyOf(r) \notin t.failed
    /\ r.wants /\ KeyOf(r) \notin t.todo => (r.mailed <=> KeyOf(r) \notin t.failed)

Sincere == \A s \in Sessions : tx[s].phase = "open" =>
    \A r \in tx[s].rows : SincereRow(r, tx[s], sent)

NoticeInv == Fields /\ OwnRows /\ Idle /\ Once /\ Sincere /\ StampMeansSent /\ SentOrOnRecord
=============================================================================
