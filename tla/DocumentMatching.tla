--------------------------- MODULE DocumentMatching ---------------------------
(***************************************************************************)
(* Which trade a confirmed document belongs to, and which number a trade   *)
(* goes by (backend/app/services/matching_service.py, the numbering of     *)
(* transaction_service.py, api/v1/documents.py and transactions.py).       *)
(*                                                                         *)
(* A request searches over what is committed, then writes: what it learnt  *)
(* of a trade in the search is the copy it decides and writes by, although *)
(* its first write waits for the lock of the row.  The unique indexes on   *)
(* the two numbers of a trade, and the row of the counter, are held from   *)
(* the statement that touches them until the commit.                       *)
(***************************************************************************)
EXTENDS Integers, Sequences, FiniteSets

CONSTANTS
    Docs,          \* documents with a completed extraction
    People,        \* those who confirm, settle suggestions and register
    Says,          \* what each document states
    Likeness,      \* each document against the one a trade's terms come from
    Thresholds,    \* the configured contract, supplier and floor
    HandNumbers,   \* numbers given when a trade is registered by hand
    MaxAttempts,   \* MAX_ALLOCATION_ATTEMPTS
    MaxTrades, MaxFaults     \* bounds

NoDoc == "no document"
NoTrade == 0
NoNumber == 0
Numbers == Nat \ {NoNumber}

MatchConstants ==
    /\ {MaxAttempts, MaxTrades, MaxFaults} \subseteq Nat
    /\ NoDoc \notin Docs /\ HandNumbers \subseteq Numbers
    /\ \A d \in Docs : Says[d].batch \in Nat

Max2(a, b) == IF a < b THEN b ELSE a
Min2(a, b) == IF a < b THEN a ELSE b

Boxes == UNION {Says[d].boxes : d \in Docs}

\* A row of trade_transactions with its leg, by the document whose terms and
\* amount it shows, and its containers.
TradeRow == [code : Numbers, batch : Numbers, source : {"allocated", "document"},
             invoice : {"provisional", "final"}, terms : Docs \cup {NoDoc},
             amount : Docs \cup {NoDoc}, opener : Docs \cup {NoDoc}, boxes : SUBSET Boxes,
             away : BOOLEAN]

VARIABLES
    trades,     \* committed rows, in the order of their commits
    counter,    \* batch_sequences.next_value
    link,       \* each document's transaction_id
    confirmed,  \* documents whose extraction is confirmed
    offered,    \* documents whose last search ended in a suggestion
    failed,     \* documents whose last matching raised
    work,       \* each person's request
    faults

vars == <<trades, counter, link, confirmed, offered, failed, work, faults>>

Trades == 1..Len(trades)
Row == TradeRow \cup {<<>>}

Idle == [pc |-> "idle", ask |-> "none", doc |-> NoDoc, known |-> NoTrade,
         outcome |-> "none", target |-> NoTrade, row |-> <<>>, number |-> NoNumber]

Request == [pc : {"idle", "search", "link", "adopt", "number", "index", "commit"},
            ask : {"none", "confirm", "accept", "reject", "register"},
            doc : Docs \cup {NoDoc}, known : 0..MaxTrades,
            outcome : {"none", "linked", "duplicate", "auto", "new"},
            target : 0..MaxTrades, row : Row, number : Numbers \cup {NoNumber}]

TypeOK ==
    /\ trades \in Seq(TradeRow) /\ Len(trades) <= MaxTrades
    /\ counter \in Nat \ {0}
    /\ link \in [Docs -> 0..MaxTrades]
    /\ confirmed \subseteq Docs /\ offered \subseteq Docs /\ failed \subseteq Docs
    /\ work \in [People -> Request]
    /\ faults \in 0..MaxFaults

Init ==
    /\ trades = <<>> /\ counter = 1
    /\ link = [d \in Docs |-> NoTrade]
    /\ confirmed = {} /\ offered = {} /\ failed = {}
    /\ work = [p \in People |-> Idle]
    /\ faults = 0

-----------------------------------------------------------------------------
(* Scores.                                                                 *)

\* score_candidate: the weaker of the two comparisons; a grade that differs
\* and a quantity that is apart only ever subtract, ten points at most each.
Score(l) ==
    Max2(0, Min2(l.contract, l.supplier)
            - (IF l.commodity = "differs" THEN 10 ELSE 0) - Min2(10, l.apart))

\* classify_candidate.
Band(l) ==
    CASE /\ l.contract >= Thresholds.contract /\ l.supplier >= Thresholds.supplier
         /\ Score(l) >= Thresholds.contract -> "auto"
      [] Score(l) >= Thresholds.floor -> "suggested"
      [] OTHER -> "new"

Unlike == [contract |-> 0, supplier |-> 0, commodity |-> "unknown", apart |-> 0]

Against(d, t) ==
    IF trades[t].terms = NoDoc THEN Unlike ELSE Likeness[d][trades[t].terms]

\* find_candidates over _open_transactions: the ones with the best score.
Best(d) ==
    LET open == {t \in Trades : ~trades[t].away}
    IN {t \in open : \A o \in open : Score(Against(d, o)) <= Score(Against(d, t))}

\* find_duplicate: another document that says the same and is linked.
Duplicates(d) ==
    {o \in Docs \ {d} : Says[o].content = Says[d].content /\ link[o] # NoTrade}

\* The trades that go by the number a document states.
Named(d) == {t \in Trades : trades[t].batch = Says[d].batch}

HasReference(d) == Says[d].batch # NoNumber \/ Says[d].contract \/ Says[d].invoice # "none"

\* The candidates a person is offered.
Offer(d) ==
    {t \in Trades : ~trades[t].away /\ Score(Against(d, t)) >= Thresholds.floor}

-----------------------------------------------------------------------------
(* What a session holds until it commits.                                  *)

Writing(p) == work[p].pc \in {"adopt", "index", "commit"}
HoldsRow(p, t) == Writing(p) /\ work[p].target = t /\ t # NoTrade
HoldsDoc(p, d) == Writing(p) /\ work[p].doc = d /\ d # NoDoc
HoldsKey(p, n) == work[p].pc = "commit" /\ work[p].number = n /\ n # NoNumber
HoldsCounter(p) ==
    /\ work[p].pc \in {"index", "commit"} /\ work[p].outcome = "new"
    /\ work[p].row.source = "allocated"

Others(p) == People \ {p}

Become(p, request) == work' = [work EXCEPT ![p] = request]

\* An exception rolls the request back; nothing asks for the matching again.
Raise(p) ==
    /\ Become(p, Idle)
    /\ failed' = failed \cup ({work[p].doc} \ {NoDoc})

-----------------------------------------------------------------------------
(* Requests.                                                               *)

\* A file uploaded straight onto a trade.
Upload(p, d, t) ==
    /\ work[p] = Idle /\ link[d] = NoTrade /\ d \notin confirmed \cup offered
    /\ \A o \in Others(p) : work[o].doc # d
    /\ link' = [link EXCEPT ![d] = t]
    /\ UNCHANGED <<trades, counter, confirmed, offered, failed, work, faults>>

\* confirm_extraction, as far as its first commit.
Confirm(p, d) ==
    /\ work[p] = Idle
    /\ confirmed' = confirmed \cup {d}
    /\ Become(p, [Idle EXCEPT !.pc = "search", !.ask = "confirm", !.doc = d, !.known = link[d]])
    /\ UNCHANGED <<trades, counter, link, offered, failed, faults>>

\* resolve_suggestion: nothing says that the extraction has been confirmed.
Resolve(p, d, decision) ==
    /\ work[p] = Idle /\ link[d] = NoTrade
    /\ Become(p, [Idle EXCEPT !.pc = "search", !.ask = decision, !.doc = d])
    /\ UNCHANGED <<trades, counter, link, confirmed, offered, failed, faults>>

NewRow(d, number) ==
    [code |-> number, batch |-> number, source |-> "document", away |-> FALSE,
     invoice |-> IF d # NoDoc /\ Says[d].invoice = "final" THEN "final" ELSE "provisional",
     terms |-> IF d # NoDoc /\ Says[d].contract THEN d ELSE NoDoc,
     amount |-> IF d # NoDoc /\ Says[d].amount THEN d ELSE NoDoc,
     opener |-> d, boxes |-> IF d = NoDoc THEN {} ELSE Says[d].boxes]

\* A new trade goes by the number stated, or asks the counter for one.
Opening(request, d, stated) ==
    [request EXCEPT !.outcome = "new", !.number = stated,
                    !.pc = IF stated = NoNumber THEN "number" ELSE "index",
                    !.row = IF stated = NoNumber THEN <<>> ELSE NewRow(d, stated)]

\* A trade registered by hand.
Register(p, number) ==
    /\ work[p] = Idle
    /\ Become(p, Opening([Idle EXCEPT !.ask = "register"], NoDoc, number))
    /\ UNCHANGED <<trades, counter, link, confirmed, offered, failed, faults>>

\* Approval and closing take a trade out of the search, rejection puts it back.
Away(t) ==
    /\ trades' = [trades EXCEPT ![t].away = ~@]
    /\ UNCHANGED <<counter, link, confirmed, offered, failed, work, faults>>

-----------------------------------------------------------------------------
(* evaluate_match.                                                         *)

Found(p, outcome, t) ==
    Become(p, [work[p] EXCEPT !.pc = "link", !.outcome = outcome,
                              !.target = t, !.row = trades[t]])

\* The search of a confirmation, in the order of the code.
SearchConfirmed(p) ==
    LET d == work[p].doc
        twins == Duplicates(d)
        likely == {t \in Best(d) : Band(Against(d, t)) = "auto"}
        doubtful == {t \in Best(d) : Band(Against(d, t)) = "suggested"}
    IN /\ \/ work[p].known # NoTrade /\ Found(p, "linked", work[p].known)
          \/ /\ work[p].known = NoTrade /\ twins # {}
             /\ \E o \in twins : Found(p, "duplicate", link[o])
          \/ /\ work[p].known = NoTrade /\ twins = {}
             /\ \/ ~HasReference(d) /\ Become(p, Idle)
                \/ HasReference(d) /\ \E t \in Named(d) : Found(p, "auto", t)
                \/ /\ HasReference(d) /\ Named(d) = {}
                   /\ \/ \E t \in likely : Found(p, "auto", t)
                      \/ likely = {} /\ doubtful # {} /\ Become(p, Idle)
                      \/ /\ likely = {} /\ doubtful = {}
                         /\ Become(p, Opening(work[p], d, Says[d].batch))
       /\ offered' = IF work'[p] = Idle /\ HasReference(d) THEN offered \cup {d}
                                                           ELSE offered \ {d}
       /\ failed' = failed \ {d}

\* The outcome resolve_suggestion insists on.
StillDoubtful(d) ==
    /\ Duplicates(d) = {} /\ HasReference(d) /\ Named(d) = {}
    /\ \E t \in Best(d) : Band(Against(d, t)) = "suggested"

SearchDecided(p) ==
    LET d == work[p].doc
    IN /\ \/ ~StillDoubtful(d) /\ Become(p, Idle)
          \/ /\ StillDoubtful(d) /\ work[p].ask = "reject"
             /\ Become(p, Opening(work[p], d, Says[d].batch))
          \/ /\ StillDoubtful(d) /\ work[p].ask = "accept"
             /\ \E t \in Offer(d) : Found(p, "auto", t)
       /\ UNCHANGED <<offered, failed>>

Search(p) ==
    /\ work[p].pc = "search"
    /\ IF work[p].ask = "confirm" THEN SearchConfirmed(p) ELSE SearchDecided(p)
    /\ UNCHANGED <<trades, counter, link, confirmed, faults>>

-----------------------------------------------------------------------------
(* apply_match.                                                            *)

\* link_document: its flush waits for the rows.
Link(p) ==
    /\ work[p].pc = "link"
    /\ \A o \in Others(p) : ~HoldsRow(o, work[p].target) /\ ~HoldsDoc(o, work[p].doc)
    /\ Become(p, [work[p] EXCEPT !.pc = "adopt"])
    /\ UNCHANGED <<trades, counter, link, confirmed, offered, failed, faults>>

\* Slip: a stated number gives way like an allocated one.
AdoptAnyNumber(p) ==
    LET stated == Says[work[p].doc].batch
    IN /\ work[p].pc = "adopt"
       /\ IF stated # NoNumber /\ Named(work[p].doc) = {}
          THEN Become(p, [work[p] EXCEPT !.pc = "index", !.number = stated,
                              !.row.source = "document"])
          ELSE Become(p, [work[p] EXCEPT !.pc = "commit"])
       /\ UNCHANGED <<trades, counter, link, confirmed, offered, failed, faults>>

\* adopt_stated_batch_number, by the copy of the row the search has loaded.
Adopt(p) ==
    LET stated == Says[work[p].doc].batch
    IN /\ work[p].pc = "adopt"
       /\ IF stated # NoNumber /\ work[p].row.source = "allocated" /\ Named(work[p].doc) = {}
          THEN Become(p, [work[p] EXCEPT !.pc = "index", !.number = stated,
                              !.row.source = "document"])
          ELSE Become(p, [work[p] EXCEPT !.pc = "commit"])
       /\ UNCHANGED <<trades, counter, link, confirmed, offered, failed, faults>>

\* next_batch_number: the counter's row is taken until the commit, and numbers
\* that committed trades go by are passed over, MaxAttempts at most.
Number(p) ==
    LET taken == {trades[t].batch : t \in Trades}
        free == {n \in counter..(counter + MaxAttempts - 1) : n \notin taken}
        number == CHOOSE n \in free : \A o \in free : n <= o
    IN /\ work[p].pc = "number"
       /\ \A o \in Others(p) : ~HoldsCounter(o)
       /\ \/ free = {} /\ Raise(p)
          \/ /\ free # {} /\ UNCHANGED failed
             /\ Become(p, [work[p] EXCEPT !.pc = "index", !.number = number,
                        !.row = [NewRow(work[p].doc, number) EXCEPT !.source = "allocated"]])
       /\ UNCHANGED <<trades, counter, link, confirmed, offered, faults>>

\* A committed row that has the number: only a new row has a code to clash.
Clash(p) ==
    \E t \in Trades :
        \/ trades[t].batch = work[p].number /\ t # work[p].target
        \/ work[p].outcome = "new" /\ trades[t].code = work[p].number

\* The flush that writes the number waits for a session that holds it, and
\* fails on a committed one.
Index(p) ==
    /\ work[p].pc = "index"
    /\ \A o \in Others(p) : ~HoldsKey(o, work[p].number) /\ ~HoldsDoc(o, work[p].doc)
    /\ \/ Clash(p) /\ Raise(p)
       \/ ~Clash(p) /\ Become(p, [work[p] EXCEPT !.pc = "commit"]) /\ UNCHANGED failed
    /\ UNCHANGED <<trades, counter, link, confirmed, offered, faults>>

\* apply_supersession and _enrich_leg, again by the copy.
Supersedes(row, d) == Says[d].invoice = "final" /\ row.invoice = "provisional"

\* Slip: the containers a duplicate quotes are taken for known.
BoxlessDuplicate(row, request) ==
    [row EXCEPT !.boxes = IF request.outcome = "duplicate" THEN @
                          ELSE @ \cup Says[request.doc].boxes]

\* Only the columns the session has changed are written; a duplicate brings no
\* figures, though it may bring the number.
Written(row, request) ==
    LET d == request.doc
        copy == request.row
        figures == request.outcome # "duplicate"
        final == figures /\ Supersedes(copy, d)
    IN [row EXCEPT
        !.batch = IF request.number # NoNumber THEN request.number ELSE @,
        !.source = IF request.number # NoNumber THEN copy.source ELSE @,
        !.invoice = IF final THEN "final" ELSE @,
        !.amount = IF figures /\ Says[d].amount /\ (final \/ copy.amount = NoDoc) THEN d ELSE @,
        !.terms = IF figures /\ Says[d].contract /\ copy.terms = NoDoc THEN d ELSE @,
        !.boxes = @ \cup Says[d].boxes]

\* One commit for the trade, the links and the counter.
Commit(p) ==
    LET request == work[p]
        id == Len(trades) + 1
    IN /\ request.pc = "commit" /\ Become(p, Idle)
       /\ IF request.outcome = "new"
          THEN /\ id <= MaxTrades
               /\ trades' = Append(trades, request.row)
               /\ link' = [d \in Docs |-> IF d = request.doc THEN id ELSE link[d]]
               /\ counter' = IF request.row.source = "allocated"
                             THEN request.number + 1 ELSE counter
          ELSE /\ trades' = [trades EXCEPT ![request.target] = Written(@, request)]
               /\ link' = IF request.outcome = "linked" THEN link
                          ELSE [link EXCEPT ![request.doc] = request.target]
               /\ UNCHANGED counter
       /\ offered' = offered \ {request.doc}
       /\ UNCHANGED <<confirmed, failed, faults>>

\* The database fails in the middle of a request.
Break(p) ==
    /\ work[p].pc \notin {"idle"} /\ faults < MaxFaults
    /\ faults' = faults + 1 /\ Raise(p)
    /\ UNCHANGED <<trades, counter, link, confirmed, offered>>

Next ==
    \/ \E t \in Trades : Away(t)
    \/ \E p \in People :
        \/ \E d \in Docs, t \in Trades : Upload(p, d, t)
        \/ \E d \in Docs : Confirm(p, d)
        \/ \E d \in Docs, decision \in {"accept", "reject"} : Resolve(p, d, decision)
        \/ \E n \in HandNumbers \cup {NoNumber} : Register(p, n)
        \/ Search(p) \/ Link(p) \/ Adopt(p) \/ Number(p) \/ Index(p)
        \/ Commit(p) \/ Break(p)

Spec == Init /\ [][Next]_vars

-----------------------------------------------------------------------------
\* No two trades share a batch number or a code, however allocations, stated
\* numbers and adoptions race.
NumbersAreUnique ==
    \A t, o \in Trades :
        trades[t].batch = trades[o].batch \/ trades[t].code = trades[o].code => t = o

\* A confirmed document is linked, or it is in the hands of a request, waits on
\* a person, has no reference, or its matching raised: nothing else is lost.
UnlinkedIsAccountedFor ==
    \A d \in confirmed :
        \/ link[d] # NoTrade \/ d \in offered \cup failed \/ ~HasReference(d)
        \/ \E p \in People : work[p].doc = d

\* Every trade that a document opened keeps a document.
NoTradeWithoutDocument ==
    \A t \in Trades : trades[t].opener # NoDoc => \E d \in Docs : link[d] = t

\* The containers a confirmed document quotes are recorded with the trade it is
\* linked to, whichever way the link was made: BR-03 looks for them there.
BoxesFollowDocuments ==
    \A d \in confirmed :
        \/ link[d] = NoTrade \/ d \in failed \/ \E p \in People : work[p].doc = d
        \/ Says[d].boxes \subseteq trades[link[d]].boxes

\* trade.py: a placeholder is adopted onto the stated reference and a stated
\* one never moves.
StatedStands ==
    \A t \in Trades :
        trades[t].source = "document" => trades'[t].batch = trades[t].batch

StatedNumberStands == [][StatedStands]_vars

\* A later document never rewrites a figure an earlier one has established; the
\* final invoice does so once, over provisional figures.
FiguresStay ==
    \A t \in Trades :
        \/ trades[t].amount = NoDoc \/ trades'[t].amount = trades[t].amount
        \/ trades[t].invoice = "provisional" /\ trades'[t].invoice = "final"

FiguresStand == [][FiguresStay]_vars

\* A confirmed document is linked or on its way, its containers follow it, and,
\* one person at a time, no trade is left without the document that opened it.
DocumentsAreAccountedFor ==
    /\ UnlinkedIsAccountedFor /\ BoxesFollowDocuments
    /\ (\A p, q \in People : p = q) => NoTradeWithoutDocument

\* A document never opens a trade while a copy of it is linked to one.
CopyIsRecognised ==
    Len(trades') > Len(trades) =>
        \A d, o \in Docs :
            link'[d] = Len(trades') /\ d # o /\ Says[o].content = Says[d].content =>
                link[o] = NoTrade

CopyOpensNothing == [][CopyIsRecognised]_vars

-----------------------------------------------------------------------------
(* The inductive invariants behind these: what a request holds, the keys     *)
(* and the documents whoever is at work, and the copy one person works by.   *)

Known == {"linked", "duplicate", "auto"}

\* A request knows a row of an open trade, or has made the row of a new one.
RequestInHand(p) ==
    LET w == work[p]
    IN /\ w.pc = "idle" => w = Idle
       /\ w.pc # "idle" /\ w.ask # "register" => w.doc \in Docs
       /\ w.pc = "search" => w.ask # "register" /\ w.outcome = "none" /\ w.known <= Len(trades)
       /\ w.ask # "confirm" => w.known = NoTrade
       /\ w.pc \in {"search", "number"} => w.number = NoNumber
       /\ w.pc = "number" => w.outcome = "new"
       /\ w.pc \in {"link", "adopt"} => w.outcome \in Known /\ w.number = NoNumber
       /\ w.pc \in {"link", "adopt", "index", "commit"} => w.row \in TradeRow
       /\ w.outcome \in Known => w.target \in Trades /\ w.ask # "register"
       /\ w.outcome \notin Known => w.target = NoTrade
       /\ w.pc \in {"index", "commit"} =>
            \/ w.outcome \in Known
            \/ /\ w.outcome = "new" /\ w.row.batch = w.number /\ w.row.code = w.number
               /\ w.row.opener = w.doc
               /\ w.doc \in Docs => w.row.boxes = Says[w.doc].boxes

\* The unique indexes: a flushed number is one session's, and no committed row's.
NumbersAreHeldOnce ==
    \A p \in People : work[p].pc = "commit" /\ work[p].number # NoNumber =>
        ~Clash(p) /\ \A o \in Others(p) : ~HoldsKey(o, work[p].number)

\* Whoever has confirmed a document, or has got further, ends with it linked or raised.
Pursued(d) ==
    \E p \in People : work[p].doc = d /\ (work[p].ask = "confirm" \/ work[p].pc # "search")

DocumentsAreInHand ==
    /\ \A d \in Docs : link[d] <= Len(trades)
    /\ \A d \in confirmed :
        link[d] # NoTrade \/ d \in offered \cup failed \/ ~HasReference(d) \/ Pursued(d)
    /\ \A p \in People :
        /\ work[p].outcome = "linked" => work[p].target = work[p].known
        /\ work[p].known # NoTrade => link[work[p].doc] # NoTrade

\* What changes a link behind a request's back brings the containers along.
BoxesComeAlong ==
    /\ BoxesFollowDocuments
    /\ \A p \in People : LET d == work[p].doc IN
        d # NoDoc => \/ link[d] = work[p].known
                    \/ Says[d].boxes \subseteq trades[link[d]].boxes

MatchInv ==
    /\ TypeOK /\ \A p \in People : RequestInHand(p)
    /\ NumbersAreUnique /\ NumbersAreHeldOnce
    /\ DocumentsAreInHand /\ BoxesComeAlong

\* One person at a time: a document is not linked behind the request's back, no
\* copy of one that opens a trade is, and the copy of a row is the row.
LonePerson ==
    /\ NoTradeWithoutDocument
    /\ \A p \in People :
        LET w == work[p]
        IN /\ w.doc # NoDoc => link[w.doc] = w.known
           /\ w.outcome \in {"duplicate", "auto", "new"} => w.known = NoTrade
           /\ w.outcome = "new" /\ w.doc # NoDoc => Duplicates(w.doc) = {}
           /\ w.outcome \in Known =>
                /\ w.row.amount = trades[w.target].amount
                /\ w.row.invoice = trades[w.target].invoice
                /\ w.pc \in {"link", "adopt"} => w.row.source = trades[w.target].source
                /\ w.number # NoNumber => trades[w.target].source = "allocated"

LoneInv == MatchInv /\ LonePerson
=============================================================================
