------------------------ MODULE DocumentMatchingProofs ------------------------
(***************************************************************************)
(* Proofs about DocumentMatching, for every set of documents and people,   *)
(* whatever the documents state and however they compare.                  *)
(***************************************************************************)
EXTENDS DocumentMatching, SequenceTheorems, WellFoundedInduction, TLAPS

LEMMA ConstantFacts ==
  ASSUME MatchConstants
  PROVE  /\ MaxAttempts \in Nat /\ MaxTrades \in Nat /\ MaxFaults \in Nat
         /\ NoDoc \notin Docs /\ HandNumbers \subseteq Numbers
         /\ \A d \in Docs : Says[d].batch \in Numbers \cup {NoNumber}
         /\ \A d \in Docs : Says[d].boxes \subseteq Boxes
BY DEF MatchConstants, Numbers, NoNumber, Boxes

\* A set of numbers has a least one.
LEMMA HasLeast ==
  ASSUME NEW S \in SUBSET Nat, S # {}
  PROVE  \E n \in S : \A o \in S : n <= o
<1>1. IsWellFoundedOn(OpToRel(<, Nat), Nat)
  BY NatLessThanWellFounded
<1>2. PICK n \in S : \A o \in S : ~(<<o, n>> \in OpToRel(<, Nat))
  BY <1>1, WFMin, Zenon
<1>3. \A o \in S : ~(o < n)
  BY <1>2 DEF OpToRel
<1> QED BY <1>3

\* The blank request of a person who asks for nothing.
LEMMA IdleIsRequest ==
  ASSUME MatchConstants
  PROVE  Idle \in Request
BY ConstantFacts DEF Idle, Request, Row, NoTrade

\* A new row, whoever opens the trade.
LEMMA NewRowFacts ==
  ASSUME MatchConstants, NEW d \in Docs \cup {NoDoc}, NEW n \in Numbers
  PROVE  /\ NewRow(d, n) \in TradeRow
         /\ NewRow(d, n).batch = n /\ NewRow(d, n).code = n /\ NewRow(d, n).opener = d
         /\ d \in Docs => NewRow(d, n).boxes = Says[d].boxes
BY ConstantFacts DEF NewRow, TradeRow

\* One row of the table is written.
LEMMA RowWritten ==
  ASSUME TypeOK, NEW t \in Trades, NEW row \in TradeRow,
         trades' = [trades EXCEPT ![t] = row]
  PROVE  /\ trades' \in Seq(TradeRow) /\ Len(trades') = Len(trades) /\ Trades' = Trades
         /\ trades'[t] = row /\ \A o \in Trades : o # t => trades'[o] = trades[o]
<1>1. trades \in Seq(TradeRow) /\ t \in 1..Len(trades)
  BY DEF TypeOK, Trades
<1>2. trades' \in Seq(TradeRow) /\ Len(trades') = Len(trades)
  BY <1>1, ExceptSeq
<1> QED BY <1>1, <1>2 DEF Trades

LEMMA RowAppended ==
  ASSUME TypeOK, NEW row \in TradeRow, trades' = Append(trades, row)
  PROVE  /\ trades' \in Seq(TradeRow) /\ Len(trades') = Len(trades) + 1
         /\ Trades' = Trades \cup {Len(trades) + 1} /\ Len(trades) + 1 \notin Trades
         /\ trades'[Len(trades) + 1] = row
         /\ \A o \in Trades : trades'[o] = trades[o]
<1>1. trades \in Seq(TradeRow) /\ Len(trades) \in Nat
  BY DEF TypeOK
<1> QED BY <1>1 DEF Trades

LEMMA RequestFacts ==
  ASSUME MatchInv, NEW p \in People
  PROVE  /\ work[p] \in Request /\ RequestInHand(p)
         /\ work[p].doc \in Docs \cup {NoDoc} /\ work[p].known \in 0..MaxTrades
         /\ work[p].number \in Numbers \cup {NoNumber} /\ work[p].row \in Row
         /\ work[p].target \in 0..MaxTrades
BY DEF MatchInv, TypeOK, Request

-----------------------------------------------------------------------------
(* A step that commits nothing: one request begins, goes on or ends.       *)

Working(p, r) ==
    work' = [work EXCEPT ![p] = r] /\ UNCHANGED <<trades, counter, link>>

LEMMA WorkKeeps ==
  ASSUME MatchInv, NEW p \in People, NEW r \in Request, Working(p, r), RequestInHand(p)',
         confirmed' \subseteq Docs, offered' \subseteq Docs, failed' \subseteq Docs,
         faults' \in 0..MaxFaults,
         r.pc = "commit" /\ r.number # NoNumber =>
            ~Clash(p)' /\ \A o \in Others(p) : ~HoldsKey(o, r.number),
         DocumentsAreInHand', BoxesComeAlong'
  PROVE  MatchInv'
<1>1. work'[p] = r /\ \A o \in Others(p) : work'[o] = work[o]
  BY DEF Working, MatchInv, TypeOK, Others
<1>2. TypeOK'
  BY DEF Working, MatchInv, TypeOK
<1>3. NumbersAreUnique'
  BY DEF Working, MatchInv, NumbersAreUnique, Trades
<1>4. ASSUME NEW o \in People PROVE RequestInHand(o)'
  <2>1. CASE o = p
    BY <2>1
  <2>2. CASE o # p
    <3>1. work'[o] = work[o] /\ RequestInHand(o)
      BY <1>1, <2>2 DEF Others, MatchInv
    <3> QED BY <3>1 DEF RequestInHand, Working, Trades
  <2> QED BY <2>1, <2>2
<1>5. NumbersAreHeldOnce'
  <2>1. \A o \in Others(p) : Clash(o)' = Clash(o)
    BY <1>1 DEF Clash, Working, Trades
  <2>2. \A o \in Others(p), n \in Numbers \cup {NoNumber} : HoldsKey(o, n)' <=> HoldsKey(o, n)
    BY <1>1 DEF HoldsKey
  <2>3. \A n \in Numbers \cup {NoNumber} :
           HoldsKey(p, n)' <=> r.pc = "commit" /\ r.number = n /\ n # NoNumber
    BY <1>1 DEF HoldsKey
  <2>4. \A o \in People : work[o].number \in Numbers \cup {NoNumber}
    BY RequestFacts
  <2>5. r.number \in Numbers \cup {NoNumber}
    BY DEF Request
  <2> QED BY <1>1, <2>1, <2>2, <2>3, <2>4, <2>5 DEF MatchInv, NumbersAreHeldOnce, Others, HoldsKey
<1> QED BY <1>2, <1>3, <1>4, <1>5 DEF MatchInv

\* A request that begins.
LEMMA Begins ==
  ASSUME MatchInv, MatchConstants, NEW p \in People, NEW r \in Request, Working(p, r),
         work[p] = Idle, UNCHANGED <<offered, failed>>,
         confirmed' \in {confirmed, confirmed \cup {r.doc}},
         r.doc \in Docs => r.known = link[r.doc],
         r.doc \notin Docs => r.known = NoTrade /\ confirmed' = confirmed,
         r.ask = "confirm" \/ confirmed' = confirmed,
         r.outcome # "linked"
  PROVE  DocumentsAreInHand' /\ BoxesComeAlong'
<1>1. work'[p] = r /\ \A o \in Others(p) : work'[o] = work[o]
  BY DEF Working, MatchInv, TypeOK, Others
<1>2. NoDoc \notin Docs /\ confirmed \subseteq Docs
  BY ConstantFacts DEF MatchInv, TypeOK
<1>3. work[p].doc = NoDoc /\ r.doc \in Docs \cup {NoDoc}
  BY DEF Idle, Request
<1>4. DocumentsAreInHand'
  <2>1. \A d \in confirmed : Pursued(d) => Pursued(d)'
    BY <1>1, <1>2, <1>3 DEF Pursued, Others
  <2>2. r.ask = "confirm" => Pursued(r.doc)'
    BY <1>1 DEF Pursued
  <2> QED BY <1>1, <2>1, <2>2, RequestFacts DEF DocumentsAreInHand, MatchInv, Working, Others
<1>5. BoxesComeAlong'
  <2>1. \A o \in People : o # p => work'[o] = work[o]
    BY <1>1 DEF Others
  <2> QED BY <1>1, <1>2, <1>3, <2>1 DEF BoxesComeAlong, BoxesFollowDocuments, MatchInv, Working
<1> QED BY <1>4, <1>5

\* A request that goes on with what it is about.
LEMMA GoesOn ==
  ASSUME MatchInv, MatchConstants, NEW p \in People, NEW r \in Request, Working(p, r),
         r.doc = work[p].doc, r.known = work[p].known, r.ask = work[p].ask,
         r.ask = "confirm" \/ r.pc # "search",
         offered \ {r.doc} \subseteq offered', failed \ {r.doc} \subseteq failed',
         UNCHANGED confirmed,
         r.outcome = "linked" => r.target = r.known
  PROVE  DocumentsAreInHand' /\ BoxesComeAlong'
<1>1. work'[p] = r /\ \A o \in Others(p) : work'[o] = work[o]
  BY DEF Working, MatchInv, TypeOK, Others
<1>2. NoDoc \notin Docs /\ confirmed \subseteq Docs
  BY ConstantFacts DEF MatchInv, TypeOK
<1>3. DocumentsAreInHand'
  <2>1. \A d \in confirmed : Pursued(d) => Pursued(d)'
    BY <1>1 DEF Pursued, Others
  <2>2. Pursued(r.doc)'
    BY <1>1 DEF Pursued
  <2> QED BY <1>1, <2>1, <2>2 DEF DocumentsAreInHand, MatchInv, Working, Others
<1>4. BoxesComeAlong'
  <2>1. \A o \in People : o # p => work'[o] = work[o]
    BY <1>1 DEF Others
  <2> QED BY <1>1, <1>2, <2>1 DEF BoxesComeAlong, BoxesFollowDocuments, MatchInv, Working
<1> QED BY <1>3, <1>4

\* A request that ends with nothing written: raised, or it was not linked before
\* and leaves the document where it is accounted for.
LEMMA EndsUnwritten ==
  ASSUME MatchInv, MatchConstants, NEW p \in People, Working(p, Idle), UNCHANGED confirmed,
         offered \ {work[p].doc} \subseteq offered', failed \ {work[p].doc} \subseteq failed',
         \/ work[p].doc \in failed'
         \/ work[p].doc \notin Docs
         \/ /\ work[p].known = NoTrade
            /\ \/ work[p].doc \in offered' \/ ~HasReference(work[p].doc)
               \/ /\ UNCHANGED <<offered, failed>>
                  /\ work[p].ask # "confirm" /\ work[p].pc = "search"
  PROVE  DocumentsAreInHand' /\ BoxesComeAlong'
<1> DEFINE e == work[p].doc
<1>1. work'[p] = Idle /\ \A o \in Others(p) : work'[o] = work[o]
  BY DEF Working, MatchInv, TypeOK, Others
<1>2. NoDoc \notin Docs /\ confirmed \subseteq Docs
  BY ConstantFacts DEF MatchInv, TypeOK
<1>3. DocumentsAreInHand'
  <2>1. ASSUME NEW d \in confirmed
        PROVE  \/ link[d] # NoTrade \/ d \in offered' \cup failed' \/ ~HasReference(d)
               \/ Pursued(d)'
    <3>1. link[d] # NoTrade \/ d \in offered \cup failed \/ ~HasReference(d) \/ Pursued(d)
      BY DEF MatchInv, DocumentsAreInHand
    <3>2. CASE d # e
      BY <1>1, <3>1, <3>2 DEF Pursued, Others
    <3>3. CASE d = e
      BY <1>1, <1>2, <3>1, <3>3 DEF Pursued, Others
    <3> QED BY <3>2, <3>3
  <2>2. \A d \in Docs : link'[d] <= Len(trades')
    BY DEF Working, MatchInv, DocumentsAreInHand
  <2>3. ASSUME NEW o \in People
        PROVE  /\ work'[o].outcome = "linked" => work'[o].target = work'[o].known
               /\ work'[o].known # NoTrade => link'[work'[o].doc] # NoTrade
    BY <1>1 DEF Working, MatchInv, DocumentsAreInHand, Others, Idle
  <2> QED BY <2>1, <2>2, <2>3 DEF DocumentsAreInHand, Working, HasReference
<1>4. BoxesComeAlong'
  <2>1. \A o \in People : o # p => work'[o] = work[o]
    BY <1>1 DEF Others
  <2>2. Idle.doc = NoDoc
    BY DEF Idle
  <2> QED BY <1>1, <1>2, <2>1, <2>2 DEF BoxesComeAlong, BoxesFollowDocuments, MatchInv, Working
<1> QED BY <1>3, <1>4

-----------------------------------------------------------------------------
(* The requests.                                                           *)

\* A request for a new trade, with the number stated or none yet.
LEMMA OpeningFacts ==
  ASSUME MatchConstants, NEW q \in Request, NEW d \in Docs \cup {NoDoc},
         NEW n \in Numbers \cup {NoNumber}
  PROVE  LET r == Opening(q, d, n)
         IN /\ r \in Request /\ r.outcome = "new" /\ r.number = n
            /\ r.doc = q.doc /\ r.known = q.known /\ r.ask = q.ask /\ r.target = q.target
            /\ \/ n = NoNumber /\ r.pc = "number"
               \/ /\ n # NoNumber /\ r.pc = "index" /\ r.row \in TradeRow
                  /\ r.row.batch = n /\ r.row.code = n /\ r.row.opener = d
                  /\ d \in Docs => r.row.boxes = Says[d].boxes
<1>1. NoNumber \notin Numbers
  BY DEF Numbers
<1>2. CASE n = NoNumber
  BY <1>2 DEF Opening, Request, Row
<1>3. CASE n # NoNumber
  <2> DEFINE row == NewRow(d, n)
  <2>1. /\ row \in TradeRow /\ row.batch = n /\ row.code = n /\ row.opener = d
        /\ d \in Docs => row.boxes = Says[d].boxes
    BY <1>3, NewRowFacts
  <2>2. Opening(q, d, n) = [q EXCEPT !.outcome = "new", !.number = n, !.pc = "index", !.row = row]
    BY <1>3 DEF Opening
  <2> HIDE DEF row
  <2> QED BY <1>3, <2>1, <2>2 DEF Request, Row
<1> QED BY <1>2, <1>3

LEMMA ConfirmStep ==
  ASSUME MatchInv, MatchConstants, NEW p \in People, NEW d \in Docs, Confirm(p, d)
  PROVE  MatchInv'
<1> DEFINE r == [Idle EXCEPT !.pc = "search", !.ask = "confirm", !.doc = d, !.known = link[d]]
<1>1. link[d] \in 0..MaxTrades /\ link[d] <= Len(trades)
  BY DEF MatchInv, TypeOK, DocumentsAreInHand
<1>2. /\ r \in Request /\ r.pc = "search" /\ r.ask = "confirm" /\ r.doc = d
      /\ r.known = link[d] /\ r.outcome = "none" /\ r.target = NoTrade /\ r.number = NoNumber
  BY <1>1, IdleIsRequest DEF Idle, Request
<1> HIDE DEF r
<1>3. /\ work[p] = Idle /\ confirmed' = confirmed \cup {d} /\ Working(p, r)
      /\ UNCHANGED <<offered, failed, faults>>
  BY DEF Confirm, Working, Become, r
<1>4. work'[p] = r
  BY <1>3 DEF Working, MatchInv, TypeOK
<1>5. RequestInHand(p)'
  BY <1>1, <1>2, <1>3, <1>4 DEF RequestInHand, Working, Known
<1>6. DocumentsAreInHand' /\ BoxesComeAlong'
  BY <1>2, <1>3, Begins
<1> QED BY <1>2, <1>3, <1>5, <1>6, WorkKeeps DEF MatchInv, TypeOK

LEMMA ResolveStep ==
  ASSUME MatchInv, MatchConstants, NEW p \in People, NEW d \in Docs,
         NEW decision \in {"accept", "reject"}, Resolve(p, d, decision)
  PROVE  MatchInv'
<1> DEFINE r == [Idle EXCEPT !.pc = "search", !.ask = decision, !.doc = d]
<1>1. /\ r \in Request /\ r.pc = "search" /\ r.ask = decision /\ r.doc = d
      /\ r.known = NoTrade /\ r.outcome = "none" /\ r.target = NoTrade /\ r.number = NoNumber
  BY IdleIsRequest DEF Idle, Request
<1> HIDE DEF r
<1>2. /\ work[p] = Idle /\ link[d] = NoTrade /\ Working(p, r)
      /\ UNCHANGED <<confirmed, offered, failed, faults>>
  BY DEF Resolve, Working, Become, r
<1>3. work'[p] = r /\ Len(trades) \in Nat
  BY <1>2 DEF Working, MatchInv, TypeOK
<1>4. RequestInHand(p)'
  BY <1>1, <1>2, <1>3 DEF RequestInHand, Working, Known, NoTrade
<1>5. DocumentsAreInHand' /\ BoxesComeAlong'
  BY <1>1, <1>2, Begins
<1> QED BY <1>1, <1>2, <1>4, <1>5, WorkKeeps DEF MatchInv, TypeOK

LEMMA RegisterStep ==
  ASSUME MatchInv, MatchConstants, NEW p \in People, NEW n \in HandNumbers \cup {NoNumber},
         Register(p, n)
  PROVE  MatchInv'
<1> DEFINE q == [Idle EXCEPT !.ask = "register"]
           r == Opening(q, NoDoc, n)
<1>1. /\ q \in Request /\ q.doc = NoDoc /\ q.known = NoTrade /\ q.ask = "register"
      /\ q.target = NoTrade
  BY IdleIsRequest DEF Idle, Request
<1> HIDE DEF q
<1>2. n \in Numbers \cup {NoNumber} /\ NoDoc \notin Docs
  BY ConstantFacts
<1>3. /\ r \in Request /\ r.outcome = "new" /\ r.number = n
      /\ r.doc = NoDoc /\ r.known = NoTrade /\ r.ask = "register" /\ r.target = NoTrade
      /\ \/ n = NoNumber /\ r.pc = "number"
         \/ /\ n # NoNumber /\ r.pc = "index" /\ r.row \in TradeRow
            /\ r.row.batch = n /\ r.row.code = n /\ r.row.opener = NoDoc
  BY <1>1, <1>2, OpeningFacts
<1> HIDE DEF r
<1>4. work[p] = Idle /\ Working(p, r) /\ UNCHANGED <<confirmed, offered, failed, faults>>
  BY DEF Register, Working, Become, r, q
<1>5. work'[p] = r
  BY <1>4 DEF Working, MatchInv, TypeOK
<1>6. RequestInHand(p)'
  BY <1>2, <1>3, <1>5 DEF RequestInHand, Known
<1>7. DocumentsAreInHand' /\ BoxesComeAlong'
  BY <1>2, <1>3, <1>4, Begins
<1> QED BY <1>3, <1>4, <1>6, <1>7, WorkKeeps DEF MatchInv, TypeOK

-----------------------------------------------------------------------------
(* The search.                                                             *)

\* A search that found a trade, opens one, or ends.
LEMMA SearchOutcome ==
  ASSUME MatchInv, MatchConstants, NEW p \in People, Search(p)
  PROVE  /\ work[p].pc = "search" /\ work[p].doc \in Docs
         /\ UNCHANGED <<trades, counter, link, confirmed, faults>>
         /\ offered' \subseteq offered \cup {work[p].doc} /\ failed' \subseteq failed
         /\ offered \ {work[p].doc} \subseteq offered' /\ failed \ {work[p].doc} \subseteq failed'
         /\ \/ \E outcome \in Known, t \in Trades :
                 /\ Found(p, outcome, t)
                 /\ outcome = "linked" => t = work[p].known
                 /\ outcome # "linked" /\ work[p].ask = "confirm" => work[p].known = NoTrade
            \/ /\ Become(p, Opening(work[p], work[p].doc, Says[work[p].doc].batch))
               /\ Duplicates(work[p].doc) = {}
               /\ work[p].ask = "confirm" => work[p].known = NoTrade
            \/ /\ Become(p, Idle)
               /\ \/ /\ work[p].ask = "confirm" /\ work[p].known = NoTrade
                     /\ work[p].doc \in offered' \/ ~HasReference(work[p].doc)
                  \/ work[p].ask # "confirm" /\ UNCHANGED <<offered, failed>>
<1> DEFINE d == work[p].doc
<1>1. /\ work[p].pc = "search" /\ d \in Docs /\ work[p].known \in 0..MaxTrades
      /\ work[p].known <= Len(trades) /\ UNCHANGED <<trades, counter, link, confirmed, faults>>
      /\ Len(trades) \in Nat
  BY RequestFacts DEF Search, RequestInHand, MatchInv, TypeOK
<1>2. \A o \in Docs : link[o] # NoTrade => link[o] \in Trades
  BY <1>1, ConstantFacts DEF MatchInv, TypeOK, DocumentsAreInHand, Trades, NoTrade
<1>3. CASE work[p].ask = "confirm"
  <2>1. SearchConfirmed(p)
    BY <1>3 DEF Search
  <2>2. /\ offered' = (IF work'[p] = Idle /\ HasReference(d) THEN offered \cup {d} ELSE offered \ {d})
        /\ failed' = failed \ {d}
    BY <2>1 DEF SearchConfirmed
  <2>3. CASE work[p].known # NoTrade /\ Found(p, "linked", work[p].known)
    <3>1. work[p].known \in Trades
      BY <1>1, <2>3, ConstantFacts DEF Trades, NoTrade
    <3> QED BY <1>1, <2>2, <2>3, <3>1 DEF Known
  <2>4. CASE work[p].known = NoTrade /\ \E o \in Duplicates(d) : Found(p, "duplicate", link[o])
    <3>1. PICK o \in Duplicates(d) : Found(p, "duplicate", link[o])
      BY <2>4
    <3>2. link[o] \in Trades
      BY <1>2 DEF Duplicates
    <3> QED BY <1>1, <2>2, <2>4, <3>1, <3>2 DEF Known
  <2>5. CASE work[p].known = NoTrade /\ ~HasReference(d) /\ Become(p, Idle)
    BY <1>1, <1>3, <2>2, <2>5
  <2>6. CASE /\ work[p].known = NoTrade
             /\ \E t \in Named(d) \cup Best(d) : Found(p, "auto", t)
    <3>1. Named(d) \cup Best(d) \subseteq Trades
      BY DEF Named, Best
    <3> QED BY <1>1, <2>2, <2>6, <3>1 DEF Known
  <2>7. CASE work[p].known = NoTrade /\ HasReference(d) /\ Become(p, Idle)
    <3>1. work'[p] = Idle
      BY <2>7 DEF Become, MatchInv, TypeOK
    <3> QED BY <1>1, <1>3, <2>2, <2>7, <3>1
  <2>8. CASE /\ work[p].known = NoTrade /\ Duplicates(d) = {}
             /\ Become(p, Opening(work[p], d, Says[d].batch))
    BY <1>1, <2>2, <2>8
  <2> QED BY <2>1, <2>3, <2>4, <2>5, <2>6, <2>7, <2>8 DEF SearchConfirmed
<1>4. CASE work[p].ask # "confirm"
  <2>1. SearchDecided(p) /\ UNCHANGED <<offered, failed>>
    BY <1>4 DEF Search, SearchDecided
  <2>2. Offer(d) \subseteq Trades
    BY DEF Offer
  <2>3. CASE Become(p, Idle)
    BY <1>1, <1>4, <2>1, <2>3
  <2>4. CASE Duplicates(d) = {} /\ Become(p, Opening(work[p], d, Says[d].batch))
    BY <1>1, <1>4, <2>1, <2>4
  <2>5. CASE \E t \in Offer(d) : Found(p, "auto", t)
    BY <1>1, <1>4, <2>1, <2>2, <2>5 DEF Known
  <2> QED BY <2>1, <2>3, <2>4, <2>5 DEF SearchDecided, StillDoubtful
<1> QED BY <1>3, <1>4

LEMMA SearchStep ==
  ASSUME MatchInv, MatchConstants, NEW p \in People, Search(p)
  PROVE  MatchInv'
<1> DEFINE d == work[p].doc
<1>1. /\ work[p] \in Request /\ work[p].pc = "search" /\ d \in Docs
      /\ work[p].ask # "register" /\ (work[p].ask # "confirm" => work[p].known = NoTrade)
      /\ work[p].number = NoNumber /\ NoDoc \notin Docs /\ NoNumber \notin Numbers
      /\ UNCHANGED <<trades, counter, link, confirmed, faults>>
      /\ confirmed' \subseteq Docs /\ offered' \subseteq Docs /\ failed' \subseteq Docs
      /\ faults' \in 0..MaxFaults
      /\ offered \ {d} \subseteq offered' /\ failed \ {d} \subseteq failed'
  BY RequestFacts, SearchOutcome, ConstantFacts DEF RequestInHand, MatchInv, TypeOK, Numbers
<1>2. ASSUME NEW outcome \in Known, NEW t \in Trades, Found(p, outcome, t),
             outcome = "linked" => t = work[p].known
      PROVE  MatchInv'
  <2> DEFINE r == [work[p] EXCEPT !.pc = "link", !.outcome = outcome, !.target = t, !.row = trades[t]]
  <2>1. trades[t] \in TradeRow /\ t \in 0..MaxTrades
    BY ConstantFacts DEF MatchInv, TypeOK, Trades
  <2>2. /\ r \in Request /\ r.pc = "link" /\ r.outcome = outcome /\ r.target = t
        /\ r.row = trades[t] /\ r.doc = d /\ r.known = work[p].known /\ r.ask = work[p].ask
        /\ r.number = NoNumber
    BY <1>1, <2>1 DEF Request, Row, Known
  <2> HIDE DEF r
  <2>3. Working(p, r)
    BY <1>1, <1>2 DEF Found, Become, Working, r
  <2>4. work'[p] = r /\ Trades' = Trades
    BY <2>3 DEF Working, MatchInv, TypeOK, Trades
  <2>5. RequestInHand(p)'
    BY <1>1, <2>1, <2>2, <2>4 DEF RequestInHand, Known
  <2>6. DocumentsAreInHand' /\ BoxesComeAlong'
    BY <1>1, <1>2, <2>2, <2>3, GoesOn
  <2> QED BY <1>1, <2>2, <2>3, <2>5, <2>6, WorkKeeps
<1>3. CASE Become(p, Opening(work[p], d, Says[d].batch))
  <2> DEFINE n == Says[d].batch
             r == Opening(work[p], d, n)
  <2>1. n \in Numbers \cup {NoNumber} /\ work[p].target = NoTrade
    BY <1>1, ConstantFacts, RequestFacts DEF RequestInHand, Known
  <2> HIDE DEF n
  <2>2. /\ r \in Request /\ r.outcome = "new" /\ r.number = n
        /\ r.doc = d /\ r.known = work[p].known /\ r.ask = work[p].ask /\ r.target = NoTrade
        /\ \/ n = NoNumber /\ r.pc = "number"
           \/ /\ n # NoNumber /\ r.pc = "index" /\ r.row \in TradeRow
              /\ r.row.batch = n /\ r.row.code = n /\ r.row.opener = d
              /\ d \in Docs => r.row.boxes = Says[d].boxes
    BY <1>1, <2>1, OpeningFacts
  <2> HIDE DEF r
  <2>3. Working(p, r)
    BY <1>1, <1>3 DEF Become, Working, r, n
  <2>4. work'[p] = r
    BY <2>3 DEF Working, MatchInv, TypeOK
  <2>5. RequestInHand(p)'
    BY <1>1, <2>2, <2>4 DEF RequestInHand, Known
  <2>6. DocumentsAreInHand' /\ BoxesComeAlong'
    BY <1>1, <2>2, <2>3, GoesOn
  <2> QED BY <1>1, <2>2, <2>3, <2>5, <2>6, WorkKeeps
<1>4. CASE /\ Become(p, Idle)
           /\ \/ /\ work[p].ask = "confirm" /\ work[p].known = NoTrade
                 /\ d \in offered' \/ ~HasReference(d)
              \/ work[p].ask # "confirm" /\ UNCHANGED <<offered, failed>>
  <2>1. Working(p, Idle) /\ Idle \in Request /\ Idle.pc = "idle" /\ Idle.outcome = "none"
        /\ Idle.target = NoTrade /\ Idle.known = NoTrade
    BY <1>1, <1>4, IdleIsRequest DEF Become, Working, Idle
  <2>2. work'[p] = Idle
    BY <2>1 DEF Working, MatchInv, TypeOK
  <2>3. RequestInHand(p)'
    BY <2>1, <2>2 DEF RequestInHand, Known
  <2>4. DocumentsAreInHand' /\ BoxesComeAlong'
    BY <1>1, <1>4, <2>1, EndsUnwritten
  <2> QED BY <1>1, <2>1, <2>3, <2>4, WorkKeeps
<1> QED BY <1>2, <1>3, <1>4, SearchOutcome

-----------------------------------------------------------------------------
(* Linking, numbering and flushing.                                        *)

LEMMA LinkStep ==
  ASSUME MatchInv, MatchConstants, NEW p \in People, Link(p)
  PROVE  MatchInv'
<1> DEFINE r == [work[p] EXCEPT !.pc = "adopt"]
<1>1. /\ work[p] \in Request /\ work[p].pc = "link" /\ RequestInHand(p)
      /\ UNCHANGED <<confirmed, offered, failed, faults>> /\ Working(p, r)
  BY RequestFacts DEF Link, Working, Become
<1>2. /\ r \in Request /\ r.pc = "adopt" /\ r.outcome = work[p].outcome
      /\ r.target = work[p].target /\ r.row = work[p].row /\ r.doc = work[p].doc
      /\ r.known = work[p].known /\ r.ask = work[p].ask /\ r.number = work[p].number
  BY <1>1 DEF Request
<1> HIDE DEF r
<1>3. work'[p] = r /\ Trades' = Trades
  BY <1>1 DEF Working, MatchInv, TypeOK, Trades
<1>4. RequestInHand(p)'
  BY <1>1, <1>2, <1>3 DEF RequestInHand, Known
<1>5. DocumentsAreInHand' /\ BoxesComeAlong'
  BY <1>1, <1>2, GoesOn DEF MatchInv, DocumentsAreInHand
<1> QED BY <1>1, <1>2, <1>4, <1>5, WorkKeeps DEF MatchInv, TypeOK

LEMMA AdoptStep ==
  ASSUME MatchInv, MatchConstants, NEW p \in People, Adopt(p)
  PROVE  MatchInv'
<1> DEFINE stated == Says[work[p].doc].batch
           adopted == [work[p].row EXCEPT !.source = "document"]
           r == IF stated # NoNumber /\ work[p].row.source = "allocated" /\ Named(work[p].doc) = {}
                THEN [work[p] EXCEPT !.pc = "index", !.number = stated, !.row = adopted]
                ELSE [work[p] EXCEPT !.pc = "commit"]
<1>1. /\ work[p] \in Request /\ work[p].pc = "adopt" /\ RequestInHand(p)
      /\ work[p].row \in TradeRow /\ work[p].outcome \in Known /\ work[p].number = NoNumber
      /\ work[p].doc \in Docs
      /\ UNCHANGED <<confirmed, offered, failed, faults>> /\ Working(p, r)
  BY RequestFacts DEF Adopt, Working, Become, RequestInHand
<1>2. stated \in Numbers \cup {NoNumber} /\ adopted \in TradeRow /\ NoNumber \notin Numbers
  BY <1>1, ConstantFacts DEF TradeRow, Numbers
<1> HIDE DEF stated, adopted
<1>3. /\ r \in Request /\ r.pc \in {"index", "commit"} /\ r.outcome = work[p].outcome
      /\ r.target = work[p].target /\ r.row \in TradeRow /\ r.doc = work[p].doc
      /\ r.known = work[p].known /\ r.ask = work[p].ask
      /\ r.pc = "commit" => r.number = NoNumber
  BY <1>1, <1>2 DEF Request, Row
<1> HIDE DEF r
<1>4. work'[p] = r /\ Trades' = Trades
  BY <1>1 DEF Working, MatchInv, TypeOK, Trades
<1>5. RequestInHand(p)'
  BY <1>1, <1>3, <1>4 DEF RequestInHand, Known
<1>6. DocumentsAreInHand' /\ BoxesComeAlong'
  BY <1>1, <1>3, GoesOn DEF MatchInv, DocumentsAreInHand
<1> QED BY <1>1, <1>3, <1>5, <1>6, WorkKeeps DEF MatchInv, TypeOK

\* A request that raises, wherever it is.
LEMMA RaiseStep ==
  ASSUME MatchInv, MatchConstants, NEW p \in People, Raise(p), work[p].pc # "idle",
         UNCHANGED <<trades, counter, link, confirmed, offered>>, faults' \in 0..MaxFaults
  PROVE  MatchInv'
<1>1. /\ Working(p, Idle) /\ Idle \in Request /\ Idle.pc = "idle" /\ Idle.outcome = "none"
      /\ Idle.target = NoTrade /\ Idle.known = NoTrade
  BY IdleIsRequest DEF Raise, Become, Working, Idle
<1>2. work'[p] = Idle
  BY <1>1 DEF Working, MatchInv, TypeOK
<1>3. RequestInHand(p)'
  BY <1>1, <1>2 DEF RequestInHand, Known
<1>4. /\ failed' = failed \cup ({work[p].doc} \ {NoDoc}) /\ failed' \subseteq Docs
      /\ work[p].doc \in failed' \/ work[p].doc \notin Docs
  BY RequestFacts, ConstantFacts DEF Raise, MatchInv, TypeOK
<1>5. DocumentsAreInHand' /\ BoxesComeAlong'
  BY <1>1, <1>4, EndsUnwritten
<1> QED BY <1>1, <1>3, <1>4, <1>5, WorkKeeps DEF MatchInv, TypeOK

LEMMA BreakStep ==
  ASSUME MatchInv, MatchConstants, NEW p \in People, Break(p)
  PROVE  MatchInv'
<1>1. faults' \in 0..MaxFaults
  BY ConstantFacts DEF Break, MatchInv, TypeOK
<1> QED BY <1>1, RaiseStep DEF Break

LEMMA NumberStep ==
  ASSUME MatchInv, MatchConstants, NEW p \in People, Number(p)
  PROVE  MatchInv'
<1> DEFINE taken == {trades[t].batch : t \in Trades}
           free == {n \in counter..(counter + MaxAttempts - 1) : n \notin taken}
           n == CHOOSE n \in free : \A o \in free : n <= o
           d == work[p].doc
           row == [NewRow(d, n) EXCEPT !.source = "allocated"]
           r == [work[p] EXCEPT !.pc = "index", !.number = n, !.row = row]
<1>1. /\ work[p] \in Request /\ work[p].pc = "number" /\ RequestInHand(p)
      /\ work[p].outcome = "new" /\ work[p].target = NoTrade
      /\ d \in Docs \cup {NoDoc} /\ NoDoc \notin Docs
      /\ UNCHANGED <<trades, counter, link, confirmed, offered, faults>>
  BY RequestFacts, ConstantFacts DEF Number, RequestInHand, Known
<1>2. CASE Raise(p)
  BY <1>1, <1>2, RaiseStep DEF MatchInv, TypeOK
<1>3. CASE free # {} /\ UNCHANGED failed /\ Become(p, r)
  <2>1. n \in Numbers
    <3>1. free \in SUBSET Nat /\ free \subseteq Numbers
      BY ConstantFacts DEF MatchInv, TypeOK, Numbers, NoNumber
    <3> HIDE DEF free
    <3>2. \E k \in free : \A o \in free : k <= o
      BY <1>3, <3>1, HasLeast
    <3>3. n \in free
      BY <3>2, Zenon
    <3> QED BY <3>1, <3>3
  <2> HIDE DEF n
  <2>2. /\ row \in TradeRow /\ row.batch = n /\ row.code = n /\ row.opener = d
        /\ d \in Docs => row.boxes = Says[d].boxes
    <3> DEFINE base == NewRow(d, n)
    <3>1. /\ base \in TradeRow /\ base.batch = n /\ base.code = n /\ base.opener = d
          /\ d \in Docs => base.boxes = Says[d].boxes
      BY <1>1, <2>1, NewRowFacts
    <3>2. row = [base EXCEPT !.source = "allocated"]
      OBVIOUS
    <3> HIDE DEF base, row
    <3> QED BY <3>1, <3>2 DEF TradeRow
  <2> HIDE DEF row
  <2>3. /\ r \in Request /\ r.pc = "index" /\ r.number = n /\ r.row = row
        /\ r.doc = d /\ r.known = work[p].known /\ r.ask = work[p].ask
        /\ r.target = NoTrade /\ r.outcome = "new"
    BY <1>1, <2>1, <2>2 DEF Request, Row
  <2> HIDE DEF r
  <2>4. Working(p, r)
    BY <1>1, <1>3 DEF Become, Working
  <2>5. work'[p] = r
    BY <2>4 DEF Working, MatchInv, TypeOK
  <2>6. RequestInHand(p)'
    BY <1>1, <2>2, <2>3, <2>5 DEF RequestInHand, Known
  <2>7. DocumentsAreInHand' /\ BoxesComeAlong'
    BY <1>1, <1>3, <2>3, <2>4, GoesOn
  <2> QED BY <1>1, <1>3, <2>3, <2>4, <2>6, <2>7, WorkKeeps DEF MatchInv, TypeOK
<1> QED BY <1>2, <1>3 DEF Number

LEMMA IndexStep ==
  ASSUME MatchInv, MatchConstants, NEW p \in People, Index(p)
  PROVE  MatchInv'
<1> DEFINE r == [work[p] EXCEPT !.pc = "commit"]
<1>1. /\ work[p] \in Request /\ work[p].pc = "index" /\ RequestInHand(p)
      /\ UNCHANGED <<trades, counter, link, confirmed, offered, faults>>
      /\ \A o \in Others(p) : ~HoldsKey(o, work[p].number)
  BY RequestFacts DEF Index
<1>2. CASE Raise(p)
  BY <1>1, <1>2, RaiseStep DEF MatchInv, TypeOK
<1>3. CASE ~Clash(p) /\ Become(p, r) /\ UNCHANGED failed
  <2>1. /\ r \in Request /\ r.pc = "commit" /\ r.outcome = work[p].outcome
        /\ r.target = work[p].target /\ r.row = work[p].row /\ r.doc = work[p].doc
        /\ r.known = work[p].known /\ r.ask = work[p].ask /\ r.number = work[p].number
    BY <1>1 DEF Request
  <2> HIDE DEF r
  <2>2. Working(p, r)
    BY <1>1, <1>3 DEF Become, Working
  <2>3. work'[p] = r /\ Trades' = Trades
    BY <2>2 DEF Working, MatchInv, TypeOK, Trades
  <2>4. RequestInHand(p)'
    BY <1>1, <2>1, <2>3 DEF RequestInHand, Known
  <2>5. ~Clash(p)'
    BY <1>3, <2>1, <2>2, <2>3 DEF Clash, Working
  <2>6. DocumentsAreInHand' /\ BoxesComeAlong'
    BY <1>1, <1>3, <2>1, <2>2, GoesOn DEF MatchInv, DocumentsAreInHand
  <2> QED BY <1>1, <1>3, <2>1, <2>2, <2>4, <2>5, <2>6, WorkKeeps DEF MatchInv, TypeOK
<1> QED BY <1>2, <1>3 DEF Index

-----------------------------------------------------------------------------
(* What is committed.                                                      *)

LEMMA UploadStep ==
  ASSUME MatchInv, MatchConstants, NEW p \in People, NEW d \in Docs, NEW t \in Trades,
         Upload(p, d, t)
  PROVE  MatchInv'
<1>1. /\ work[p] = Idle /\ link[d] = NoTrade /\ d \notin confirmed
      /\ \A o \in Others(p) : work[o].doc # d
      /\ link' = [link EXCEPT ![d] = t]
      /\ UNCHANGED <<trades, counter, confirmed, offered, failed, work, faults>>
  BY DEF Upload
<1>2. t \in 0..MaxTrades /\ t <= Len(trades) /\ t # NoTrade
  BY ConstantFacts DEF MatchInv, TypeOK, Trades, NoTrade
<1>3. \A o \in People : work[o].doc # d
  BY <1>1, ConstantFacts DEF Others, Idle
<1>4. /\ link' \in [Docs -> 0..MaxTrades] /\ link'[d] = t
      /\ \A e \in Docs : e # d => link'[e] = link[e]
  BY <1>1, <1>2 DEF MatchInv, TypeOK
<1>5. TypeOK'
  BY <1>1, <1>4 DEF MatchInv, TypeOK
<1>6. NumbersAreUnique' /\ NumbersAreHeldOnce' /\ \A o \in People : RequestInHand(o)'
  BY <1>1 DEF MatchInv, NumbersAreUnique, NumbersAreHeldOnce, RequestInHand, Trades, Clash, HoldsKey
<1>7. \A o \in People : work[o].known # NoTrade => work[o].doc \in Docs
  BY RequestFacts, <1>3 DEF RequestInHand, MatchInv, DocumentsAreInHand, Idle
<1>8. DocumentsAreInHand'
  BY <1>1, <1>2, <1>3, <1>4, <1>7 DEF MatchInv, DocumentsAreInHand, Pursued
<1>9. BoxesComeAlong'
  BY <1>1, <1>3, <1>4, RequestFacts DEF MatchInv, BoxesComeAlong, BoxesFollowDocuments, TypeOK
<1> QED BY <1>5, <1>6, <1>8, <1>9 DEF MatchInv

LEMMA AwayStep ==
  ASSUME MatchInv, MatchConstants, NEW t \in Trades, Away(t)
  PROVE  MatchInv'
<1> DEFINE row == [trades[t] EXCEPT !.away = ~trades[t].away]
<1>1. /\ trades' = [trades EXCEPT ![t] = row]
      /\ UNCHANGED <<counter, link, confirmed, offered, failed, work, faults>>
  BY DEF Away
<1>2. trades[t] \in TradeRow /\ TypeOK
  BY DEF MatchInv, TypeOK, Trades
<1>3. /\ row \in TradeRow /\ row.batch = trades[t].batch /\ row.code = trades[t].code
      /\ row.boxes = trades[t].boxes
  BY <1>2 DEF TradeRow
<1> HIDE DEF row
<1>4. /\ trades' \in Seq(TradeRow) /\ Len(trades') = Len(trades) /\ Trades' = Trades
      /\ \A o \in Trades : /\ trades'[o].batch = trades[o].batch /\ trades'[o].code = trades[o].code
                           /\ trades'[o].boxes = trades[o].boxes
  BY <1>1, <1>2, <1>3, RowWritten
<1>5. TypeOK'
  BY <1>1, <1>2, <1>4 DEF TypeOK
<1>6. NumbersAreUnique' /\ \A o \in People : RequestInHand(o)'
  BY <1>1, <1>4 DEF MatchInv, NumbersAreUnique, RequestInHand
<1>7. NumbersAreHeldOnce'
  BY <1>1, <1>4 DEF MatchInv, NumbersAreHeldOnce, Clash, HoldsKey
<1>8. DocumentsAreInHand'
  BY <1>1, <1>4 DEF MatchInv, DocumentsAreInHand, Pursued
<1>9. \A d \in Docs : link[d] # NoTrade => link[d] \in Trades
  BY ConstantFacts DEF MatchInv, TypeOK, DocumentsAreInHand, Trades, NoTrade
<1>10. BoxesComeAlong'
  <2>1. \A d \in Docs : \/ link[d] = NoTrade
                        \/ trades'[link[d]].boxes = trades[link[d]].boxes
    BY <1>4, <1>9
  <2>2. \A o \in People : work[o].doc \in Docs \cup {NoDoc}
    BY RequestFacts
  <2>3. \A o \in People : link[work[o].doc] = NoTrade => work[o].known = NoTrade
    BY DEF MatchInv, DocumentsAreInHand
  <2>4. BoxesFollowDocuments'
    BY <1>1, <1>2, <2>1 DEF MatchInv, BoxesComeAlong, BoxesFollowDocuments, TypeOK
  <2> QED BY <1>1, <2>1, <2>2, <2>3, <2>4 DEF MatchInv, BoxesComeAlong
<1> QED BY <1>5, <1>6, <1>7, <1>8, <1>10 DEF MatchInv

\* What a commit writes over a row.
LEMMA WrittenFacts ==
  ASSUME MatchConstants, NEW row \in TradeRow, NEW r \in Request,
         r.row \in TradeRow, r.doc \in Docs
  PROVE  LET new == Written(row, r)
         IN /\ new \in TradeRow /\ new.code = row.code /\ new.opener = row.opener
            /\ new.batch = (IF r.number # NoNumber THEN r.number ELSE row.batch)
            /\ new.source = (IF r.number # NoNumber THEN r.row.source ELSE row.source)
            /\ new.boxes = row.boxes \cup Says[r.doc].boxes
            /\ \/ new.amount = row.amount
               \/ r.row.amount = NoDoc
               \/ Says[r.doc].invoice = "final" /\ r.row.invoice = "provisional"
                  /\ new.invoice = "final"
<1> DEFINE d == r.doc
           figures == r.outcome # "duplicate"
           final == figures /\ Supersedes(r.row, d)
           batch == IF r.number # NoNumber THEN r.number ELSE row.batch
           source == IF r.number # NoNumber THEN r.row.source ELSE row.source
           invoice == IF final THEN "final" ELSE row.invoice
           amount == IF figures /\ Says[d].amount /\ (final \/ r.row.amount = NoDoc)
                     THEN d ELSE row.amount
           terms == IF figures /\ Says[d].contract /\ r.row.terms = NoDoc THEN d ELSE row.terms
           boxes == row.boxes \cup Says[d].boxes
<1>1. Written(row, r) = [row EXCEPT !.batch = batch, !.source = source, !.invoice = invoice,
                                    !.amount = amount, !.terms = terms, !.boxes = boxes]
  BY DEF Written
<1>2. Says[d].boxes \subseteq Boxes
  BY ConstantFacts
<1>3. batch \in Numbers /\ source \in {"allocated", "document"}
  BY DEF Request, TradeRow
<1>4. invoice \in {"provisional", "final"}
  BY DEF TradeRow
<1>5. amount \in Docs \cup {NoDoc} /\ terms \in Docs \cup {NoDoc}
  BY DEF TradeRow
<1>6. boxes \in SUBSET Boxes
  BY <1>2 DEF TradeRow
<1>7. \/ amount = row.amount
      \/ r.row.amount = NoDoc
      \/ Says[d].invoice = "final" /\ r.row.invoice = "provisional" /\ invoice = "final"
  BY DEF Supersedes
<1> DEFINE new == [row EXCEPT !.batch = batch, !.source = source, !.invoice = invoice,
                              !.amount = amount, !.terms = terms, !.boxes = boxes]
<1> HIDE DEF batch, source, invoice, amount, terms, boxes, d
<1>8. /\ new \in TradeRow /\ new.code = row.code /\ new.opener = row.opener
      /\ new.batch = batch /\ new.source = source /\ new.boxes = boxes
      /\ new.amount = amount /\ new.invoice = invoice
  BY <1>3, <1>4, <1>5, <1>6 DEF TradeRow
<1> HIDE DEF new
<1>9. Written(row, r) = new
  BY <1>1 DEF new
<1> QED BY <1>7, <1>8, <1>9 DEF batch, source, boxes, d

\* A new trade, or a row written over.
LEMMA CommitFacts ==
  ASSUME MatchInv, MatchConstants, NEW p \in People, Commit(p)
  PROVE  LET w == work[p]
             id == Len(trades) + 1
         IN /\ w \in Request /\ w.pc = "commit" /\ RequestInHand(p) /\ Become(p, Idle)
            /\ UNCHANGED <<confirmed, failed, faults>> /\ offered' = offered \ {w.doc}
            /\ trades' \in Seq(TradeRow) /\ Len(trades') \in 0..MaxTrades
            /\ Len(trades) <= Len(trades') /\ counter' \in Nat \ {0}
            /\ \/ /\ w.outcome = "new" /\ Trades' = Trades \cup {id} /\ id \notin Trades
                  /\ Len(trades') = id /\ trades'[id] = w.row
                  /\ \A o \in Trades : trades'[o] = trades[o]
                  /\ link' = [d \in Docs |-> IF d = w.doc THEN id ELSE link[d]]
               \/ /\ w.outcome \in Known /\ w.target \in Trades /\ w.doc \in Docs
                  /\ Trades' = Trades /\ w.row \in TradeRow
                  /\ Len(trades') = Len(trades)
                  /\ trades'[w.target] = Written(trades[w.target], w)
                  /\ \A o \in Trades : o # w.target => trades'[o] = trades[o]
                  /\ link' = IF w.outcome = "linked" THEN link
                             ELSE [link EXCEPT ![w.doc] = w.target]
<1> DEFINE w == work[p]
           id == Len(trades) + 1
<1>1. /\ w \in Request /\ w.pc = "commit" /\ RequestInHand(p) /\ Become(p, Idle)
      /\ UNCHANGED <<confirmed, failed, faults>> /\ offered' = offered \ {w.doc}
      /\ TypeOK /\ w.number \in Numbers \cup {NoNumber} /\ Len(trades) \in 0..MaxTrades
      /\ w.row \in TradeRow
  BY RequestFacts, ConstantFacts DEF Commit, RequestInHand, MatchInv, TypeOK
<1>2. CASE w.outcome = "new"
  <2>1. /\ id <= MaxTrades /\ trades' = Append(trades, w.row)
        /\ link' = [d \in Docs |-> IF d = w.doc THEN id ELSE link[d]]
        /\ counter' = IF w.row.source = "allocated" THEN w.number + 1 ELSE counter
    BY <1>2 DEF Commit
  <2>2. counter' \in Nat \ {0}
    BY <1>1, <2>1 DEF TypeOK, Numbers, NoNumber
  <2>3. /\ trades' \in Seq(TradeRow) /\ Len(trades') = id
        /\ Trades' = Trades \cup {id} /\ id \notin Trades /\ trades'[id] = w.row
        /\ \A o \in Trades : trades'[o] = trades[o]
    BY <1>1, <2>1, RowAppended
  <2>4. Len(trades') \in 0..MaxTrades /\ Len(trades) <= Len(trades')
    BY <1>1, <2>1, <2>3, ConstantFacts
  <2> QED BY <1>1, <1>2, <2>1, <2>2, <2>3, <2>4
<1>3. CASE w.outcome # "new"
  <2>1. /\ trades' = [trades EXCEPT ![w.target] = Written(trades[w.target], w)]
        /\ link' = IF w.outcome = "linked" THEN link ELSE [link EXCEPT ![w.doc] = w.target]
        /\ UNCHANGED counter
    BY <1>3 DEF Commit
  <2>2. w.outcome \in Known /\ w.target \in Trades /\ w.doc \in Docs
    BY <1>1, <1>3 DEF RequestInHand
  <2>3. trades[w.target] \in TradeRow
    BY <1>1, <2>2 DEF TypeOK, Trades
  <2>4. Written(trades[w.target], w) \in TradeRow
    BY <1>1, <2>2, <2>3, WrittenFacts
  <2>5. /\ trades' \in Seq(TradeRow) /\ Len(trades') = Len(trades) /\ Trades' = Trades
        /\ trades'[w.target] = Written(trades[w.target], w)
        /\ \A o \in Trades : o # w.target => trades'[o] = trades[o]
    BY <1>1, <2>1, <2>2, <2>4, RowWritten
  <2>6. counter' \in Nat \ {0} /\ Len(trades') \in 0..MaxTrades /\ Len(trades) <= Len(trades')
    BY <1>1, <2>1, <2>5, ConstantFacts DEF TypeOK
  <2> QED BY <1>1, <2>1, <2>2, <2>5, <2>6
<1> QED BY <1>2, <1>3

\* The numbers after a commit.
LEMMA CommitKeepsNumbers ==
  ASSUME MatchInv, MatchConstants, NEW p \in People, Commit(p)
  PROVE  NumbersAreUnique' /\ NumbersAreHeldOnce'
<1> DEFINE w == work[p]
           id == Len(trades) + 1
<1>1. work'[p] = Idle /\ \A o \in Others(p) : work'[o] = work[o]
  BY CommitFacts DEF Become, MatchInv, TypeOK, Others
<1>2. w.pc = "commit" /\ RequestInHand(p) /\ Idle.pc # "commit"
  BY CommitFacts DEF Idle
<1>3. w.number # NoNumber => ~Clash(p) /\ \A o \in Others(p) : ~HoldsKey(o, w.number)
  BY <1>2 DEF MatchInv, NumbersAreHeldOnce
<1>4. \A o \in Others(p) :
        work[o].pc = "commit" /\ work[o].number # NoNumber =>
            /\ ~Clash(o) /\ work[o].number # w.number
            /\ \A q \in Others(o) : ~HoldsKey(q, work[o].number)
  BY <1>2, <1>3 DEF MatchInv, NumbersAreHeldOnce, HoldsKey, Others
<1>5. \A q \in People, n \in Numbers : HoldsKey(q, n)' => HoldsKey(q, n)
  BY <1>1, <1>2 DEF HoldsKey, Others
<1>6. \A o \in People : work[o].number \in Numbers \cup {NoNumber}
  BY RequestFacts
<1>7. NumbersAreUnique
  BY DEF MatchInv
<1>8. \A o \in Others(p) : Others(o) = People \ {o} /\ work'[o] = work[o] /\ o \in People
  BY <1>1 DEF Others
<1>9. CASE /\ w.outcome = "new" /\ Trades' = Trades \cup {id} /\ id \notin Trades
           /\ trades'[id] = w.row /\ \A o \in Trades : trades'[o] = trades[o]
  <2>1. w.row.batch = w.number /\ w.row.code = w.number /\ w.target = NoTrade
        /\ w.number \in Numbers /\ w.number # NoNumber
    BY <1>2, <1>9, CommitFacts DEF RequestInHand, Known, TradeRow, Numbers
  <2>2. \A t \in Trades : trades[t].batch # w.number /\ trades[t].code # w.number
    BY <1>3, <1>9, <2>1 DEF Clash, Trades, NoTrade
  <2>3. NumbersAreUnique'
    BY <1>7, <1>9, <2>1, <2>2 DEF NumbersAreUnique
  <2>4. ASSUME NEW o \in Others(p), work[o].pc = "commit", work[o].number # NoNumber
        PROVE  ~Clash(o)'
    BY <1>4, <1>8, <1>9, <2>1, <2>4 DEF Clash
  <2> QED BY <1>1, <1>2, <1>4, <1>5, <1>6, <1>8, <2>3, <2>4 DEF NumbersAreHeldOnce, Others
<1>10. CASE /\ w.outcome \in Known /\ w.target \in Trades /\ Trades' = Trades
            /\ trades'[w.target] = Written(trades[w.target], w)
            /\ \A o \in Trades : o # w.target => trades'[o] = trades[o]
  <2>1. trades[w.target] \in TradeRow /\ w \in Request /\ w.row \in TradeRow /\ w.doc \in Docs
    BY <1>10, <1>2, CommitFacts DEF MatchInv, TypeOK, Trades, RequestInHand, Known
  <2>2. /\ trades'[w.target].code = trades[w.target].code
        /\ trades'[w.target].batch =
              (IF w.number # NoNumber THEN w.number ELSE trades[w.target].batch)
    BY <1>10, <2>1, WrittenFacts
  <2>3. w.number # NoNumber => \A t \in Trades : t # w.target => trades[t].batch # w.number
    BY <1>3 DEF Clash
  <2>4. NumbersAreUnique'
    BY <1>7, <1>10, <2>2, <2>3 DEF NumbersAreUnique
  <2>5. ASSUME NEW o \in Others(p), work[o].pc = "commit", work[o].number # NoNumber
        PROVE  ~Clash(o)'
    BY <1>4, <1>8, <1>10, <2>2, <2>5 DEF Clash
  <2> QED BY <1>1, <1>2, <1>4, <1>5, <1>6, <1>8, <2>4, <2>5 DEF NumbersAreHeldOnce, Others
<1> QED BY <1>9, <1>10, CommitFacts

\* The documents after a commit.
LEMMA CommitKeepsDocuments ==
  ASSUME MatchInv, MatchConstants, NEW p \in People, Commit(p)
  PROVE  DocumentsAreInHand' /\ BoxesComeAlong' /\ link' \in [Docs -> 0..MaxTrades]
<1> DEFINE w == work[p]
           id == Len(trades) + 1
<1>1. work'[p] = Idle /\ \A o \in Others(p) : work'[o] = work[o]
  BY CommitFacts DEF Become, MatchInv, TypeOK, Others
<1>2. /\ w.pc = "commit" /\ RequestInHand(p) /\ w \in Request
      /\ Idle.doc = NoDoc /\ Idle.known = NoTrade /\ Idle.outcome = "none" /\ NoDoc \notin Docs
      /\ UNCHANGED <<confirmed, failed>> /\ offered' = offered \ {w.doc}
      /\ confirmed \subseteq Docs
  BY CommitFacts, ConstantFacts DEF Idle, MatchInv, TypeOK
<1>3. /\ link \in [Docs -> 0..MaxTrades] /\ Len(trades) \in Nat
      /\ \A d \in Docs : link[d] <= Len(trades)
      /\ \A d \in Docs : link[d] # NoTrade => link[d] \in Trades
  BY ConstantFacts DEF MatchInv, TypeOK, DocumentsAreInHand, Trades, NoTrade
<1>4. \A t \in Trades : t # NoTrade /\ trades[t] \in TradeRow
  BY DEF MatchInv, TypeOK, Trades, NoTrade
<1>5. /\ link' \in [Docs -> 0..MaxTrades]
      /\ \A d \in Docs : d # w.doc => link'[d] = link[d]
      /\ \A t \in Trades : t \in Trades' /\ trades[t].boxes \subseteq trades'[t].boxes
      /\ \A d \in Docs : link'[d] <= Len(trades')
      /\ w.doc \in Docs => link'[w.doc] # NoTrade /\ Says[w.doc].boxes \subseteq trades'[link'[w.doc]].boxes
  <2>1. CASE /\ w.outcome = "new" /\ Trades' = Trades \cup {id} /\ id \notin Trades
             /\ Len(trades') = id /\ trades'[id] = w.row
             /\ \A o \in Trades : trades'[o] = trades[o]
             /\ link' = [d \in Docs |-> IF d = w.doc THEN id ELSE link[d]]
    <3>1. id \in 0..MaxTrades /\ id # NoTrade
      <4>1. Len(trades') \in 0..MaxTrades
        BY CommitFacts
      <4> QED BY <1>3, <2>1, <4>1 DEF NoTrade
    <3>2. w.doc \in Docs => w.row.boxes = Says[w.doc].boxes
      BY <1>2, <2>1 DEF RequestInHand, Known
    <3> QED BY <1>3, <2>1, <3>1, <3>2
  <2>2. CASE /\ w.outcome \in Known /\ w.target \in Trades /\ w.doc \in Docs
             /\ Trades' = Trades /\ w.row \in TradeRow
             /\ Len(trades') = Len(trades)
             /\ trades'[w.target] = Written(trades[w.target], w)
             /\ \A o \in Trades : o # w.target => trades'[o] = trades[o]
             /\ link' = IF w.outcome = "linked" THEN link
                        ELSE [link EXCEPT ![w.doc] = w.target]
    <3>1. trades'[w.target].boxes = trades[w.target].boxes \cup Says[w.doc].boxes
      BY <1>2, <1>4, <2>2, WrittenFacts
    <3>2. w.target \in 0..MaxTrades /\ w.target <= Len(trades)
      BY <1>2, <1>3, <2>2 DEF Request, Trades
    <3>3. \A t \in Trades : t \in Trades' /\ trades[t].boxes \subseteq trades'[t].boxes
      BY <2>2, <3>1
    <3>4. CASE w.outcome = "linked"
      <4>1. link' = link /\ w.known = w.target /\ w.known # NoTrade /\ link[w.doc] # NoTrade
        BY <1>4, <2>2, <3>4 DEF MatchInv, DocumentsAreInHand
      <4>2. Says[w.doc].boxes \subseteq trades'[link[w.doc]].boxes
        <5>1. link[w.doc] = w.target \/ Says[w.doc].boxes \subseteq trades[link[w.doc]].boxes
          BY <1>2, <2>2, <4>1 DEF MatchInv, BoxesComeAlong
        <5> QED BY <1>3, <2>2, <3>1, <3>3, <4>1, <5>1
      <4> QED BY <1>3, <2>2, <3>3, <4>1, <4>2
    <3>5. CASE w.outcome # "linked"
      BY <1>3, <1>4, <2>2, <3>1, <3>2, <3>3, <3>5
    <3> QED BY <3>4, <3>5
  <2> QED BY <2>1, <2>2, CommitFacts
<1>6. DocumentsAreInHand'
  <2>1. ASSUME NEW d \in confirmed, d # w.doc, Pursued(d) PROVE Pursued(d)'
    BY <1>1, <2>1 DEF Pursued, Others
  <2>2. ASSUME NEW d \in confirmed
        PROVE  \/ link'[d] # NoTrade \/ d \in offered' \cup failed' \/ ~HasReference(d)
               \/ Pursued(d)'
    <3>1. CASE d = w.doc
      BY <1>2, <1>5, <3>1
    <3>2. CASE d # w.doc
      BY <1>2, <1>5, <2>1, <3>2 DEF MatchInv, DocumentsAreInHand
    <3> QED BY <3>1, <3>2
  <2>3. ASSUME NEW o \in People
        PROVE  /\ work'[o].outcome = "linked" => work'[o].target = work'[o].known
               /\ work'[o].known # NoTrade => link'[work'[o].doc] # NoTrade
    <3>1. CASE o = p
      BY <1>1, <1>2, <3>1
    <3>2. CASE o # p
      <4>1. work'[o] = work[o] /\ work[o].doc \in Docs \cup {NoDoc} /\ RequestInHand(o)
        BY <1>1, <3>2, RequestFacts DEF Others
      <4>2. work[o].known # NoTrade => work[o].doc \in Docs
        BY <4>1 DEF RequestInHand, Idle
      <4> QED BY <1>5, <4>1, <4>2 DEF MatchInv, DocumentsAreInHand
    <3> QED BY <3>1, <3>2
  <2> QED BY <1>2, <1>5, <2>2, <2>3 DEF DocumentsAreInHand, HasReference
<1>7. BoxesComeAlong'
  <2>1. ASSUME NEW d \in Docs, d # w.doc, link[d] # NoTrade
        PROVE  link'[d] = link[d] /\ trades[link[d]].boxes \subseteq trades'[link'[d]].boxes
    BY <1>3, <1>5, <2>1
  <2>2. BoxesFollowDocuments'
    <3> SUFFICES ASSUME NEW d \in confirmed, link'[d] # NoTrade, d \notin failed,
                        \A o \in People : work'[o].doc # d
                 PROVE  Says[d].boxes \subseteq trades'[link'[d]].boxes
      BY <1>2 DEF BoxesFollowDocuments
    <3>1. CASE d = w.doc
      BY <1>2, <1>5, <3>1
    <3>2. CASE d # w.doc
      <4>1. link[d] # NoTrade /\ \A o \in People : work[o].doc # d
        BY <1>1, <1>2, <1>5, <3>2 DEF Others
      <4>2. Says[d].boxes \subseteq trades[link[d]].boxes
        BY <4>1 DEF MatchInv, BoxesComeAlong, BoxesFollowDocuments
      <4> QED BY <1>2, <2>1, <3>2, <4>1, <4>2
    <3> QED BY <3>1, <3>2
  <2>3. ASSUME NEW o \in People, work'[o].doc # NoDoc
        PROVE  \/ link'[work'[o].doc] = work'[o].known
               \/ Says[work'[o].doc].boxes \subseteq trades'[link'[work'[o].doc]].boxes
    <3>1. work'[o] = work[o] /\ work[o].doc \in Docs
      BY <1>1, <1>2, <2>3, RequestFacts DEF Others
    <3>2. CASE work[o].doc = w.doc
      BY <1>5, <3>1, <3>2
    <3>3. CASE work[o].doc # w.doc
      <4>1. \/ link[work[o].doc] = work[o].known
            \/ Says[work[o].doc].boxes \subseteq trades[link[work[o].doc]].boxes
        BY <1>2, <3>1 DEF MatchInv, BoxesComeAlong
      <4>2. link[work[o].doc] = NoTrade => work[o].known = NoTrade
        BY DEF MatchInv, DocumentsAreInHand
      <4> QED BY <1>5, <2>1, <3>1, <3>3, <4>1, <4>2
    <3> QED BY <3>2, <3>3
  <2> QED BY <2>2, <2>3 DEF BoxesComeAlong
<1> QED BY <1>5, <1>6, <1>7

LEMMA CommitStep ==
  ASSUME MatchInv, MatchConstants, NEW p \in People, Commit(p)
  PROVE  MatchInv'
<1>1. work'[p] = Idle /\ \A o \in Others(p) : work'[o] = work[o]
  BY CommitFacts DEF Become, MatchInv, TypeOK, Others
<1>2. TypeOK'
  <2>1. /\ trades' \in Seq(TradeRow) /\ Len(trades') \in 0..MaxTrades /\ counter' \in Nat \ {0}
        /\ Become(p, Idle) /\ offered' = offered \ {work[p].doc}
        /\ UNCHANGED <<confirmed, failed, faults>>
    BY CommitFacts
  <2>2. work' \in [People -> Request]
    BY <2>1, IdleIsRequest DEF Become, MatchInv, TypeOK
  <2>3. Len(trades') <= MaxTrades
    BY <2>1, ConstantFacts
  <2> QED BY <2>1, <2>2, <2>3, CommitKeepsDocuments DEF MatchInv, TypeOK
<1>3. Trades \subseteq Trades' /\ Len(trades) <= Len(trades') /\ Len(trades) \in Nat
      /\ Len(trades') \in Nat
  BY CommitFacts, <1>2 DEF MatchInv, TypeOK
<1>4. ASSUME NEW o \in People PROVE RequestInHand(o)'
  <2>1. CASE o = p
    BY <1>1, <2>1 DEF RequestInHand, Idle, Known
  <2>2. CASE o # p
    <3>1. work'[o] = work[o] /\ RequestInHand(o) /\ work[o].known \in Nat
      BY <1>1, <2>2, RequestFacts, ConstantFacts DEF Others
    <3> QED BY <1>3, <3>1 DEF RequestInHand
  <2> QED BY <2>1, <2>2
<1> QED BY <1>2, <1>4, CommitKeepsNumbers, CommitKeepsDocuments DEF MatchInv

-----------------------------------------------------------------------------
(* The invariant of the specification, and what follows from it.           *)

LEMMA InitHolds ==
  ASSUME MatchConstants, Init
  PROVE  LoneInv
<1>1. TypeOK
  BY IdleIsRequest, ConstantFacts DEF Init, TypeOK, NoTrade
<1>2. \A p \in People : work[p] = Idle
  BY DEF Init
<1>3. \A p \in People : RequestInHand(p)
  BY <1>2 DEF RequestInHand, Idle, Known
<1>4. Trades = {} /\ confirmed = {} /\ \A d \in Docs : link[d] = 0 /\ 0 <= Len(trades)
  BY DEF Init, Trades, NoTrade
<1>5. NumbersAreUnique /\ NumbersAreHeldOnce /\ NoTradeWithoutDocument
  BY <1>2, <1>4 DEF NumbersAreUnique, NumbersAreHeldOnce, NoTradeWithoutDocument, Idle
<1>6. DocumentsAreInHand /\ BoxesComeAlong
  BY <1>2, <1>4 DEF DocumentsAreInHand, BoxesComeAlong, BoxesFollowDocuments, Idle
<1>7. LonePerson
  BY <1>2, <1>5 DEF LonePerson, Idle, Known
<1> QED BY <1>1, <1>3, <1>5, <1>6, <1>7 DEF LoneInv, MatchInv

LEMMA NextHolds ==
  ASSUME MatchInv, MatchConstants, [Next]_vars
  PROVE  MatchInv'
<1>1. CASE UNCHANGED vars
  BY <1>1 DEF vars, MatchInv, TypeOK, RequestInHand, NumbersAreUnique, NumbersAreHeldOnce,
     DocumentsAreInHand, BoxesComeAlong, BoxesFollowDocuments, Pursued, HasReference,
     Trades, Clash, HoldsKey
<1>2. ASSUME NEW t \in Trades, Away(t) PROVE MatchInv'
  BY <1>2, AwayStep
<1>3. ASSUME NEW p \in People, NEW d \in Docs, NEW t \in Trades, Upload(p, d, t) PROVE MatchInv'
  BY <1>3, UploadStep
<1>4. ASSUME NEW p \in People, NEW d \in Docs, Confirm(p, d) PROVE MatchInv'
  BY <1>4, ConfirmStep
<1>5. ASSUME NEW p \in People, NEW d \in Docs, NEW decision \in {"accept", "reject"},
             Resolve(p, d, decision)
      PROVE  MatchInv'
  BY <1>5, ResolveStep
<1>6. ASSUME NEW p \in People, NEW n \in HandNumbers \cup {NoNumber}, Register(p, n) PROVE MatchInv'
  BY <1>6, RegisterStep
<1>7. ASSUME NEW p \in People,
             Search(p) \/ Link(p) \/ Adopt(p) \/ Number(p) \/ Index(p) \/ Commit(p) \/ Break(p)
      PROVE  MatchInv'
  BY <1>7, SearchStep, LinkStep, AdoptStep, NumberStep, IndexStep, CommitStep, BreakStep
<1> QED BY <1>1, <1>2, <1>3, <1>4, <1>5, <1>6, <1>7 DEF Next

\* The inductive invariant of the matching.
THEOREM MatchingIsInvariant ==
  ASSUME MatchConstants
  PROVE  Spec => []MatchInv
<1>1. Init => MatchInv
  BY InitHolds DEF LoneInv
<1>2. MatchInv /\ [Next]_vars => MatchInv'
  BY NextHolds
<1> QED BY <1>1, <1>2, PTL DEF Spec

\* Every variable of the matching keeps its type; in particular every number a
\* trade goes by, stated or counted, is one.
THEOREM MatchingTypes ==
  ASSUME MatchConstants
  PROVE  Spec => []TypeOK
<1>1. MatchInv => TypeOK
  BY DEF MatchInv
<1> QED BY <1>1, MatchingIsInvariant, PTL

\* No two trades share a batch number or a code, however many people confirm,
\* register and adopt at once (next_batch_number, adopt_stated_batch_number).
THEOREM TradeNumbersAreUnique ==
  ASSUME MatchConstants
  PROVE  Spec => []NumbersAreUnique
<1>1. MatchInv => NumbersAreUnique
  BY DEF MatchInv
<1> QED BY <1>1, MatchingIsInvariant, PTL

\* A confirmed document is never lost between a search and a link, however many
\* people are at it (confirm_extraction, resolve_suggestion).
THEOREM ConfirmedIsAccountedFor ==
  ASSUME MatchConstants
  PROVE  Spec => []UnlinkedIsAccountedFor
<1>1. MatchInv => UnlinkedIsAccountedFor
  BY DEF MatchInv, DocumentsAreInHand, UnlinkedIsAccountedFor, Pursued
<1> QED BY <1>1, MatchingIsInvariant, PTL

\* The containers of a confirmed document are with the trade it is linked to,
\* whichever way and by whomever the link was made (apply_match).
THEOREM ContainersFollow ==
  ASSUME MatchConstants
  PROVE  Spec => []BoxesFollowDocuments
<1>1. MatchInv => BoxesFollowDocuments
  BY DEF MatchInv, BoxesComeAlong
<1> QED BY <1>1, MatchingIsInvariant, PTL

-----------------------------------------------------------------------------
(* One person at a time: the copy a request decides by is the row.         *)

\* What LonePerson says of a request.
FitsItsRow(w) ==
    /\ w.doc # NoDoc => link[w.doc] = w.known
    /\ w.outcome \in {"duplicate", "auto", "new"} => w.known = NoTrade
    /\ w.outcome = "new" /\ w.doc # NoDoc => Duplicates(w.doc) = {}
    /\ w.outcome \in Known =>
         /\ w.row.amount = trades[w.target].amount
         /\ w.row.invoice = trades[w.target].invoice
         /\ w.pc \in {"link", "adopt"} => w.row.source = trades[w.target].source
         /\ w.number # NoNumber => trades[w.target].source = "allocated"

LEMMA LoneMeans == LonePerson <=> NoTradeWithoutDocument /\ \A p \in People : FitsItsRow(work[p])
BY DEF LonePerson, FitsItsRow

\* The only person's request goes on and nothing is committed.
LEMMA LoneWorks ==
  ASSUME \A p, q \in People : p = q, LoneInv, NEW p \in People, NEW r, Working(p, r), FitsItsRow(r)
  PROVE  LonePerson'
<1>1. work'[p] = r /\ \A o \in People : o = p
  BY DEF Working, LoneInv, MatchInv, TypeOK
<1>2. FitsItsRow(work[p])'
  BY <1>1 DEF FitsItsRow, Working, Duplicates
<1>3. NoTradeWithoutDocument'
  BY LoneMeans DEF LoneInv, NoTradeWithoutDocument, Working, Trades
<1> QED BY <1>1, <1>2, <1>3 DEF LonePerson, FitsItsRow

LEMMA IdleFits == FitsItsRow(Idle)
BY DEF FitsItsRow, Idle, Known

LEMMA LoneBegins ==
  ASSUME \A p, q \in People : p = q, LoneInv, MatchConstants, NEW p \in People,
         \/ \E d \in Docs : Confirm(p, d)
         \/ \E d \in Docs, decision \in {"accept", "reject"} : Resolve(p, d, decision)
         \/ \E n \in HandNumbers \cup {NoNumber} : Register(p, n)
  PROVE  LonePerson'
<1>1. ASSUME NEW d \in Docs, Confirm(p, d) PROVE LonePerson'
  <2> DEFINE r == [Idle EXCEPT !.pc = "search", !.ask = "confirm", !.doc = d, !.known = link[d]]
  <2>1. FitsItsRow(r)
    BY DEF FitsItsRow, Idle, Known
  <2>2. Working(p, r)
    BY <1>1 DEF Confirm, Working, Become
  <2> HIDE DEF r
  <2> QED BY <2>1, <2>2, LoneWorks
<1>2. ASSUME NEW d \in Docs, NEW decision \in {"accept", "reject"}, Resolve(p, d, decision)
      PROVE  LonePerson'
  <2> DEFINE r == [Idle EXCEPT !.pc = "search", !.ask = decision, !.doc = d]
  <2>1. FitsItsRow(r)
    BY <1>2 DEF FitsItsRow, Idle, Known, Resolve
  <2>2. Working(p, r)
    BY <1>2 DEF Resolve, Working, Become
  <2> HIDE DEF r
  <2> QED BY <2>1, <2>2, LoneWorks
<1>3. ASSUME NEW n \in HandNumbers \cup {NoNumber}, Register(p, n) PROVE LonePerson'
  <2> DEFINE q == [Idle EXCEPT !.ask = "register"]
             r == Opening(q, NoDoc, n)
  <2>1. q \in Request /\ q.doc = NoDoc /\ q.known = NoTrade
    BY IdleIsRequest DEF Idle, Request
  <2>2. n \in Numbers \cup {NoNumber}
    BY ConstantFacts
  <2>3. Working(p, r)
    BY <1>3 DEF Register, Working, Become
  <2> HIDE DEF q
  <2>4. r.outcome = "new" /\ r.doc = NoDoc /\ r.known = NoTrade
    BY <2>1, <2>2, OpeningFacts
  <2> HIDE DEF r
  <2>5. FitsItsRow(r)
    BY <2>4 DEF FitsItsRow, Known
  <2> QED BY <2>3, <2>5, LoneWorks
<1> QED BY <1>1, <1>2, <1>3

LEMMA LoneSearches ==
  ASSUME \A p, q \in People : p = q, LoneInv, MatchConstants, NEW p \in People, Search(p)
  PROVE  LonePerson'
<1> DEFINE d == work[p].doc
<1>1. /\ MatchInv /\ work[p] \in Request /\ work[p].pc = "search" /\ d \in Docs
      /\ work[p].ask # "confirm" => work[p].known = NoTrade
      /\ work[p].number = NoNumber
      /\ UNCHANGED <<trades, counter, link>>
      /\ link[d] = work[p].known
  <2>1. MatchInv /\ d \in Docs /\ NoDoc \notin Docs
    BY SearchOutcome, ConstantFacts DEF LoneInv
  <2>2. link[d] = work[p].known
    BY <2>1 DEF LoneInv, LonePerson
  <2> QED BY <2>1, <2>2, RequestFacts, SearchOutcome DEF RequestInHand
<1>2. ASSUME NEW outcome \in Known, NEW t \in Trades, Found(p, outcome, t),
             outcome # "linked" /\ work[p].ask = "confirm" => work[p].known = NoTrade
      PROVE  LonePerson'
  <2> DEFINE r == [work[p] EXCEPT !.pc = "link", !.outcome = outcome, !.target = t, !.row = trades[t]]
  <2>1. /\ r.outcome = outcome /\ r.target = t /\ r.row = trades[t] /\ r.doc = d
        /\ r.known = work[p].known /\ r.number = NoNumber
    BY <1>1 DEF Request
  <2> HIDE DEF r
  <2>2. FitsItsRow(r)
    BY <1>1, <1>2, <2>1 DEF FitsItsRow, Known
  <2>3. Working(p, r)
    BY <1>1, <1>2 DEF Found, Become, Working, r
  <2> QED BY <2>2, <2>3, LoneWorks
<1>3. CASE /\ Become(p, Opening(work[p], d, Says[d].batch))
           /\ Duplicates(d) = {}
           /\ work[p].ask = "confirm" => work[p].known = NoTrade
  <2> DEFINE n == Says[d].batch
             r == Opening(work[p], d, n)
  <2>1. n \in Numbers \cup {NoNumber}
    BY <1>1, ConstantFacts
  <2>2. Working(p, r)
    BY <1>1, <1>3 DEF Become, Working
  <2> HIDE DEF n
  <2>3. r.outcome = "new" /\ r.doc = d /\ r.known = work[p].known
    BY <1>1, <2>1, OpeningFacts
  <2> HIDE DEF r
  <2>4. FitsItsRow(r)
    BY <1>1, <1>3, <2>3 DEF FitsItsRow, Known
  <2> QED BY <2>2, <2>4, LoneWorks
<1>4. CASE Become(p, Idle)
  BY <1>1, <1>4, IdleFits, LoneWorks DEF Become, Working
<1> QED BY <1>1, <1>2, <1>3, <1>4, SearchOutcome

LEMMA LoneGoesOn ==
  ASSUME \A p, q \in People : p = q, LoneInv, MatchConstants, NEW p \in People,
         Link(p) \/ Adopt(p) \/ Number(p) \/ Index(p) \/ Break(p)
  PROVE  LonePerson'
<1>1. /\ work[p] \in Request /\ RequestInHand(p) /\ FitsItsRow(work[p])
      /\ UNCHANGED <<trades, counter, link>>
  BY RequestFacts, LoneMeans DEF LoneInv, Link, Adopt, Number, Index, Break
<1>2. CASE Raise(p)
  BY <1>1, <1>2, IdleFits, LoneWorks DEF Raise, Become, Working
<1>3. ASSUME NEW place \in {"adopt", "commit"}, work[p].pc \in {"link", "adopt", "index"},
             place = "adopt" => work[p].pc = "link",
             Become(p, [work[p] EXCEPT !.pc = place])
      PROVE  LonePerson'
  <2> DEFINE r == [work[p] EXCEPT !.pc = place]
  <2>1. /\ r.pc = place /\ r.outcome = work[p].outcome /\ r.target = work[p].target
        /\ r.row = work[p].row /\ r.doc = work[p].doc /\ r.known = work[p].known
        /\ r.number = work[p].number
    BY <1>1 DEF Request
  <2>2. Working(p, r)
    BY <1>1, <1>3 DEF Become, Working
  <2> HIDE DEF r
  <2>3. FitsItsRow(r)
    BY <1>1, <1>3, <2>1 DEF FitsItsRow
  <2> QED BY <2>2, <2>3, LoneWorks
<1>4. CASE Link(p)
  BY <1>3, <1>4 DEF Link
<1>5. CASE Adopt(p)
  <2> DEFINE stated == Says[work[p].doc].batch
             adopted == [work[p].row EXCEPT !.source = "document"]
             r == [work[p] EXCEPT !.pc = "index", !.number = stated, !.row = adopted]
  <2>1. CASE work[p].row.source = "allocated" /\ Become(p, r)
    <3>1. work[p].pc = "adopt" /\ work[p].outcome \in Known /\ work[p].row \in TradeRow
      BY <1>1, <1>5 DEF Adopt, RequestInHand
    <3>2. adopted.amount = work[p].row.amount /\ adopted.invoice = work[p].row.invoice
      BY <3>1 DEF TradeRow
    <3> HIDE DEF stated, adopted
    <3>3. /\ r.pc = "index" /\ r.outcome = work[p].outcome /\ r.target = work[p].target
          /\ r.row = adopted /\ r.doc = work[p].doc /\ r.known = work[p].known
      BY <1>1 DEF Request
    <3>4. Working(p, r)
      BY <1>1, <2>1 DEF Become, Working
    <3> HIDE DEF r
    <3>5. FitsItsRow(r)
      BY <1>1, <2>1, <3>1, <3>2, <3>3 DEF FitsItsRow
    <3> QED BY <3>4, <3>5, LoneWorks
  <2>2. CASE Become(p, [work[p] EXCEPT !.pc = "commit"])
    BY <1>3, <1>5, <2>2 DEF Adopt
  <2> QED BY <1>5, <2>1, <2>2 DEF Adopt
<1>6. ASSUME NEW n, NEW row, work[p].pc = "number",
             Become(p, [work[p] EXCEPT !.pc = "index", !.number = n, !.row = row])
      PROVE  LonePerson'
  <2> DEFINE r == [work[p] EXCEPT !.pc = "index", !.number = n, !.row = row]
  <2>1. r.outcome = "new" /\ r.doc = work[p].doc /\ r.known = work[p].known /\ work[p].outcome = "new"
    BY <1>1, <1>6 DEF Request, RequestInHand
  <2>2. Working(p, r)
    BY <1>1, <1>6 DEF Become, Working
  <2> HIDE DEF r
  <2>3. FitsItsRow(r)
    BY <1>1, <2>1 DEF FitsItsRow, Known
  <2> QED BY <2>2, <2>3, LoneWorks
<1>7. CASE Number(p)
  BY <1>2, <1>6, <1>7 DEF Number
<1>8. CASE Index(p)
  BY <1>2, <1>3, <1>8 DEF Index
<1>9. CASE Break(p)
  BY <1>2, <1>9 DEF Break
<1> QED BY <1>4, <1>5, <1>7, <1>8, <1>9

LEMMA LoneUploads ==
  ASSUME \A p, q \in People : p = q, LoneInv, MatchConstants, NEW p \in People,
         NEW d \in Docs, NEW t \in Trades, Upload(p, d, t)
  PROVE  LonePerson'
<1>1. /\ work[p] = Idle /\ link[d] = NoTrade /\ link' = [link EXCEPT ![d] = t]
      /\ UNCHANGED <<trades, work>>
  BY DEF Upload
<1>2. \A o \in Trades : o # NoTrade
  BY DEF LoneInv, MatchInv, TypeOK, Trades, NoTrade
<1>3. NoTradeWithoutDocument'
  <2> SUFFICES ASSUME NEW o \in Trades, trades[o].opener # NoDoc
               PROVE  \E e \in Docs : link'[e] = o
    BY <1>1 DEF NoTradeWithoutDocument, Trades
  <2>1. PICK e \in Docs : link[e] = o
    BY DEF LoneInv, LonePerson, NoTradeWithoutDocument
  <2> QED BY <1>1, <1>2, <2>1 DEF LoneInv, MatchInv, TypeOK
<1>4. \A o \in People : work'[o] = Idle
  BY <1>1
<1> QED BY <1>3, <1>4 DEF LonePerson, Idle, Known

LEMMA LoneAway ==
  ASSUME LoneInv, NEW t \in Trades, Away(t)
  PROVE  LonePerson'
<1> DEFINE row == [trades[t] EXCEPT !.away = ~trades[t].away]
<1>1. trades' = [trades EXCEPT ![t] = row] /\ UNCHANGED <<link, work>>
  BY DEF Away
<1>2. TypeOK /\ trades[t] \in TradeRow
  BY DEF LoneInv, MatchInv, TypeOK, Trades
<1>3. /\ row \in TradeRow /\ row.amount = trades[t].amount /\ row.source = trades[t].source
      /\ row.invoice = trades[t].invoice /\ row.opener = trades[t].opener
  BY <1>2 DEF TradeRow
<1> HIDE DEF row
<1>4. /\ Trades' = Trades
      /\ \A o \in Trades :
          /\ trades'[o].amount = trades[o].amount /\ trades'[o].source = trades[o].source
          /\ trades'[o].invoice = trades[o].invoice /\ trades'[o].opener = trades[o].opener
  BY <1>1, <1>2, <1>3, RowWritten
<1>5. \A p \in People : work[p].outcome \in Known => work[p].target \in Trades
  BY RequestFacts DEF RequestInHand, LoneInv
<1> QED BY <1>1, <1>4, <1>5 DEF LoneInv, LonePerson, NoTradeWithoutDocument, Duplicates, Known

LEMMA LoneCommits ==
  ASSUME \A p, q \in People : p = q, LoneInv, MatchConstants, NEW p \in People, Commit(p)
  PROVE  LonePerson'
<1> DEFINE w == work[p]
           id == Len(trades) + 1
<1>1. \A o \in People : work'[o] = Idle
  BY CommitFacts DEF Become, LoneInv, MatchInv, TypeOK
<1>2. /\ MatchInv /\ TypeOK /\ FitsItsRow(w) /\ NoTradeWithoutDocument /\ w \in Request
      /\ RequestInHand(p) /\ NoDoc \notin Docs
  BY LoneMeans, RequestFacts, ConstantFacts DEF LoneInv, MatchInv
<1>3. \A t \in Trades : t # NoTrade /\ trades[t] \in TradeRow
  BY <1>2 DEF TypeOK, Trades, NoTrade
<1>4. CASE /\ w.outcome = "new" /\ Trades' = Trades \cup {id} /\ id \notin Trades
           /\ trades'[id] = w.row
           /\ \A o \in Trades : trades'[o] = trades[o]
           /\ link' = [d \in Docs |-> IF d = w.doc THEN id ELSE link[d]]
  <2>1. w.row.opener = w.doc /\ w.pc = "commit" /\ w.doc \in Docs \cup {NoDoc}
    BY <1>2, <1>4, CommitFacts DEF RequestInHand, Known, Request
  <2>2. w.doc \in Docs => link[w.doc] = NoTrade
    BY <1>2, <1>4 DEF FitsItsRow
  <2>3. NoTradeWithoutDocument'
    BY <1>2, <1>3, <1>4, <2>1, <2>2 DEF NoTradeWithoutDocument, TypeOK
  <2> QED BY <1>1, <2>3 DEF LonePerson, Idle, Known
<1>5. CASE /\ w.outcome \in Known /\ w.target \in Trades /\ w.doc \in Docs
           /\ Trades' = Trades /\ w.row \in TradeRow
           /\ trades'[w.target] = Written(trades[w.target], w)
           /\ \A o \in Trades : o # w.target => trades'[o] = trades[o]
           /\ link' = IF w.outcome = "linked" THEN link
                      ELSE [link EXCEPT ![w.doc] = w.target]
  <2>1. trades'[w.target].opener = trades[w.target].opener
    BY <1>2, <1>3, <1>5, WrittenFacts
  <2>2. w.outcome # "linked" => link[w.doc] = NoTrade
    BY <1>2, <1>5 DEF FitsItsRow, Known
  <2>3. NoTradeWithoutDocument'
    <3> SUFFICES ASSUME NEW o \in Trades, trades'[o].opener # NoDoc
                 PROVE  \E e \in Docs : link'[e] = o
      BY <1>5 DEF NoTradeWithoutDocument
    <3>1. PICK e \in Docs : link[e] = o
      BY <1>2, <1>5, <2>1 DEF NoTradeWithoutDocument
    <3> QED BY <1>2, <1>3, <1>5, <2>2, <3>1 DEF TypeOK
  <2> QED BY <1>1, <2>3 DEF LonePerson, Idle, Known
<1> QED BY <1>4, <1>5, CommitFacts, <1>2

LEMMA LoneNext ==
  ASSUME \A p, q \in People : p = q, LoneInv, MatchConstants, [Next]_vars
  PROVE  LoneInv'
<1>1. MatchInv'
  BY NextHolds DEF LoneInv
<1>2. LonePerson'
  <2>1. CASE UNCHANGED vars
    BY <2>1 DEF vars, LoneInv, LonePerson, NoTradeWithoutDocument, Duplicates, Trades
  <2>2. ASSUME NEW t \in Trades, Away(t) PROVE LonePerson'
    BY <2>2, LoneAway
  <2>3. ASSUME NEW p \in People, NEW d \in Docs, NEW t \in Trades, Upload(p, d, t) PROVE LonePerson'
    BY <2>3, LoneUploads
  <2>4. ASSUME NEW p \in People,
               \/ \E d \in Docs : Confirm(p, d)
               \/ \E d \in Docs, decision \in {"accept", "reject"} : Resolve(p, d, decision)
               \/ \E n \in HandNumbers \cup {NoNumber} : Register(p, n)
        PROVE  LonePerson'
    BY <2>4, LoneBegins
  <2>5. ASSUME NEW p \in People,
               Search(p) \/ Link(p) \/ Adopt(p) \/ Number(p) \/ Index(p) \/ Commit(p) \/ Break(p)
        PROVE  LonePerson'
    BY <2>5, LoneSearches, LoneGoesOn, LoneCommits
  <2> QED BY <2>1, <2>2, <2>3, <2>4, <2>5 DEF Next
<1> QED BY <1>1, <1>2 DEF LoneInv

\* What no step does while one person is at it.
LEMMA StepStands ==
  ASSUME \A p, q \in People : p = q, LoneInv, MatchConstants, [Next]_vars
  PROVE  StatedStands /\ FiguresStay /\ CopyIsRecognised
<1>1. TypeOK /\ MatchInv /\ Len(trades) \in Nat
  BY DEF LoneInv, MatchInv, TypeOK
<1>2. CASE UNCHANGED trades
  BY <1>1, <1>2 DEF StatedStands, FiguresStay, CopyIsRecognised
<1>3. ASSUME NEW t \in Trades, Away(t) PROVE StatedStands /\ FiguresStay /\ CopyIsRecognised
  <2> DEFINE row == [trades[t] EXCEPT !.away = ~trades[t].away]
  <2>1. trades' = [trades EXCEPT ![t] = row]
    BY <1>3 DEF Away
  <2>2. trades[t] \in TradeRow
    BY <1>1 DEF TypeOK, Trades
  <2>3. row \in TradeRow /\ row.amount = trades[t].amount /\ row.batch = trades[t].batch
    BY <2>2 DEF TradeRow
  <2> HIDE DEF row
  <2>4. /\ Len(trades') = Len(trades)
        /\ \A o \in Trades : /\ trades'[o].amount = trades[o].amount
                             /\ trades'[o].batch = trades[o].batch
    BY <1>1, <2>1, <2>3, RowWritten
  <2> QED BY <1>1, <2>4 DEF StatedStands, FiguresStay, CopyIsRecognised
<1>4. ASSUME NEW p \in People, Commit(p) PROVE StatedStands /\ FiguresStay /\ CopyIsRecognised
  <2> DEFINE w == work[p]
             id == Len(trades) + 1
  <2>1. FitsItsRow(w) /\ w \in Request /\ RequestInHand(p) /\ NoDoc \notin Docs
    BY <1>1, LoneMeans, RequestFacts, ConstantFacts DEF LoneInv
  <2>2. CASE /\ w.outcome = "new" /\ Len(trades') = id
             /\ \A o \in Trades : trades'[o] = trades[o]
             /\ link' = [d \in Docs |-> IF d = w.doc THEN id ELSE link[d]]
    <3>1. \A d \in Docs : link'[d] = id => d = w.doc
      BY <1>1, <2>2 DEF MatchInv, TypeOK, DocumentsAreInHand
    <3>2. w.doc \in Docs => Duplicates(w.doc) = {}
      BY <2>1, <2>2 DEF FitsItsRow
    <3>3. CopyIsRecognised
      BY <2>2, <3>1, <3>2 DEF CopyIsRecognised, Duplicates
    <3> QED BY <2>2, <3>3 DEF StatedStands, FiguresStay
  <2>3. CASE /\ w.outcome \in Known /\ w.target \in Trades /\ w.doc \in Docs
             /\ w.row \in TradeRow /\ Len(trades') = Len(trades)
             /\ trades'[w.target] = Written(trades[w.target], w)
             /\ \A o \in Trades : o # w.target => trades'[o] = trades[o]
    <3> DEFINE old == trades[w.target]
               new == trades'[w.target]
    <3>1. old \in TradeRow
      BY <1>1, <2>3 DEF TypeOK, Trades
    <3>2. /\ new.batch = (IF w.number # NoNumber THEN w.number ELSE old.batch)
          /\ \/ new.amount = old.amount
             \/ w.row.amount = NoDoc
             \/ w.row.invoice = "provisional" /\ new.invoice = "final"
      BY <2>1, <2>3, <3>1, WrittenFacts
    <3>3. /\ w.row.amount = old.amount /\ w.row.invoice = old.invoice
          /\ w.number # NoNumber => old.source = "allocated"
      BY <2>1, <2>3 DEF FitsItsRow
    <3> QED BY <1>1, <2>3, <3>2, <3>3 DEF StatedStands, FiguresStay, CopyIsRecognised
  <2> QED BY <1>4, <2>2, <2>3, CommitFacts, <1>1
<1>5. \/ UNCHANGED trades \/ (\E t \in Trades : Away(t)) \/ (\E p \in People : Commit(p))
  BY DEF Next, vars, Upload, Confirm, Resolve, Register, Search, Link, Adopt, Number, Index, Break
<1> QED BY <1>2, <1>3, <1>4, <1>5

\* What one person at a time keeps besides.
THEOREM LoneIsInvariant ==
  ASSUME MatchConstants, \A p, q \in People : p = q
  PROVE  Spec => []LoneInv
<1>1. Init => LoneInv
  BY InitHolds
<1>2. LoneInv /\ [Next]_vars => LoneInv'
  BY LoneNext
<1> QED BY <1>1, <1>2, PTL DEF Spec

\* One person at a time: a trade that a document opened keeps a document
\* (document_service.py links a document once).
THEOREM TradesKeepDocuments ==
  ASSUME MatchConstants, \A p, q \in People : p = q
  PROVE  Spec => []NoTradeWithoutDocument
<1>1. LoneInv => NoTradeWithoutDocument
  BY DEF LoneInv, LonePerson
<1> QED BY <1>1, LoneIsInvariant, PTL

\* One person at a time: a batch number a document stated never moves
\* (adopt_stated_batch_number).
THEOREM StatedNumbersStand ==
  ASSUME MatchConstants, \A p, q \in People : p = q
  PROVE  Spec => StatedNumberStands
<1>1. LoneInv /\ [Next]_vars => [StatedStands]_vars
  BY StepStands
<1> QED BY <1>1, LoneIsInvariant, PTL DEF Spec, StatedNumberStands

\* One person at a time: a figure gives way to a final invoice only, and once
\* (apply_supersession, _enrich_leg).
THEOREM EstablishedFiguresStand ==
  ASSUME MatchConstants, \A p, q \in People : p = q
  PROVE  Spec => FiguresStand
<1>1. LoneInv /\ [Next]_vars => [FiguresStay]_vars
  BY StepStands
<1> QED BY <1>1, LoneIsInvariant, PTL DEF Spec, FiguresStand

\* One person at a time: a copy of a linked document opens no trade
\* (find_duplicate).
THEOREM CopiesOpenNothing ==
  ASSUME MatchConstants, \A p, q \in People : p = q
  PROVE  Spec => CopyOpensNothing
<1>1. LoneInv /\ [Next]_vars => [CopyIsRecognised]_vars
  BY StepStands
<1> QED BY <1>1, LoneIsInvariant, PTL DEF Spec, CopyOpensNothing

\* Together, for any number of people: what the matching promises of confirmed
\* documents, and to one person at a time of the trades besides
\* (document_service.py, matching_service.py).
THEOREM DocumentsAreKept ==
  ASSUME MatchConstants
  PROVE  Spec => []DocumentsAreAccountedFor
<1>1. CASE \A p, q \in People : p = q
  <2>1. LoneInv => DocumentsAreAccountedFor
    BY <1>1 DEF LoneInv, LonePerson, MatchInv, DocumentsAreInHand, UnlinkedIsAccountedFor, Pursued,
                BoxesComeAlong, DocumentsAreAccountedFor
  <2> QED BY <1>1, <2>1, LoneIsInvariant, PTL
<1>2. CASE ~(\A p, q \in People : p = q)
  <2>1. MatchInv => DocumentsAreAccountedFor
    BY <1>2 DEF MatchInv, DocumentsAreInHand, UnlinkedIsAccountedFor, Pursued,
                BoxesComeAlong, DocumentsAreAccountedFor
  <2> QED BY <2>1, MatchingIsInvariant, PTL
<1> QED BY <1>1, <1>2
=============================================================================
