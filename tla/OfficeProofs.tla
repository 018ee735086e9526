----------------------------- MODULE OfficeProofs -----------------------------
(***************************************************************************)
(* Proofs about what surrounds the trades.  First what the graph holds of  *)
(* a store that stands still (GraphProjection), for any tables, replicas   *)
(* and sessions; then what Notices, here Bell, promises of a notice, for   *)
(* any people, sessions and events: its stamps are evidence, and whoever   *)
(* asked for mail was sent it or is on the audit trail as missed; and that *)
(* a report, its job and the notice of it agree (Reporting, here Book).    *)
(*                                                                         *)
(* The three share the names of the replicas, of the sessions, of a bound  *)
(* and of some variables; a theorem speaks of one of them.                 *)
(***************************************************************************)
EXTENDS GraphProjection, FiniteSetTheorems, TLAPS

CONSTANTS
    Users, Roles, FirstAccounts, Browsers, Events, Admin, Hod, MaxChanges,
    People, Wishes, DayLength, MonthLength, DailyAt, MonthlyAt, MonthlyDay, LastTick, MaxReports,
    FirstRules, Documents, RetentionDays, SweepLimit

VARIABLES
    account, browser, notice, audit, sent, tx, faults, changes,
    report, file, rule, run, job, flagged

Bell == INSTANCE Notices
Book == INSTANCE Reporting

-----------------------------------------------------------------------------
(* The graph beside the store (GraphProjection).                           *)

\* NodesOf, EdgesOf: what a row projects, one by one.
LEMMA NodesOfARow ==
    ASSUME NEW r, NEW n
    PROVE  n \in NodesOf(r) <=>
               \/ n = <<Key(r.row), r.says>>
               \/ r.leg # None /\ (n = <<LegKey(r.row), None>> \/ n = <<NameKey(r.leg), r.leg>>)
BY DEF NodesOf

LEMMA EdgesOfARow ==
    ASSUME NEW r, NEW e
    PROVE  e \in EdgesOf(r) <=>
               \/ r.on # None /\ e = <<TradeKey(r.on), Key(r.row)>>
               \/ r.leg # None /\ (e = <<Key(r.row), LegKey(r.row)>> \/ e = <<Key(r.row), NameKey(r.leg)>>)
BY DEF EdgesOf

\* A key names one node of the projection of a store.
LEMMA KeysNameOneNode ==
    ASSUME GraphAssumption, StoreIsSound, NEW n \in Nodes(stored), NEW m \in Nodes(stored), n[1] = m[1]
    PROVE  n = m
<1>1. PICK r \in stored : n \in NodesOf(r)
  BY DEF Nodes
<1>2. PICK o \in stored : m \in NodesOf(o)
  BY DEF Nodes
<1>3. r.row \in Rows /\ o.row \in Rows
  BY DEF StoreIsSound, IsSound, StoredRow
<1>4. /\ r.row = [table |-> r.row.table, id |-> r.row.id] /\ r.row.table \notin {"leg", "supplier"}
      /\ o.row = [table |-> o.row.table, id |-> o.row.id] /\ o.row.table \notin {"leg", "supplier"}
  BY <1>3 DEF GraphAssumption
<1>5. CASE n = <<Key(r.row), r.says>>
  <2>1. n[1] = <<r.row.table, r.row.id>>
    BY <1>5 DEF Key
  <2>2. CASE m = <<Key(o.row), o.says>>
    <3>1. r.row.table = o.row.table /\ r.row.id = o.row.id
      <4>1. m[1] = <<o.row.table, o.row.id>>
        BY <2>2 DEF Key
      <4>2. <<r.row.table, r.row.id>> = <<o.row.table, o.row.id>>
        BY <2>1, <4>1, Zenon
      <4> QED BY <4>2
    <3>2. r.row = o.row
      BY <1>4, <3>1
    <3>3. r = o
      BY <3>2 DEF StoreIsSound
    <3> QED BY <1>5, <2>2, <3>3
  <2>3. CASE m = <<LegKey(o.row), None>> \/ m = <<NameKey(o.leg), o.leg>>
    <3>1. m[1] = <<"leg", o.row.id>> \/ m[1] = <<"supplier", o.leg>>
      BY <2>3 DEF LegKey, NameKey
    <3>2. r.row.table = "leg" \/ r.row.table = "supplier"
      BY <2>1, <3>1
    <3> QED BY <1>4, <3>2
  <2> QED BY <1>2, <2>2, <2>3, NodesOfARow
<1>6. CASE n = <<LegKey(r.row), None>>
  <2>1. CASE m = <<Key(o.row), o.says>> \/ m = <<NameKey(o.leg), o.leg>>
    <3>1. n[1] = <<"leg", r.row.id>>
      BY <1>6 DEF LegKey
    <3>2. m[1] = <<o.row.table, o.row.id>> \/ m[1] = <<"supplier", o.leg>>
      BY <2>1 DEF Key, NameKey
    <3>3. o.row.table = "leg" \/ "leg" = "supplier"
      BY <3>1, <3>2
    <3> QED BY <1>4, <3>3
  <2>2. CASE m = <<LegKey(o.row), None>>
    BY <1>6, <2>2 DEF LegKey
  <2> QED BY <1>2, <2>1, <2>2, NodesOfARow
<1>7. CASE n = <<NameKey(r.leg), r.leg>>
  <2>1. CASE m = <<Key(o.row), o.says>> \/ m = <<LegKey(o.row), None>>
    <3>1. n[1] = <<"supplier", r.leg>>
      BY <1>7 DEF NameKey
    <3>2. m[1] = <<o.row.table, o.row.id>> \/ m[1] = <<"leg", o.row.id>>
      BY <2>1 DEF Key, LegKey
    <3>3. o.row.table = "supplier" \/ "leg" = "supplier"
      BY <3>1, <3>2
    <3> QED BY <1>4, <3>3
  <2>2. CASE m = <<NameKey(o.leg), o.leg>>
    BY <1>7, <2>2 DEF NameKey
  <2> QED BY <1>2, <2>1, <2>2, NodesOfARow
<1> QED BY <1>1, <1>5, <1>6, <1>7, NodesOfARow

\* Merged: with every node of the store there, no edge of it lacks an end.
LEMMA EndsAreThere ==
    ASSUME GraphAssumption, StoreIsSound, Nodes(stored) \subseteq node, NEW e \in Edges(stored)
    PROVE  \A i \in 1..2 : \E n \in node : n[1] = e[i]
<1>1. PICK r \in stored : e \in EdgesOf(r)
  BY DEF Edges
<1>2. \A t \in stored : \A n \in NodesOf(t) : n \in node
  BY DEF Nodes
<1>3. \A t \in stored : <<Key(t.row), t.says>> \in node
  BY <1>2, NodesOfARow
<1>4. CASE r.on # None /\ e = <<TradeKey(r.on), Key(r.row)>>
  <2>1. PICK t \in stored : t.row = TradeRow(r.on)
    BY <1>4 DEF StoreIsSound, IsSound
  <2>2. Key(t.row) = TradeKey(r.on)
    BY <2>1 DEF Key, TradeKey, TradeRow
  <2>3. e[1] = TradeKey(r.on) /\ e[2] = Key(r.row)
    BY <1>4
  <2>4. /\ <<Key(t.row), t.says>>[1] = Key(t.row)
        /\ <<Key(r.row), r.says>>[1] = Key(r.row)
    OBVIOUS
  <2>5. \A i \in 1..2 : i = 1 \/ i = 2
    OBVIOUS
  <2> QED BY <1>3, <2>2, <2>3, <2>4, <2>5
<1>5. CASE r.leg # None /\ (e = <<Key(r.row), LegKey(r.row)>> \/ e = <<Key(r.row), NameKey(r.leg)>>)
  <2>1. <<LegKey(r.row), None>> \in node /\ <<NameKey(r.leg), r.leg>> \in node
    BY <1>2, <1>5, NodesOfARow
  <2>2. e[1] = Key(r.row) /\ (e[2] = LegKey(r.row) \/ e[2] = NameKey(r.leg))
    BY <1>5
  <2>3. /\ <<Key(r.row), r.says>>[1] = Key(r.row) /\ <<LegKey(r.row), None>>[1] = LegKey(r.row)
        /\ <<NameKey(r.leg), r.leg>>[1] = NameKey(r.leg)
    OBVIOUS
  <2>4. \A i \in 1..2 : i = 1 \/ i = 2
    OBVIOUS
  <2> QED BY <1>3, <2>1, <2>2, <2>3, <2>4
<1> QED BY <1>1, <1>4, <1>5, EdgesOfARow

\* Page: of a table that fits a page, the first page is the table.
LEMMA PageIsTheTable ==
    ASSUME GraphAssumption, PagesHold, StoreIsSound, NEW i \in 1..Len(Tables)
    PROVE  Page(Tables[i], Never) = {r \in stored : r.row.table = Tables[i]}
<1> DEFINE newer == {r \in stored : r.row.table = Tables[i] /\ r.stamp > Never}
           rows == {w \in Rows : w.table = Tables[i]}
<1>1. \A r \in stored : r.row \in Rows /\ r.stamp \in Nat
  BY DEF StoreIsSound, IsSound, StoredRow
<1>2. newer = {r \in stored : r.row.table = Tables[i]}
  BY <1>1 DEF Never
<1>3. IsFiniteSet(rows) /\ Cardinality(rows) <= Limit
  BY FS_Subset DEF GraphAssumption, PagesHold
<1>4. ASSUME NEW r \in newer
      PROVE  Cardinality({o \in newer : o.stamp < r.stamp}) < Limit
  <2> DEFINE older == {o \in newer : o.stamp < r.stamp}
             others == rows \ {r.row}
             f == [o \in older |-> o.row]
  <2>1. r \notin older /\ older \subseteq newer
    BY <1>1
  <2>2. \A o \in older : o.row \in others
    <3>1. \A o \in older : o # r /\ o \in stored /\ r \in stored
      BY <2>1
    <3> QED BY <1>1, <3>1 DEF StoreIsSound
  <2>3. \A o, u \in older : o.row = u.row => o = u
    BY DEF StoreIsSound
  <2>4. f \in Injection(older, others)
    <3> HIDE DEF older, others
    <3> QED BY <2>2, <2>3 DEF Injection, IsInjective
  <2>5. r.row \in rows
    BY <1>1
  <2>6. IsFiniteSet(others) /\ Cardinality(others) = Cardinality(rows) - 1 /\ Cardinality(rows) \in Nat
    BY <1>3, <2>5, FS_RemoveElement, FS_CardinalityType
  <2>7. IsFiniteSet(older) /\ Cardinality(older) <= Cardinality(others)
    <3> HIDE DEF older, others, f
    <3> QED BY <2>4, <2>6, FS_Injection
  <2>8. Cardinality(older) \in Nat
    BY <2>7, FS_CardinalityType
  <2> HIDE DEF older, others, rows
  <2> QED BY <1>3, <2>6, <2>7, <2>8 DEF GraphAssumption, older
<1> QED
  <2>1. Page(Tables[i], Never) = {r \in newer : Cardinality({o \in newer : o.stamp < r.stamp}) < Limit}
    BY DEF Page
  <2> HIDE DEF newer
  <2> QED BY <1>2, <1>4, <2>1

\* What is found of the store projects into the projection of the store.
LEMMA PartsProject ==
    ASSUME NEW S, NEW T, S \subseteq T
    PROVE  Nodes(S) \subseteq Nodes(T) /\ Edges(S) \subseteq Edges(T)
BY DEF Nodes, Edges

-----------------------------------------------------------------------------
(* A step of one reader.                                                   *)

\* A change of the graph that loses nothing of a projection, and adds nothing to it.
Keeps(projected, found, later) ==
    /\ projected \subseteq found => projected \subseteq later
    /\ found \subseteq projected => later \subseteq projected

LEMMA StoreStands ==
    ASSUME StoreIsSound, UNCHANGED <<stored, open, clock>>
    PROVE  StoreIsSound'
BY DEF StoreIsSound, IsSound, StoredRow

LEMMA ReaderMoves ==
    ASSUME GraphAssumption, GraphInv, NEW p \in Readers, NEW w, w \in PassSince(w.since),
           w.phase \in {"idle", "built"} => w.found = {}, w.table > 0,
           pass' = [pass EXCEPT ![p] = w], UNCHANGED <<stored, open, clock>>,
           \A q \in Readers : pass[q].calm /\ q # p => w.found \subseteq stored,
           \A q \in Readers : pass[q].calm /\ q # p =>
               Keeps(Nodes(stored), node, node') /\ Keeps(Edges(stored), edge, edge'),
           w.calm => CalmIsComplete(p)'
    PROVE  GraphInv'
<1>1. StoreIsSound'
  BY StoreStands DEF GraphInv
<1>2. DOMAIN pass' = Readers /\ pass'[p] = w /\ \A q \in Readers : q # p => pass'[q] = pass[q]
  BY DEF GraphInv, PassesAreSound
<1>3. PassesAreSound'
  <2>1. ASSUME NEW q \in Readers
        PROVE  /\ pass'[q] \in PassSince(pass'[q].since)
               /\ pass'[q].table > 0
               /\ pass'[q].phase \in {"idle", "built"} => pass'[q].found = {}
    <3>1. CASE q = p
      BY <1>2, <3>1
    <3>2. CASE q # p
      BY <1>2, <3>2 DEF GraphInv, PassesAreSound
    <3> QED BY <3>1, <3>2
  <2> QED BY <1>2, <2>1 DEF PassesAreSound, PassSince, StoredRow
<1>4. ASSUME NEW q \in Readers, pass'[q].calm PROVE CalmIsComplete(q)'
  <2>1. CASE q = p
    BY <1>2, <1>4, <2>1
  <2>2. CASE q # p
    <3>1. pass'[q] = pass[q] /\ pass[q].calm
      BY <1>2, <1>4, <2>2
    <3>2. CalmIsComplete(q)
      BY <3>1 DEF GraphInv
    <3>3. stored' = stored /\ open' = open
      OBVIOUS
    <3>4. \A o \in Readers : pass'[o].found \subseteq stored
      BY <1>2, <2>2, <3>1, <3>2 DEF CalmIsComplete
    <3>5. Nodes(stored)' = Nodes(stored) /\ Edges(stored)' = Edges(stored)
      BY <3>3 DEF Nodes, Edges, NodesOf, EdgesOf
    <3>6. Keeps(Nodes(stored), node, node') /\ Keeps(Edges(stored), edge, edge')
      BY <2>2, <3>1
    <3>7. Complete => Complete'
      BY <3>5, <3>6 DEF Complete, Keeps
    <3>8. ReadSoFar(q)' = ReadSoFar(q)
      BY <3>1, <3>3 DEF ReadSoFar
    <3> QED BY <3>1, <3>2, <3>3, <3>4, <3>5, <3>6, <3>7, <3>8 DEF CalmIsComplete, Keeps
  <2> QED BY <2>1, <2>2
<1> QED BY <1>1, <1>3, <1>4 DEF GraphInv

LEMMA GraphStands ==
    ASSUME UNCHANGED <<node, edge>>
    PROVE  Keeps(Nodes(stored), node, node') /\ Keeps(Edges(stored), edge, edge')
BY DEF Keeps

LEMMA BeginSweepKeeps ==
    ASSUME GraphAssumption, GraphInv, NEW p \in Readers, BeginSweep(p)
    PROVE  GraphInv'
<1> DEFINE calm == IF pass[p].since = Never THEN Quiet(p) ELSE pass[p].calm
           w == [pass[p] EXCEPT !.phase = "reading", !.table = 1, !.found = {}, !.calm = calm]
<1>1. pass[p] \in PassSince(pass[p].since) /\ DOMAIN pass = Readers
  BY DEF GraphInv, PassesAreSound
<1>2. calm \in BOOLEAN
  BY <1>1 DEF PassSince, Quiet
<1>3. pass' = [pass EXCEPT ![p] = w]
  BY <1>1 DEF BeginSweep
<1>4. p \in Replicas /\ p \notin Scripts
  BY DEF BeginSweep, GraphAssumption
<1>5. ASSUME pass[p].since = Never, calm PROVE Quiet(p)
  <2>1. calm = Quiet(p)
    BY <1>5
  <2> QED BY <1>5, <2>1, Zenon
<1>6. ASSUME pass[p].since # Never, calm PROVE pass[p].calm
  <2>1. calm = pass[p].calm
    BY <1>6
  <2> QED BY <1>6, <2>1, Zenon
<1> HIDE DEF calm
<1>7. /\ w \in PassSince(w.since) /\ w.since = pass[p].since /\ w.phase = "reading" /\ w.table = 1
      /\ w.found = {} /\ w.calm = calm
  <2>1. w.since = pass[p].since /\ w.phase = "reading" /\ w.table = 1 /\ w.found = {}
    BY <1>1 DEF PassSince
  <2>2. w.calm = calm
    BY <1>1 DEF PassSince
  <2>3. w \in PassSince(pass[p].since)
    BY <1>1, <1>2 DEF PassSince
  <2> HIDE DEF w
  <2> QED BY <2>1, <2>2, <2>3
<1> HIDE DEF w
<1>8. stored' = stored /\ open' = open /\ clock' = clock /\ node' = node /\ edge' = edge
  BY DEF BeginSweep
<1>9. pass'[p] = w /\ \A q \in Readers : q # p => pass'[q] = pass[q]
  BY <1>1, <1>3
<1>10. ASSUME calm PROVE CalmIsComplete(p)'
  <2>1. (\A s \in Sessions : open[s] = {}) /\ \A q \in Readers : pass'[q].found \subseteq stored
    <3>1. CASE pass[p].since = Never
      <4>1. Quiet(p)
        BY <1>5, <1>10, <3>1
      <4>2. \A q \in Readers \ {p} : pass[q].found = {}
        BY <4>1 DEF Quiet, OthersIdle, GraphInv, PassesAreSound
      <4> QED BY <1>7, <1>9, <4>1, <4>2 DEF Quiet
    <3>2. CASE pass[p].since # Never
      <4>1. CalmIsComplete(p)
        BY <1>6, <1>10, <3>2 DEF GraphInv
      <4> QED BY <1>7, <1>9, <4>1 DEF CalmIsComplete
    <3> QED BY <3>1, <3>2
  <2>2. pass'[p].since # Never => Complete'
    <3>1. pass[p].since # Never => Complete
      BY <1>6, <1>10 DEF GraphInv, CalmIsComplete
    <3>2. Complete' = Complete
      BY <1>8 DEF Complete, Nodes, Edges, NodesOf, EdgesOf
    <3> QED BY <1>7, <1>9, <3>1, <3>2
  <2>3. ReadSoFar(p)' = {}
    BY <1>7, <1>9 DEF ReadSoFar
  <2> QED BY <1>4, <1>7, <1>8, <1>9, <2>1, <2>2, <2>3 DEF CalmIsComplete
<1> QED
  <2>1. \A q \in Readers : pass[q].calm /\ q # p =>
            Keeps(Nodes(stored), node, node') /\ Keeps(Edges(stored), edge, edge')
    BY <1>8, GraphStands
  <2>2. w.calm => CalmIsComplete(p)'
    <3>1. w.calm = calm
      BY <1>7
    <3> QED BY <1>10, <3>1, Zenon
  <2>3. w.table > 0 /\ (w.phase \in {"idle", "built"} => w.found = {})
    BY <1>7
  <2>4. \A q \in Readers : pass[q].calm /\ q # p => w.found \subseteq stored
    BY <1>7
  <2>5. w \in PassSince(w.since) /\ UNCHANGED <<stored, open, clock>>
    BY <1>7, <1>8
  <2> QED BY <1>3, <2>1, <2>2, <2>3, <2>4, <2>5, ReaderMoves, Zenon

\* What everybody finds is in the store, and what a first page holds is all
\* of the tables it has been through.
LEMMA ReadTableKeeps ==
    ASSUME GraphAssumption, PagesHold, GraphInv, NEW p \in Readers, ReadTable(p)
    PROVE  GraphInv'
<1> DEFINE page == Page(Tables[pass[p].table], pass[p].since)
           w == [pass[p] EXCEPT !.table = @ + 1, !.found = @ \cup page]
<1>1. pass[p] \in PassSince(pass[p].since) /\ DOMAIN pass = Readers /\ pass[p].table > 0
  BY DEF GraphInv, PassesAreSound
<1>2. pass' = [pass EXCEPT ![p] = w]
  BY <1>1 DEF ReadTable
<1>3. page \subseteq stored
  BY DEF Page
<1>4. stored \subseteq StoredRow /\ page \subseteq StoredRow
  <2>1. stored \subseteq StoredRow
    BY DEF GraphInv, StoreIsSound, IsSound
  <2> QED BY <1>3, <2>1
<1>5. pass[p].phase = "reading" /\ pass[p].table \in 1..Len(Tables)
  BY <1>1 DEF ReadTable, PassSince, GraphAssumption
<1>6. pass[p].since = Never => page = {r \in stored : r.row.table = Tables[pass[p].table]}
  BY <1>5, PageIsTheTable DEF GraphInv
<1> HIDE DEF page
<1>7. /\ w.since = pass[p].since /\ w.phase = "reading" /\ w.table = pass[p].table + 1
      /\ w.found = pass[p].found \cup page /\ w.calm = pass[p].calm
  BY <1>1, <1>5 DEF PassSince
<1>8. w \in PassSince(w.since)
  <2>1. pass[p].table + 1 \in Nat /\ pass[p].found \cup page \in SUBSET StoredRow
    BY <1>1, <1>4 DEF PassSince
  <2>2. w = [pass[p] EXCEPT !.table = pass[p].table + 1, !.found = pass[p].found \cup page]
    BY Zenon
  <2>3. w \in PassSince(pass[p].since)
    <3> DEFINE t == pass[p].table + 1
               f == pass[p].found \cup page
    <3>1. t \in Nat /\ f \in SUBSET StoredRow /\ w = [pass[p] EXCEPT !.table = t, !.found = f]
      BY <2>1, <2>2, Zenon
    <3> HIDE DEF t, f, w
    <3> QED BY <1>1, <3>1 DEF PassSince
  <2> HIDE DEF w
  <2> QED BY <1>7, <2>3
<1> HIDE DEF w
<1>9. UNCHANGED <<stored, open, clock>> /\ UNCHANGED <<node, edge>>
  BY DEF ReadTable
<1>10. pass'[p] = w /\ \A q \in Readers : q # p => pass'[q] = pass[q]
  BY <1>1, <1>2
<1>11. \A q \in Readers : pass[q].calm => w.found \subseteq stored
  BY <1>3, <1>7 DEF GraphInv, CalmIsComplete
<1>12. w.calm => CalmIsComplete(p)'
  <2>1. SUFFICES ASSUME pass[p].calm PROVE CalmIsComplete(p)'
    <3>1. w.calm = pass[p].calm
      BY <1>7
    <3> QED BY <2>1, <3>1, Zenon
  <2>2. CalmIsComplete(p)
    BY <2>1 DEF GraphInv
  <2>3. (\A s \in Sessions : open'[s] = {}) /\ \A q \in Readers : pass'[q].found \subseteq stored'
    BY <1>9, <1>10, <1>11, <2>1, <2>2 DEF CalmIsComplete
  <2>4. /\ Complete' = Complete /\ Nodes(stored)' = Nodes(stored) /\ Edges(stored)' = Edges(stored)
        /\ node' = node /\ edge' = edge
    BY <1>9 DEF Complete, Nodes, Edges, NodesOf, EdgesOf
  <2>5. ASSUME pass[p].since = Never PROVE w.found = ReadSoFar(p)'
    <3>1. pass[p].found = ReadSoFar(p)
      BY <1>5, <2>2, <2>5 DEF CalmIsComplete
    <3>2. ReadSoFar(p)' = {r \in stored : \E i \in 1..pass[p].table : r.row.table = Tables[i]}
      BY <1>1, <1>7, <1>9, <1>10 DEF ReadSoFar, PassSince
    <3>3. \A i : i \in 1..pass[p].table <=> i \in 1..pass[p].table - 1 \/ i = pass[p].table
      BY <1>5
    <3> QED BY <1>6, <1>7, <2>5, <3>1, <3>2, <3>3 DEF ReadSoFar
  <2> QED BY <1>5, <1>7, <1>10, <2>2, <2>3, <2>4, <2>5 DEF CalmIsComplete
<1>13. \A q \in Readers : pass[q].calm /\ q # p =>
           Keeps(Nodes(stored), node, node') /\ Keeps(Edges(stored), edge, edge')
  BY <1>9, GraphStands
<1>14. w.table > 0 /\ (w.phase \in {"idle", "built"} => w.found = {})
  BY <1>1, <1>7 DEF PassSince
<1> QED BY <1>2, <1>8, <1>9, <1>11, <1>12, <1>13, <1>14, ReaderMoves, Zenon

\* A reader that has been through every table has been through the store.
LEMMA AllIsRead ==
    ASSUME GraphAssumption, GraphInv, NEW p \in Readers, pass[p].table > Len(Tables)
    PROVE  ReadSoFar(p) = stored
<1>1. pass[p].table \in Nat /\ Len(Tables) \in Nat
  BY DEF GraphInv, PassesAreSound, PassSince, GraphAssumption
<1>2. ASSUME NEW r \in stored PROVE \E i \in 1..pass[p].table - 1 : r.row.table = Tables[i]
  <2>1. r.row \in Rows
    BY DEF GraphInv, StoreIsSound, IsSound, StoredRow
  <2>2. PICK i \in 1..Len(Tables) : Tables[i] = r.row.table
    BY <2>1 DEF GraphAssumption
  <2>3. i \in 1..pass[p].table - 1
    BY <1>1
  <2> QED BY <2>2, <2>3
<1> QED BY <1>2 DEF ReadSoFar

\* A store of which nothing was found on a first page is empty.
LEMMA NothingNewKeeps ==
    ASSUME GraphAssumption, GraphInv, NEW p \in Readers, NothingNew(p)
    PROVE  GraphInv'
<1> DEFINE phase == IF p \in Scripts THEN "built" ELSE "idle"
           w == [pass[p] EXCEPT !.phase = phase]
<1>1. pass[p] \in PassSince(pass[p].since) /\ DOMAIN pass = Readers /\ pass[p].table > 0
  BY DEF GraphInv, PassesAreSound
<1>2. pass' = [pass EXCEPT ![p] = w]
  BY <1>1 DEF NothingNew
<1>3. phase \in {"built", "idle"} /\ (p \notin Scripts => phase = "idle")
  OBVIOUS
<1>4. pass[p].phase = "reading" /\ pass[p].table > Len(Tables) /\ pass[p].found = {}
  BY DEF NothingNew
<1> HIDE DEF phase
<1>5. /\ w.since = pass[p].since /\ w.phase = phase /\ w.table = pass[p].table /\ w.found = {}
      /\ w.calm = pass[p].calm
  BY <1>1, <1>4 DEF PassSince
<1>6. w \in PassSince(w.since)
  <2>1. w \in PassSince(pass[p].since)
    BY <1>1, <1>3 DEF PassSince
  <2> HIDE DEF w
  <2> QED BY <1>5, <2>1
<1> HIDE DEF w
<1>7. UNCHANGED <<stored, open, clock>> /\ UNCHANGED <<node, edge>>
  BY DEF NothingNew
<1>8. pass'[p] = w /\ \A q \in Readers : q # p => pass'[q] = pass[q]
  BY <1>1, <1>2
<1>9. w.calm => CalmIsComplete(p)'
  <2>1. SUFFICES ASSUME pass[p].calm PROVE CalmIsComplete(p)'
    <3>1. w.calm = pass[p].calm
      BY <1>5
    <3> QED BY <2>1, <3>1, Zenon
  <2>2. CalmIsComplete(p)
    BY <2>1 DEF GraphInv
  <2>3. (\A s \in Sessions : open'[s] = {}) /\ \A q \in Readers : pass'[q].found \subseteq stored'
    BY <1>5, <1>7, <1>8, <2>2 DEF CalmIsComplete
  <2>4. /\ Complete' = Complete /\ Nodes(stored)' = Nodes(stored) /\ Edges(stored)' = Edges(stored)
        /\ node' = node /\ edge' = edge
    BY <1>7 DEF Complete, Nodes, Edges, NodesOf, EdgesOf
  <2>5. Complete
    <3>1. CASE pass[p].since # Never
      BY <2>2, <3>1 DEF CalmIsComplete
    <3>2. CASE pass[p].since = Never
      <4>1. stored = {}
        BY <1>4, <2>2, <3>2, AllIsRead DEF CalmIsComplete
      <4> QED BY <4>1 DEF Complete, Nodes, Edges
    <3> QED BY <3>1, <3>2
  <2> QED BY <1>3, <1>4, <1>5, <1>8, <2>2, <2>3, <2>4, <2>5 DEF CalmIsComplete
<1>10. \A q \in Readers : pass[q].calm /\ q # p =>
           Keeps(Nodes(stored), node, node') /\ Keeps(Edges(stored), edge, edge')
  BY <1>7, GraphStands
<1>11. /\ w.table > 0 /\ (w.phase \in {"idle", "built"} => w.found = {})
       /\ \A q \in Readers : pass[q].calm /\ q # p => w.found \subseteq stored
  BY <1>1, <1>5
<1> QED BY <1>2, <1>6, <1>7, <1>9, <1>10, <1>11, ReaderMoves, Zenon

\* Writing what the store holds takes nothing of it away.
LEMMA NodesAreKept ==
    ASSUME GraphAssumption, StoreIsSound, NEW found, found \subseteq stored,
           node' = {n \in node : \A w \in Nodes(found) : w[1] # n[1]} \cup Nodes(found)
    PROVE  Keeps(Nodes(stored), node, node')
<1>1. Nodes(found) \subseteq Nodes(stored)
  BY PartsProject
<1>2. ASSUME Nodes(stored) \subseteq node, NEW n \in Nodes(stored) PROVE n \in node'
  BY <1>1, <1>2, KeysNameOneNode
<1> QED BY <1>1, <1>2 DEF Keeps

LEMMA EdgesAreKept ==
    ASSUME NEW found, found \subseteq stored, edge' = Merged(Edges(found))
    PROVE  Keeps(Edges(stored), edge, edge')
<1>1. Edges(found) \subseteq Edges(stored)
  BY PartsProject
<1> QED BY <1>1 DEF Keeps, Merged

LEMMA UpsertNodesKeeps ==
    ASSUME GraphAssumption, GraphInv, NEW p \in Readers, UpsertNodes(p)
    PROVE  GraphInv'
<1> DEFINE w == [pass[p] EXCEPT !.phase = "joining"]
<1>1. pass[p] \in PassSince(pass[p].since) /\ DOMAIN pass = Readers /\ pass[p].table > 0
  BY DEF GraphInv, PassesAreSound
<1>2. pass' = [pass EXCEPT ![p] = w]
  BY <1>1 DEF UpsertNodes
<1>3. pass[p].phase = "reading" /\ pass[p].table > Len(Tables)
  BY DEF UpsertNodes
<1>4. /\ w.since = pass[p].since /\ w.phase = "joining" /\ w.table = pass[p].table
      /\ w.found = pass[p].found /\ w.calm = pass[p].calm
  BY <1>1 DEF PassSince
<1>5. w \in PassSince(w.since)
  <2>1. w \in PassSince(pass[p].since)
    BY <1>1 DEF PassSince
  <2> HIDE DEF w
  <2> QED BY <1>4, <2>1
<1> HIDE DEF w
<1>6. UNCHANGED <<stored, open, clock>> /\ edge' = edge
  BY DEF UpsertNodes
<1>7. pass'[p] = w /\ \A q \in Readers : q # p => pass'[q] = pass[q]
  BY <1>1, <1>2
<1>8. \A q \in Readers : pass[q].calm => pass[p].found \subseteq stored
  BY DEF GraphInv, CalmIsComplete
<1>9. node' = {n \in node : \A m \in Nodes(pass[p].found) : m[1] # n[1]} \cup Nodes(pass[p].found)
  BY DEF UpsertNodes
<1>10. ASSUME pass[p].found \subseteq stored
       PROVE  Keeps(Nodes(stored), node, node') /\ Keeps(Edges(stored), edge, edge')
  <2>1. Keeps(Nodes(stored), node, node')
    BY <1>9, <1>10, NodesAreKept DEF GraphInv
  <2>2. Keeps(Edges(stored), edge, edge')
    BY <1>6 DEF Keeps
  <2> QED BY <2>1, <2>2
<1>11. w.calm => CalmIsComplete(p)'
  <2>1. SUFFICES ASSUME pass[p].calm PROVE CalmIsComplete(p)'
    <3>1. w.calm = pass[p].calm
      BY <1>4
    <3> QED BY <2>1, <3>1, Zenon
  <2>2. CalmIsComplete(p) /\ pass[p].found \subseteq stored
    BY <1>8, <2>1 DEF GraphInv
  <2>3. (\A s \in Sessions : open'[s] = {}) /\ \A q \in Readers : pass'[q].found \subseteq stored'
    BY <1>4, <1>6, <1>7, <2>2 DEF CalmIsComplete
  <2>4. Nodes(stored)' = Nodes(stored) /\ Edges(stored)' = Edges(stored)
    BY <1>6 DEF Nodes, Edges, NodesOf, EdgesOf
  <2>5. Complete => Complete'
    BY <1>6, <1>10, <2>2, <2>4 DEF Complete, Keeps
  <2>6. pass[p].since = Never => pass[p].found = stored
    BY <1>3, <2>2, AllIsRead DEF CalmIsComplete
  <2>7. pass[p].found = stored => Nodes(stored) \subseteq node'
    BY <1>9
  <2>8. node \subseteq Nodes(stored) => node' \subseteq Nodes(stored)
    BY <1>10, <2>2 DEF Keeps
  <2>9. /\ pass[p].since # Never => Complete'
        /\ p \in Scripts => node' \subseteq Nodes(stored) /\ edge' \subseteq Edges(stored)
    BY <1>3, <1>6, <2>2, <2>5, <2>8 DEF CalmIsComplete
  <2>10. pass'[p].since = pass[p].since /\ pass'[p].phase = "joining" /\ pass'[p].found = pass[p].found
    BY <1>4, <1>7
  <2> QED BY <1>6, <2>3, <2>4, <2>6, <2>7, <2>9, <2>10 DEF CalmIsComplete
<1>12. /\ w.table > 0 /\ (w.phase \in {"idle", "built"} => w.found = {})
       /\ \A q \in Readers : pass[q].calm /\ q # p => w.found \subseteq stored
  BY <1>1, <1>4, <1>8
<1>13. \A q \in Readers : pass[q].calm /\ q # p =>
           Keeps(Nodes(stored), node, node') /\ Keeps(Edges(stored), edge, edge')
  BY <1>8, <1>10
<1> QED BY <1>2, <1>5, <1>6, <1>11, <1>12, <1>13, ReaderMoves, Zenon

\* Every edge of a first page has both of its ends by now.
LEMMA UpsertEdgesKeeps ==
    ASSUME GraphAssumption, GraphInv, NEW p \in Readers, UpsertEdges(p)
    PROVE  GraphInv'
<1> DEFINE phase == CASE p \in Replicas -> "idle"
                      [] Newest(p) = pass[p].since -> "built"
                      [] OTHER -> "reading"
           since == Newest(p)
           w == [pass[p] EXCEPT !.since = since, !.table = 1, !.found = {}, !.phase = phase]
<1>1. pass[p] \in PassSince(pass[p].since) /\ DOMAIN pass = Readers /\ pass[p].table > 0
  BY DEF GraphInv, PassesAreSound
<1>2. pass' = [pass EXCEPT ![p] = w]
  <2>1. pass' = [pass EXCEPT ![p].since = since, ![p].table = 1, ![p].found = {}, ![p].phase = phase]
    BY Zenon DEF UpsertEdges
  <2> HIDE DEF phase, since
  <2> QED BY <1>1, <2>1
<1>3. phase \in {"idle", "built", "reading"}
  OBVIOUS
<1>4. pass[p].phase = "joining"
  BY DEF UpsertEdges
<1> HIDE DEF phase, since
<1>5. /\ w.since = since /\ w.phase = phase /\ w.table = 1 /\ w.found = {}
      /\ w.calm = pass[p].calm
  BY <1>1 DEF PassSince
<1>6. w \in PassSince(w.since)
  <2>1. w \in PassSince(since)
    BY <1>1, <1>3 DEF PassSince
  <2> HIDE DEF w
  <2> QED BY <1>5, <2>1
<1> HIDE DEF w
<1>7. UNCHANGED <<stored, open, clock>> /\ node' = node
  BY DEF UpsertEdges
<1>8. pass'[p] = w /\ \A q \in Readers : q # p => pass'[q] = pass[q]
  BY <1>1, <1>2
<1>9. \A q \in Readers : pass[q].calm => pass[p].found \subseteq stored
  BY DEF GraphInv, CalmIsComplete
<1>10. edge' = Merged(Edges(pass[p].found))
  BY DEF UpsertEdges
<1>11. ASSUME pass[p].found \subseteq stored
       PROVE  Keeps(Nodes(stored), node, node') /\ Keeps(Edges(stored), edge, edge')
  BY <1>7, <1>10, <1>11, EdgesAreKept DEF Keeps
<1>12. w.calm => CalmIsComplete(p)'
  <2>1. SUFFICES ASSUME pass[p].calm PROVE CalmIsComplete(p)'
    <3>1. w.calm = pass[p].calm
      BY <1>5
    <3> QED BY <2>1, <3>1, Zenon
  <2>2. CalmIsComplete(p) /\ pass[p].found \subseteq stored
    BY <1>9, <2>1 DEF GraphInv
  <2>3. (\A s \in Sessions : open'[s] = {}) /\ \A q \in Readers : pass'[q].found \subseteq stored'
    BY <1>5, <1>7, <1>8, <2>2 DEF CalmIsComplete
  <2>4. Nodes(stored)' = Nodes(stored) /\ Edges(stored)' = Edges(stored)
    BY <1>7 DEF Nodes, Edges, NodesOf, EdgesOf
  <2>5. Nodes(stored) \subseteq node /\ Edges(stored) \subseteq edge'
    <3>1. CASE pass[p].since # Never
      BY <1>11, <2>2, <3>1 DEF CalmIsComplete, Complete, Keeps
    <3>2. CASE pass[p].since = Never
      <4>1. pass[p].found = stored /\ Nodes(stored) \subseteq node
        BY <1>4, <2>2, <3>2 DEF CalmIsComplete
      <4>2. \A e \in Edges(stored) : \A i \in 1..2 : \E n \in node : n[1] = e[i]
        BY <4>1, EndsAreThere DEF GraphInv
      <4> QED BY <1>10, <4>1, <4>2 DEF Merged
    <3> QED BY <3>1, <3>2
  <2>6. Complete'
    BY <1>7, <2>4, <2>5 DEF Complete
  <2>7. p \in Scripts => node' \subseteq Nodes(stored) /\ edge' \subseteq Edges(stored)
    BY <1>4, <1>7, <1>11, <2>2 DEF CalmIsComplete, Keeps
  <2>8. ReadSoFar(p)' = {}
    BY <1>5, <1>8 DEF ReadSoFar
  <2>9. pass'[p].phase # "joining" /\ pass'[p].found = {}
    BY <1>3, <1>5, <1>8
  <2> QED BY <2>3, <2>4, <2>6, <2>7, <2>8, <2>9 DEF CalmIsComplete
<1>13. /\ w.table > 0 /\ (w.phase \in {"idle", "built"} => w.found = {})
       /\ \A q \in Readers : pass[q].calm /\ q # p => w.found \subseteq stored
  BY <1>5
<1>14. \A q \in Readers : pass[q].calm /\ q # p =>
           Keeps(Nodes(stored), node, node') /\ Keeps(Edges(stored), edge, edge')
  BY <1>9, <1>11
<1> QED BY <1>2, <1>6, <1>7, <1>12, <1>13, <1>14, ReaderMoves, Zenon

\* A sweep that was refused has taken nothing away.
LEMMA RefuseKeeps ==
    ASSUME GraphAssumption, GraphInv, NEW p \in Readers, Refuse(p)
    PROVE  GraphInv'
<1> DEFINE w == [pass[p] EXCEPT !.phase = "idle", !.found = {}]
<1>1. pass[p] \in PassSince(pass[p].since) /\ DOMAIN pass = Readers /\ pass[p].table > 0
  BY DEF GraphInv, PassesAreSound
<1>2. pass' = [pass EXCEPT ![p] = w]
  BY <1>1 DEF Refuse, Failed
<1>3. pass[p].phase \in {"reading", "joining"}
  BY DEF Refuse
<1>4. /\ w.since = pass[p].since /\ w.phase = "idle" /\ w.table = pass[p].table /\ w.found = {}
      /\ w.calm = pass[p].calm
  BY <1>1 DEF PassSince
<1>5. w \in PassSince(w.since)
  <2>1. w \in PassSince(pass[p].since)
    BY <1>1 DEF PassSince
  <2> HIDE DEF w
  <2> QED BY <1>4, <2>1
<1> HIDE DEF w
<1>6. UNCHANGED <<stored, open, clock>> /\ UNCHANGED <<node, edge>>
  BY DEF Refuse
<1>7. pass'[p] = w /\ \A q \in Readers : q # p => pass'[q] = pass[q]
  BY <1>1, <1>2
<1>8. w.calm => CalmIsComplete(p)'
  <2>1. SUFFICES ASSUME pass[p].calm PROVE CalmIsComplete(p)'
    <3>1. w.calm = pass[p].calm
      BY <1>4
    <3> QED BY <2>1, <3>1, Zenon
  <2>2. CalmIsComplete(p)
    BY <2>1 DEF GraphInv
  <2>3. (\A s \in Sessions : open'[s] = {}) /\ \A q \in Readers : pass'[q].found \subseteq stored'
    BY <1>4, <1>6, <1>7, <2>2 DEF CalmIsComplete
  <2>4. Complete' = Complete
    BY <1>6 DEF Complete, Nodes, Edges, NodesOf, EdgesOf
  <2> QED BY <1>4, <1>7, <2>2, <2>3, <2>4 DEF CalmIsComplete
<1>9. \A q \in Readers : pass[q].calm /\ q # p =>
          Keeps(Nodes(stored), node, node') /\ Keeps(Edges(stored), edge, edge')
  BY <1>6, GraphStands
<1>10. /\ w.table > 0 /\ (w.phase \in {"idle", "built"} => w.found = {})
       /\ \A q \in Readers : pass[q].calm /\ q # p => w.found \subseteq stored
  BY <1>1, <1>4
<1> QED BY <1>2, <1>5, <1>6, <1>8, <1>9, <1>10, ReaderMoves, Zenon

LEMMA RestartKeeps ==
    ASSUME GraphAssumption, GraphInv, NEW p \in Readers, Restart(p)
    PROVE  GraphInv'
<1> DEFINE w == NoPass
<1>1. pass' = [pass EXCEPT ![p] = w] /\ UNCHANGED <<stored, open, clock>> /\ UNCHANGED <<node, edge>>
  BY DEF Restart
<1>2. /\ w \in PassSince(w.since) /\ w.table > 0
      /\ (w.phase \in {"idle", "built"} => w.found = {})
      /\ \A q \in Readers : pass[q].calm /\ q # p => w.found \subseteq stored
  BY DEF NoPass, PassSince, Never
<1>3. w.calm => CalmIsComplete(p)'
  <2>1. w.calm = FALSE
    BY DEF NoPass
  <2> QED BY <2>1, Zenon
<1>4. \A q \in Readers : pass[q].calm /\ q # p =>
          Keeps(Nodes(stored), node, node') /\ Keeps(Edges(stored), edge, edge')
  BY <1>1, GraphStands
<1> HIDE DEF w
<1> QED BY <1>1, <1>2, <1>3, <1>4, ReaderMoves, Zenon

-----------------------------------------------------------------------------
(* A step that disturbs whoever is reading.                                *)

\* Disturbed: nobody counts as calm, and nothing else about a pass changes.
LEMMA NobodyIsCalm ==
    ASSUME PassesAreSound, NEW p \in Readers
    PROVE  /\ Disturbed(pass)[p].calm = FALSE
           /\ Disturbed(pass)[p] \in PassSince(Disturbed(pass)[p].since)
           /\ Disturbed(pass)[p].table > 0
           /\ Disturbed(pass)[p].phase \in {"idle", "built"} => Disturbed(pass)[p].found = {}
           /\ DOMAIN Disturbed(pass) = Readers
<1> DEFINE w == [pass[p] EXCEPT !.calm = FALSE]
<1>1. Disturbed(pass)[p] = w /\ DOMAIN Disturbed(pass) = Readers
  BY DEF Disturbed
<1>2. pass[p] \in PassSince(pass[p].since)
  BY DEF PassesAreSound
<1>3. /\ w.since = pass[p].since /\ w.phase = pass[p].phase /\ w.table = pass[p].table
      /\ w.found = pass[p].found
  BY <1>2 DEF PassSince
<1>4. w.calm = FALSE
  BY <1>2 DEF PassSince
<1>5. w \in PassSince(pass[p].since)
  BY <1>2 DEF PassSince
<1> HIDE DEF w
<1>6. w \in PassSince(w.since)
  BY <1>3, <1>5
<1>7. w.table > 0 /\ (w.phase \in {"idle", "built"} => w.found = {})
  BY <1>3 DEF PassesAreSound
<1> QED BY <1>1, <1>4, <1>6, <1>7, Zenon

LEMMA DisturbedStands ==
    ASSUME PassesAreSound, StoreIsSound', pass' = Disturbed(pass)
    PROVE  GraphInv'
<1>1. PassesAreSound'
  <2>1. /\ DOMAIN pass' = Readers
        /\ \A p \in Readers : /\ pass'[p] \in PassSince(pass'[p].since) /\ pass'[p].table > 0
                              /\ pass'[p].phase \in {"idle", "built"} => pass'[p].found = {}
    <3>1. \A p \in Readers : /\ pass'[p] \in PassSince(pass'[p].since) /\ pass'[p].table > 0
                             /\ pass'[p].phase \in {"idle", "built"} => pass'[p].found = {}
      BY NobodyIsCalm, Zenon
    <3>2. DOMAIN pass' = Readers
      BY DEF Disturbed
    <3> QED BY <3>1, <3>2
  <2> QED BY <2>1 DEF PassesAreSound, PassSince, StoredRow
<1>2. \A p \in Readers : pass'[p].calm = FALSE
  BY NobodyIsCalm, Zenon
<1>3. \A p \in Readers : pass'[p].calm => CalmIsComplete(p)'
  BY <1>2, Zenon
<1> QED BY <1>1, <1>3 DEF GraphInv

\* A rebuild takes everything away, and whoever reads meanwhile knows less.
LEMMA BeginRebuildKeeps ==
    ASSUME GraphAssumption, GraphInv, NEW p \in Readers, BeginRebuild(p)
    PROVE  GraphInv'
<1> DEFINE calm == Quiet(p)
           w == [NoPass EXCEPT !.phase = "reading", !.calm = calm]
<1>1. StoreIsSound' /\ PassesAreSound
  BY StoreStands DEF GraphInv, BeginRebuild
<1>2. calm \in BOOLEAN
  BY DEF Quiet, OthersIdle
<1>3. DOMAIN pass' = Readers /\ pass'[p] = w /\ \A q \in Readers : q # p => pass'[q] = Disturbed(pass)[q]
  <2>1. pass' = [Disturbed(pass) EXCEPT ![p] = w]
    BY DEF BeginRebuild
  <2>2. DOMAIN Disturbed(pass) = Readers
    BY DEF Disturbed
  <2> HIDE DEF w
  <2> QED BY <2>1, <2>2
<1>4. /\ w.phase = "reading" /\ w.since = Never /\ w.table = 1 /\ w.found = {}
      /\ w.calm = calm
  <2> HIDE DEF calm
  <2>1. w.phase = "reading" /\ w.since = Never /\ w.table = 1 /\ w.found = {}
    BY DEF NoPass
  <2>2. w.calm = calm
    BY <1>2 DEF NoPass
  <2> QED BY <2>1, <2>2
<1>5. w \in PassSince(Never)
  <2> HIDE DEF calm
  <2> QED BY <1>2 DEF NoPass, PassSince
<1>6. p \in Scripts /\ stored' = stored /\ open' = open /\ node' = {} /\ edge' = {}
  BY DEF BeginRebuild, Cleared
<1>7. ASSUME calm PROVE (\A s \in Sessions : open[s] = {}) /\ \A q \in Readers \ {p} : pass[q].found = {}
  BY <1>1, <1>7 DEF Quiet, OthersIdle, PassesAreSound
<1> HIDE DEF w, calm
<1>8. PassesAreSound'
  <2>1. ASSUME NEW q \in Readers
        PROVE  /\ pass'[q] \in PassSince(pass'[q].since) /\ pass'[q].table > 0
               /\ pass'[q].phase \in {"idle", "built"} => pass'[q].found = {}
    <3>1. CASE q = p
      BY <1>3, <1>4, <1>5, <3>1
    <3>2. CASE q # p
      BY <1>1, <1>3, <3>2, NobodyIsCalm, Zenon
    <3> QED BY <3>1, <3>2
  <2> QED BY <1>3, <2>1 DEF PassesAreSound, PassSince, StoredRow
<1>9. ASSUME NEW q \in Readers, pass'[q].calm PROVE CalmIsComplete(q)'
  <2>1. CASE q # p
    <3>1. pass'[q].calm = FALSE
      BY <1>1, <1>3, <2>1, NobodyIsCalm, Zenon
    <3> QED BY <1>9, <3>1, Zenon
  <2>2. CASE q = p
    <3>1. calm
      <4>1. pass'[p].calm = calm
        BY <1>3, <1>4
      <4> QED BY <1>9, <2>2, <4>1, Zenon
    <3>2. \A o \in Readers : o # p => pass'[o].found = {}
      <4>1. \A o \in Readers : o # p => pass'[o].found = pass[o].found
        <5>1. \A o \in Readers : o # p => pass'[o] = [pass[o] EXCEPT !.calm = FALSE]
          BY <1>3 DEF Disturbed
        <5>2. \A o \in Readers : pass[o] \in PassSince(pass[o].since)
          BY <1>1 DEF PassesAreSound
        <5>3. ASSUME NEW o \in Readers, o # p PROVE pass'[o].found = pass[o].found
          <6> DEFINE was == pass[o]
          <6>1. pass'[o] = [was EXCEPT !.calm = FALSE] /\ was \in PassSince(was.since)
            BY <5>1, <5>2, <5>3
          <6> HIDE DEF was
          <6>2. pass'[o].found = was.found
            BY <6>1 DEF PassSince
          <6> QED BY <6>2 DEF was
        <5> QED BY <5>3
      <4> QED BY <1>7, <3>1, <4>1
    <3>3. (\A s \in Sessions : open'[s] = {}) /\ \A o \in Readers : pass'[o].found \subseteq stored'
      BY <1>3, <1>4, <1>6, <1>7, <3>1, <3>2
    <3>4. ReadSoFar(p)' = {}
      BY <1>3, <1>4 DEF ReadSoFar
    <3> QED BY <1>3, <1>4, <1>6, <2>2, <3>3, <3>4 DEF CalmIsComplete
  <2> QED BY <2>1, <2>2
<1> QED BY <1>1, <1>8, <1>9 DEF GraphInv

\* Flush: a session holds one row, and the trade it is on is stored.
LEMMA FlushKeeps ==
    ASSUME GraphAssumption, GraphInv, NEW s \in Sessions, NEW v \in Versions, Flush(s, v)
    PROVE  GraphInv'
<1>1. StoreIsSound /\ PassesAreSound
  BY DEF GraphInv
<1>2. pass' = Disturbed(pass) /\ stored' = stored /\ clock' = clock + 1
  BY DEF Flush
<1>3. PICK stamp \in Nat : open' = [open EXCEPT ![s] =
          {[row |-> v.row, says |-> v.says, leg |-> v.leg, on |-> v.on, stamp |-> stamp]}]
  <2> DEFINE kept == \E r \in Current(v.row) :
                         \/ v.row.table \in StampedOnce
                         \/ r.says = v.says /\ r.leg # v.leg
             stamp == IF kept THEN (CHOOSE r \in Current(v.row) : TRUE).stamp ELSE clock + 1
  <2>1. kept => (CHOOSE r \in Current(v.row) : TRUE) \in Current(v.row)
    BY Zenon
  <2>2. \A r \in Current(v.row) : r.stamp \in Nat
    BY <1>1 DEF Current, StoreIsSound, IsSound, StoredRow
  <2>3. clock + 1 \in Nat
    BY <1>1 DEF StoreIsSound
  <2>4. stamp \in Nat
    <3>1. CASE kept
      <4>1. stamp = (CHOOSE r \in Current(v.row) : TRUE).stamp
        BY <3>1, Zenon
      <4> QED BY <2>1, <2>2, <3>1, <4>1, Zenon
    <3>2. CASE ~kept
      <4>1. stamp = clock + 1
        BY <3>2, Zenon
      <4> QED BY <2>3, <4>1, Zenon
    <3> QED BY <3>1, <3>2, Zenon
  <2>5. open' = [open EXCEPT ![s] =
            {[row |-> v.row, says |-> v.says, leg |-> v.leg, on |-> v.on, stamp |-> stamp]}]
    BY Zenon DEF Flush
  <2> HIDE DEF stamp
  <2> QED BY <2>4, <2>5
<1> DEFINE o == [row |-> v.row, says |-> v.says, leg |-> v.leg, on |-> v.on, stamp |-> stamp]
<1>4. IsSound(o)
  <2>1. v \in Columns
    BY DEF GraphAssumption
  <2>2. o \in StoredRow
    BY <1>3, <2>1 DEF Columns, StoredRow
  <2>3. v.on # None => \E t \in stored : t.row = TradeRow(v.on)
    BY DEF Flush, Current
  <2> QED BY <2>2, <2>3 DEF IsSound
<1>5. DOMAIN open' = Sessions /\ \A q \in Sessions : open'[q] = IF q = s THEN {o} ELSE open[q]
  BY <1>1, <1>3 DEF StoreIsSound
<1> HIDE DEF o
<1>6. ASSUME NEW q \in Sessions, NEW r \in open'[q], NEW u \in open'[q] PROVE IsSound(r) /\ r = u
  BY <1>1, <1>4, <1>5, <1>6 DEF StoreIsSound
<1>7. \A r : IsSound(r)' <=> IsSound(r)
  BY <1>2 DEF IsSound, StoredRow
<1>8. StoreIsSound'
  BY <1>1, <1>2, <1>5, <1>6, <1>7 DEF StoreIsSound
<1> QED BY <1>1, <1>2, <1>8, DisturbedStands

\* Commit: a row takes the place of the one it was, and stays what others are on.
LEMMA CommitKeeps ==
    ASSUME GraphAssumption, GraphInv, NEW s \in Sessions, Commit(s)
    PROVE  GraphInv'
<1>1. StoreIsSound /\ PassesAreSound
  BY DEF GraphInv
<1>2. /\ pass' = Disturbed(pass) /\ clock' = clock /\ open' = [open EXCEPT ![s] = {}]
      /\ stored' = {r \in stored : \A o \in open[s] : o.row # r.row} \cup open[s]
  BY DEF Commit
<1>3. \A t \in stored : \E u \in stored' : u.row = t.row
  BY <1>2
<1>4. \A r : IsSound(r) => IsSound(r)'
  BY <1>3 DEF IsSound, StoredRow
<1>5. \A r \in stored' : IsSound(r)'
  BY <1>1, <1>2, <1>4 DEF StoreIsSound
<1>6. \A r, o \in stored' : r.row = o.row => r = o
  BY <1>1, <1>2 DEF StoreIsSound
<1>7. DOMAIN open' = Sessions /\ \A q \in Sessions : \A r, o \in open'[q] : IsSound(r)' /\ r = o
  BY <1>1, <1>2, <1>4 DEF StoreIsSound
<1>8. StoreIsSound'
  BY <1>1, <1>2, <1>5, <1>6, <1>7 DEF StoreIsSound
<1> QED BY <1>1, <1>2, <1>8, DisturbedStands

-----------------------------------------------------------------------------
LEMMA GraphStarts ==
    ASSUME GraphAssumption, Init
    PROVE  GraphInv
<1>1. /\ stored = First /\ clock = Cardinality(First) /\ open = [s \in Sessions |-> {}]
      /\ pass = [p \in Readers |-> NoPass]
  BY DEF Init
<1>2. clock \in Nat
  BY <1>1, FS_CardinalityType DEF GraphAssumption
<1>3. StoreIsSound
  BY <1>1, <1>2 DEF StoreIsSound, IsSound, GraphAssumption
<1>4. PassesAreSound
  BY <1>1 DEF PassesAreSound, PassSince, NoPass, Never
<1>5. ASSUME NEW p \in Readers, pass[p].calm PROVE CalmIsComplete(p)
  <2>1. pass[p].calm = FALSE
    BY <1>1 DEF NoPass
  <2> QED BY <1>5, <2>1, Zenon
<1> QED BY <1>3, <1>4, <1>5 DEF GraphInv

LEMMA GraphStutters ==
    ASSUME GraphInv, UNCHANGED vars
    PROVE  GraphInv'
<1>1. /\ stored' = stored /\ open' = open /\ clock' = clock /\ node' = node /\ edge' = edge
      /\ pass' = pass
  BY DEF vars
<1>2. StoreIsSound' /\ PassesAreSound'
  BY <1>1 DEF GraphInv, StoreIsSound, IsSound, PassesAreSound, PassSince, StoredRow
<1>3. ASSUME NEW p \in Readers, pass'[p].calm PROVE CalmIsComplete(p)'
  <2>1. CalmIsComplete(p)
    BY <1>1, <1>3 DEF GraphInv
  <2> QED BY <1>1, <2>1 DEF CalmIsComplete, Complete, ReadSoFar, Nodes, Edges, NodesOf, EdgesOf
<1> QED BY <1>2, <1>3 DEF GraphInv

LEMMA GraphStep ==
    ASSUME GraphAssumption, PagesHold, GraphInv, [Next]_vars
    PROVE  GraphInv'
<1>1. ASSUME NEW p \in Readers, BeginSweep(p) PROVE GraphInv'
  BY <1>1, BeginSweepKeeps
<1>2. ASSUME NEW p \in Readers, Work(p) PROVE GraphInv'
  BY <1>2, ReadTableKeeps, NothingNewKeeps, UpsertNodesKeeps, UpsertEdgesKeeps DEF Work
<1>3. ASSUME NEW p \in Readers, Refuse(p) \/ Restart(p) \/ BeginRebuild(p) PROVE GraphInv'
  BY <1>3, RefuseKeeps, RestartKeeps, BeginRebuildKeeps
<1>4. ASSUME NEW s \in Sessions, Commit(s) PROVE GraphInv'
  BY <1>4, CommitKeeps
<1>5. ASSUME NEW s \in Sessions, NEW v \in Versions, Flush(s, v) PROVE GraphInv'
  BY <1>5, FlushKeeps
<1>6. ASSUME UNCHANGED vars PROVE GraphInv'
  BY <1>6, GraphStutters
<1> QED BY <1>1, <1>2, <1>3, <1>4, <1>5, <1>6 DEF Next

\* What is in the graph of a store that stands still is the store: after the
\* first sweep of a worker all of it is, after a rebuild nothing else is
\* (sync_once, rebuild), as long as no table is longer than a page.
THEOREM ProjectionsAreComplete ==
    ASSUME GraphAssumption, PagesHold
    PROVE  Spec => [](FirstPassIsComplete /\ RebuildIsExact)
<1>1. GraphInv => FirstPassIsComplete
  <2> SUFFICES ASSUME GraphInv, NEW p \in Replicas,
                      pass[p].calm, pass[p].since # Never
               PROVE  Complete
    BY DEF FirstPassIsComplete
  <2> QED BY DEF GraphInv, CalmIsComplete, Readers
<1>2. GraphInv => RebuildIsExact
  <2> SUFFICES ASSUME GraphInv, NEW p \in Scripts, pass[p].phase = "built", pass[p].calm
               PROVE  Exact
    BY DEF RebuildIsExact
  <2>1. CalmIsComplete(p)
    BY DEF GraphInv, Readers
  <2> QED BY <2>1 DEF CalmIsComplete, Complete, Exact
<1>3. Init => GraphInv
  BY GraphStarts
<1>4. GraphInv /\ [Next]_vars => GraphInv'
  BY GraphStep
<1> QED BY <1>1, <1>2, <1>3, <1>4, PTL DEF Spec

-----------------------------------------------------------------------------
(* The calls of an event.                                                  *)

\* CallsOf: a call is known by its name, which is one of the event's kinds, and
\* speaks to people who have an account.
LEMMA CallsAreNamed ==
    ASSUME Bell!EventAssumption, NEW e \in Events, NEW c \in Bell!CallsOf(e)
    PROVE  /\ c.name \in Bell!Kinds /\ c.users \subseteq Users /\ c.mail \in BOOLEAN
           /\ \A d \in Bell!CallsOf(e) : d.name = c.name => d = c
<1>1. ASSUME NEW kind, NEW x \in Bell!CallOf(e, kind)
      PROVE  /\ x.name = kind /\ x.users \subseteq {e.assignee, e.submitter} \ {Bell!None}
             /\ x.mail \in BOOLEAN /\ \A y \in Bell!CallOf(e, kind) : y = x
  <2> DEFINE To(users, roles, exclude) ==
                {[name |-> kind, users |-> users, roles |-> roles, exclude |-> exclude, mail |-> TRUE]}
             Named == {e.assignee, e.submitter} \ {Bell!None}
  <2>1. \/ Bell!CallOf(e, kind) = {}
        \/ \E users \in SUBSET Named : \E roles, exclude : Bell!CallOf(e, kind) = To(users, roles, exclude)
    <3>1. CASE kind = "exception.opened"
      BY <3>1 DEF Bell!CallOf
    <3>2. CASE kind = "exception.escalated"
      BY <3>2 DEF Bell!CallOf
    <3>3. CASE kind = "approval.requested" /\ e.assignee # Bell!None
      BY <3>3 DEF Bell!CallOf
    <3>4. CASE kind = "approval.requested" /\ e.assignee = Bell!None
      BY <3>4 DEF Bell!CallOf
    <3>5. CASE kind = "approval.decided" /\ e.submitter # Bell!None
      BY <3>5 DEF Bell!CallOf
    <3>6. CASE kind = "integration.attention"
      BY <3>6 DEF Bell!CallOf
    <3>7. CASE kind = "report.ready"
      BY <3>7 DEF Bell!CallOf
    <3>8. CASE /\ kind \notin {"exception.opened", "exception.escalated", "approval.requested",
                                "integration.attention", "report.ready"}
               /\ ~(kind = "approval.decided" /\ e.submitter # Bell!None)
      BY <3>8 DEF Bell!CallOf
    <3> QED
      BY <3>1, <3>2, <3>3, <3>4, <3>5, <3>6, <3>7, <3>8
  <2>2. PICK users \in SUBSET Named : \E roles, exclude : Bell!CallOf(e, kind) = To(users, roles, exclude)
    BY <1>1, <2>1
  <2>3. PICK roles, exclude : Bell!CallOf(e, kind) = To(users, roles, exclude)
    BY <2>2
  <2>4. x = [name |-> kind, users |-> users, roles |-> roles, exclude |-> exclude, mail |-> TRUE]
    BY <1>1, <2>3
  <2> QED
    BY <1>1, <2>2, <2>3, <2>4
<1>2. PICK kind \in e.kinds : c \in Bell!CallOf(e, kind)
  BY DEF Bell!CallsOf
<1>3. c.name = kind /\ kind \in Bell!Kinds
  BY <1>1, <1>2 DEF Bell!Kinds
<1>4. c.users \subseteq Users
  BY <1>1, <1>2 DEF Bell!EventAssumption
<1>5. ASSUME NEW d \in Bell!CallsOf(e), d.name = c.name
      PROVE  d = c
  <2>1. PICK k \in e.kinds : d \in Bell!CallOf(e, k)
    BY DEF Bell!CallsOf
  <2>2. k = kind
    BY <1>1, <1>3, <1>5, <2>1
  <2> QED
    BY <1>1, <1>2, <2>1, <2>2
<1> QED
  BY <1>1, <1>2, <1>3, <1>4, <1>5

\* Recipients: people who have an account.
LEMMA RecipientsHaveAccounts ==
    ASSUME Bell!EventAssumption, NEW e \in Events, NEW c \in Bell!CallsOf(e)
    PROVE  Bell!Recipients(c) \subseteq Users
BY CallsAreNamed DEF Bell!Recipients, Bell!Holders

-----------------------------------------------------------------------------
(* Steps of one session.                                                   *)

LEMMA OnlyItsTransaction ==
    ASSUME Bell!Fields, NEW s \in Sessions, NEW new \in Bell!TxRow, tx' = [tx EXCEPT ![s] = new]
    PROVE  /\ tx' \in [Sessions -> Bell!TxRow] /\ tx'[s] = new
           /\ \A o \in Sessions \ {s} : tx'[o] = tx[o]
BY Zenon DEF Bell!Fields

\* A transaction that goes on telling of the same event, is spoiled or is gone,
\* leaves the committed rows as they were.
LEMMA OneSessionTells ==
    ASSUME Bell!NoticeInv, NEW s \in Sessions, NEW new \in Bell!TxRow,
           tx' = [tx EXCEPT ![s] = new],
           new.phase # "closed" => tx[s].phase # "closed" /\ new.event = tx[s].event,
           new.phase = "closed" => new.subs = {},
           new.phase = "open" =>
                Bell!OwnRow(new) /\ \A r \in new.rows : Bell!SincereRow(r, new, sent'),
           UNCHANGED <<account, browser, notice, audit, changes>>, sent \subseteq sent',
           faults' \in 0..MaxFaults
    PROVE  Bell!NoticeInv'
<1> HIDE DEF Bell!TxRow, Bell!OwnRow
<1>1. /\ tx' \in [Sessions -> Bell!TxRow] /\ tx'[s] = new
      /\ \A o \in Sessions \ {s} : tx'[o] = tx[o]
  BY OnlyItsTransaction, Zenon DEF Bell!NoticeInv
<1>2. Bell!Fields'
  BY <1>1 DEF Bell!NoticeInv, Bell!Fields
<1>3. Bell!OwnRows' /\ Bell!Idle'
  <2>1. ASSUME NEW o \in Sessions, tx'[o].phase = "open"
        PROVE  Bell!OwnRow(tx'[o])
    BY <1>1, <2>1, Zenon DEF Bell!NoticeInv, Bell!OwnRows
  <2>2. \A o \in Sessions : tx'[o].phase = "closed" => tx'[o].subs = {}
    BY <1>1 DEF Bell!NoticeInv, Bell!Idle
  <2> QED
    BY <2>1, <2>2, Zenon DEF Bell!OwnRows, Bell!Idle, Bell!OwnRow, Bell!KeyOf, Bell!CallsOf, Bell!CallOf, Bell!Distinct
<1>4. Bell!Once'
  <2>1. \A o \in Sessions : tx'[o].phase # "closed" =>
            tx[o].phase # "closed" /\ tx'[o].event = tx[o].event
    BY <1>1, Zenon
  <2>2. notice' = notice /\ audit' = audit
    OBVIOUS
  <2>3. Bell!Once
    BY DEF Bell!NoticeInv
  <2> QED
    BY ONLY <2>1, <2>2, <2>3 DEF Bell!Once, Bell!Distinct, Bell!KeyOf
<1>5. Bell!Sincere'
  <2>1. ASSUME NEW o \in Sessions, tx'[o].phase = "open", NEW r \in tx'[o].rows
        PROVE  Bell!SincereRow(r, tx'[o], sent')
    <3>1. CASE o = s
      BY <1>1, <2>1, <3>1
    <3>2. CASE o # s
      <4>1. Bell!SincereRow(r, tx[o], sent)
        BY <1>1, <2>1, <3>2, Zenon DEF Bell!NoticeInv, Bell!Sincere
      <4> QED
        BY <1>1, <3>2, <4>1 DEF Bell!SincereRow, Bell!Evidence
    <3> QED
      BY <3>1, <3>2
  <2> QED
    BY <2>1, Zenon DEF Bell!Sincere
<1>6. Bell!StampMeansSent' /\ Bell!SentOrOnRecord'
  BY DEF Bell!NoticeInv, Bell!StampMeansSent, Bell!SentOrOnRecord
<1> QED
  BY <1>2, <1>3, <1>4, <1>5, <1>6 DEF Bell!NoticeInv

-----------------------------------------------------------------------------
(* What a session does.                                                    *)

\* Open: nobody has told of the event, and none of its rows is committed.
LEMMA OpenKeeps ==
    ASSUME Bell!NoticeInv, Bell!EventAssumption, NEW s \in Sessions, NEW e \in Events,
           \A o \in Sessions : tx[o].phase # "closed" => tx[o].event # e,
           ~Bell!Happened(e), Bell!Open(s, e, Bell!CallsOf(e))
    PROVE  Bell!NoticeInv'
<1> DEFINE new == [Bell!Closed EXCEPT !.phase = "open", !.event = e, !.calls = Bell!CallsOf(e)]
<1>1. /\ tx' = [tx EXCEPT ![s] = new]
      /\ UNCHANGED <<account, browser, notice, audit, sent, faults, changes>>
  BY DEF Bell!Open
<1>2. /\ new \in Bell!TxRow /\ new.phase = "open" /\ new.event = e /\ new.calls = Bell!CallsOf(e)
      /\ new.rows = {} /\ new.todo = {} /\ new.subs = {} /\ new.failed = {}
  BY DEF Bell!TxRow, Bell!Closed
<1> HIDE DEF new
<1>3. /\ tx' \in [Sessions -> Bell!TxRow] /\ tx'[s] = new
      /\ \A o \in Sessions \ {s} : tx'[o] = tx[o]
  BY <1>1, <1>2, OnlyItsTransaction, Zenon DEF Bell!NoticeInv
<1>4. Bell!Fields'
  BY <1>1, <1>3 DEF Bell!NoticeInv, Bell!Fields
<1>5. Bell!OwnRows' /\ Bell!Idle'
  <2>1. Bell!OwnRow(new)
    BY <1>2 DEF Bell!OwnRow, Bell!Distinct
  <2>2. ASSUME NEW o \in Sessions, tx'[o].phase = "open"
        PROVE  Bell!OwnRow(tx'[o])
    BY <1>3, <2>1, <2>2, Zenon DEF Bell!NoticeInv, Bell!OwnRows
  <2>3. \A o \in Sessions : tx'[o].phase = "closed" => tx'[o].subs = {}
    BY <1>2, <1>3 DEF Bell!NoticeInv, Bell!Idle
  <2> QED
    BY <2>2, <2>3, Zenon DEF Bell!Idle, Bell!OwnRows, Bell!OwnRow, Bell!KeyOf, Bell!CallsOf, Bell!CallOf, Bell!Distinct
<1>6. Bell!Once'
  <2>1. \A n \in notice : n.event # e
    BY DEF Bell!Happened
  <2>2. \A k \in audit : k[1] # e
    BY <2>1 DEF Bell!NoticeInv, Bell!Once
  <2>3. notice' = notice /\ audit' = audit
    BY <1>1
  <2>4. Bell!Once /\ \A o \in Sessions : tx[o].phase # "closed" => tx[o].event # e
    BY DEF Bell!NoticeInv
  <2> QED
    BY ONLY <1>2, <1>3, <2>1, <2>2, <2>3, <2>4 DEF Bell!Once, Bell!Distinct, Bell!KeyOf
<1>7. Bell!Sincere'
  <2>1. sent' = sent /\ Bell!Sincere
    BY <1>1 DEF Bell!NoticeInv
  <2> QED
    BY ONLY <1>2, <1>3, <2>1 DEF Bell!Sincere, Bell!SincereRow, Bell!Evidence, Bell!KeyOf
<1>8. Bell!StampMeansSent' /\ Bell!SentOrOnRecord'
  BY <1>1 DEF Bell!NoticeInv, Bell!StampMeansSent, Bell!SentOrOnRecord
<1> QED
  BY <1>4, <1>5, <1>6, <1>7, <1>8 DEF Bell!NoticeInv

\* Tell: the rows of a call that had none, all of them yet to be mailed or not
\* to be mailed at all.
LEMMA TellKeeps ==
    ASSUME Bell!NoticeInv, Bell!EventAssumption, NEW s \in Sessions, NEW call \in tx[s].calls,
           Bell!Tell(s, call)
    PROVE  Bell!NoticeInv'
<1> DEFINE t == tx[s]
           e == t.event
           rows == {Bell!Row(e, call, u) : u \in Bell!Recipients(call)}
           todo == {Bell!KeyOf(r) : r \in {x \in rows : account[x.user].active}}
           new == [t EXCEPT !.calls = @ \ {call}, !.rows = @ \cup rows, !.todo = todo]
<1>1. /\ tx' = [tx EXCEPT ![s] = new] /\ t.phase = "open" /\ t.todo = {}
      /\ UNCHANGED <<account, browser, notice, audit, sent, faults, changes>>
  BY DEF Bell!Tell
<1>2. t \in Bell!TxRow /\ account \in [Users -> [roles : SUBSET Roles, active : BOOLEAN, mail : BOOLEAN]]
  BY DEF Bell!NoticeInv, Bell!Fields
<1>3. Bell!OwnRow(t)
  BY <1>1 DEF Bell!NoticeInv, Bell!OwnRows
<1>4. e \in Events /\ call \in Bell!CallsOf(e)
  BY <1>3 DEF Bell!OwnRow
<1>5. /\ call.name \in Bell!Kinds /\ call.mail \in BOOLEAN
      /\ \A d \in Bell!CallsOf(e) : d.name = call.name => d = call
  BY <1>4, CallsAreNamed
<1>6. Bell!Recipients(call) \subseteq Users
  BY <1>4, RecipientsHaveAccounts
<1>7. ASSUME NEW r \in rows
      PROVE  /\ r \in Bell!NoticeRow /\ r.event = e /\ r.call = call.name
             /\ ~r.mailed /\ ~r.pushed /\ (r.wants => account[r.user].active)
             /\ Bell!KeyOf(r) = <<e, call.name, r.user>>
             /\ \A o \in rows : o.user = r.user => o = r
  <2>1. PICK u \in Bell!Recipients(call) : r = Bell!Row(e, call, u)
    OBVIOUS
  <2>2. u \in Users /\ account[u].active \in BOOLEAN /\ account[u].mail \in BOOLEAN
    BY <1>2, <1>6
  <2>3. r \in Bell!NoticeRow /\ r.user = u
    BY <1>4, <1>5, <2>1, <2>2 DEF Bell!Row, Bell!NoticeRow
  <2>4. \A v \in Bell!Recipients(call) : Bell!Row(e, call, v).user = v
    BY DEF Bell!Row
  <2>5. \A o \in rows : o.user = r.user => o = r
    BY <2>1, <2>3, <2>4
  <2> QED
    BY <2>1, <2>3, <2>5 DEF Bell!Row, Bell!KeyOf
<1> HIDE DEF rows
<1>8. ASSUME NEW r \in t.rows
      PROVE  r.event = e /\ r.call # call.name /\ r \in Bell!NoticeRow
  BY <1>2, <1>3 DEF Bell!OwnRow, Bell!TxRow
<1>9. new \in Bell!TxRow
  <2>1. todo \subseteq Bell!Keys
    BY <1>4, <1>5, <1>7 DEF Bell!Keys, Bell!NoticeRow
  <2>2. rows \subseteq Bell!NoticeRow
    BY <1>7
  <2> HIDE DEF todo, Bell!NoticeRow, Bell!Keys
  <2> QED
    BY <1>2, <2>1, <2>2 DEF Bell!TxRow
<1>10. /\ new.phase = "open" /\ new.event = e /\ new.calls = t.calls \ {call}
       /\ new.rows = t.rows \cup rows /\ new.todo = todo /\ new.subs = t.subs
       /\ new.failed = t.failed
  BY <1>1, <1>2 DEF Bell!TxRow
<1> HIDE DEF new
<1>11. Bell!OwnRow(new)
  <2>1. \A r \in t.rows \cup rows : r.event = e /\ \A c \in t.calls \ {call} : c.name # r.call
    <3>1. \A c \in t.calls \ {call} : c.name # call.name
      BY <1>3, <1>5 DEF Bell!OwnRow
    <3> QED
      BY <1>3, <1>7, <3>1 DEF Bell!OwnRow
  <2>2. Bell!Distinct(t.rows \cup rows)
    BY <1>3, <1>7, <1>8 DEF Bell!OwnRow, Bell!Distinct, Bell!KeyOf
  <2>3. todo \cup t.failed \subseteq {Bell!KeyOf(r) : r \in t.rows \cup rows}
    BY <1>3 DEF Bell!OwnRow
  <2>4. \A x \in t.subs : x[1] \in {Bell!KeyOf(r) : r \in t.rows \cup rows}
    BY <1>3 DEF Bell!OwnRow
  <2>5. t.calls \ {call} \subseteq Bell!CallsOf(e)
    BY <1>3 DEF Bell!OwnRow
  <2> HIDE DEF todo
  <2> QED
    BY <1>4, <1>10, <2>1, <2>2, <2>3, <2>4, <2>5, Zenon DEF Bell!OwnRow
<1>12. ASSUME NEW r \in new.rows
       PROVE  Bell!SincereRow(r, new, sent')
  <2>1. CASE r \in rows
    <3>1. Bell!KeyOf(r) \notin t.failed
      <4>1. Bell!KeyOf(r) \notin {Bell!KeyOf(o) : o \in t.rows}
        BY <1>7, <1>8, <2>1 DEF Bell!KeyOf
      <4> QED
        BY <1>3, <4>1 DEF Bell!OwnRow
    <3>2. r.wants => Bell!KeyOf(r) \in todo
      BY <1>7, <2>1
    <3>3. ~r.mailed /\ ~r.pushed
      BY <1>7, <2>1
    <3> HIDE DEF todo
    <3> QED
      BY <1>10, <3>1, <3>2, <3>3 DEF Bell!SincereRow, Bell!Evidence
  <2>2. CASE r \in t.rows
    <3>1. Bell!SincereRow(r, t, sent)
      BY <1>1, <2>2 DEF Bell!NoticeInv, Bell!Sincere
    <3>2. Bell!KeyOf(r) \notin todo
      BY <1>7, <1>8, <2>2 DEF Bell!KeyOf
    <3>3. sent' = sent
      BY <1>1
    <3> HIDE DEF todo
    <3> QED
      BY <1>1, <1>10, <3>1, <3>2, <3>3 DEF Bell!SincereRow, Bell!Evidence
  <2> QED
    BY <1>10, <2>1, <2>2
<1>13. faults' \in 0..MaxFaults /\ sent \subseteq sent'
  BY <1>1 DEF Bell!NoticeInv, Bell!Fields
<1> HIDE DEF todo
<1> QED
  BY <1>1, <1>9, <1>10, <1>11, <1>12, <1>13, OneSessionTells

\* Pending: the row that is being delivered.
LEMMA PendingIsARow ==
    ASSUME NEW s \in Sessions, NEW key, key \in {Bell!KeyOf(r) : r \in tx[s].rows}
    PROVE  Bell!Pending(s, key) \in tx[s].rows /\ Bell!KeyOf(Bell!Pending(s, key)) = key
BY DEF Bell!Pending

\* Amended: a row that is stamped is the same row.
LEMMA StampedRowsAreTheirOwn ==
    ASSUME NEW t, Bell!OwnRow(t), NEW row \in t.rows, NEW new,
           new.event = row.event, new.call = row.call, new.user = row.user,
           NEW rows, rows = (t.rows \ {row}) \cup {new},
           NEW u, u.event = t.event, u.calls = t.calls, u.rows = rows,
           u.todo \subseteq t.todo, u.failed \subseteq t.failed \cup {Bell!KeyOf(row)},
           \A x \in u.subs : x[1] \in {Bell!KeyOf(r) : r \in t.rows}
    PROVE  Bell!OwnRow(u)
<1>1. Bell!KeyOf(new) = Bell!KeyOf(row)
  BY DEF Bell!KeyOf
<1>2. {Bell!KeyOf(r) : r \in rows} = {Bell!KeyOf(r) : r \in t.rows}
  BY <1>1
<1>3. Bell!Distinct(rows)
  BY <1>1 DEF Bell!OwnRow, Bell!Distinct
<1>4. \A r \in rows : r.event = t.event /\ \A c \in t.calls : c.name # r.call
  BY DEF Bell!OwnRow
<1>5. u.todo \cup u.failed \subseteq {Bell!KeyOf(r) : r \in t.rows}
  BY DEF Bell!OwnRow
<1>6. t.event \in Events /\ t.calls \subseteq Bell!CallsOf(t.event)
  BY DEF Bell!OwnRow
<1> QED
  BY <1>2, <1>3, <1>4, <1>5, <1>6, Zenon DEF Bell!OwnRow

\* Mail: what the relay takes is stamped, what it refuses is on record.
LEMMA MailKeeps ==
    ASSUME Bell!NoticeInv, Bell!NoticeAssumption, NEW s \in Sessions, NEW key \in tx[s].todo,
           NEW accepted \in BOOLEAN, Bell!Mail(s, key, accepted)
    PROVE  Bell!NoticeInv'
<1> DEFINE t == tx[s]
           row == Bell!Pending(s, key)
           stamped == Bell!Stamped(row, accepted)
           rows == Bell!Amended(s, row, stamped)
           failed == Bell!Recorded(s, key, accepted)
           subs == {<<key, sub>> : sub \in {b \in browser : b[1] = row.user}}
           new == [t EXCEPT !.rows = rows, !.failed = failed, !.todo = @ \ {key}, !.subs = subs]
<1>1. /\ tx' = [tx EXCEPT ![s] = new] /\ t.phase = "open" /\ (~accepted => row.wants)
      /\ sent' = IF row.wants /\ accepted THEN sent \cup {<<key, "mail">>} ELSE sent
      /\ UNCHANGED <<account, browser, notice, audit, changes>> /\ Bell!Chance(accepted)
  BY DEF Bell!Mail
<1>2. t \in Bell!TxRow /\ browser \subseteq Users \X Browsers /\ faults \in 0..MaxFaults
  BY DEF Bell!NoticeInv, Bell!Fields
<1>3. Bell!OwnRow(t)
  BY <1>1 DEF Bell!NoticeInv, Bell!OwnRows
<1>4. row \in t.rows /\ Bell!KeyOf(row) = key
  BY <1>3, PendingIsARow DEF Bell!OwnRow
<1>5. row \in Bell!NoticeRow /\ key \in Bell!Keys
  BY <1>2, <1>4 DEF Bell!TxRow
<1>6. /\ stamped \in Bell!NoticeRow /\ stamped.event = row.event /\ stamped.call = row.call
      /\ stamped.user = row.user /\ stamped.pushed = row.pushed /\ stamped.wants = row.wants
      /\ stamped.mailed = (accepted /\ row.wants)
  BY <1>5 DEF Bell!Stamped, Bell!NoticeRow
<1>7. Bell!KeyOf(stamped) = key
  BY <1>4, <1>6 DEF Bell!KeyOf
<1>8. rows = (t.rows \ {row}) \cup {stamped}
  BY DEF Bell!Amended
<1>9. failed = IF accepted THEN t.failed ELSE t.failed \cup {key}
  BY DEF Bell!Recorded
<1> HIDE DEF row, stamped, rows, failed
<1>10. new \in Bell!TxRow
  <2>1. rows \subseteq Bell!NoticeRow /\ failed \subseteq Bell!Keys
    <3> HIDE DEF Bell!NoticeRow, Bell!Keys
    <3> QED
      BY <1>2, <1>5, <1>6, <1>8, <1>9 DEF Bell!TxRow
  <2>2. subs \subseteq Bell!Keys \X (Users \X Browsers)
    BY <1>2, <1>5
  <2> HIDE DEF subs, Bell!NoticeRow, Bell!Keys
  <2> QED
    BY <1>2, <2>1, <2>2 DEF Bell!TxRow
<1>11. /\ new.phase = "open" /\ new.event = t.event /\ new.calls = t.calls
       /\ new.rows = rows /\ new.todo = t.todo \ {key} /\ new.subs = subs
       /\ new.failed = failed
  BY <1>1, <1>2 DEF Bell!TxRow
<1> HIDE DEF new
<1>12. Bell!OwnRow(new)
  <2>1. \A x \in subs : x[1] \in {Bell!KeyOf(r) : r \in t.rows}
    BY <1>4
  <2>2. new.todo \subseteq t.todo /\ new.failed \subseteq t.failed \cup {Bell!KeyOf(row)}
    BY <1>4, <1>9, <1>11
  <2> HIDE DEF subs, t
  <2> QED
    BY <1>3, <1>4, <1>6, <1>8, <1>11, <2>1, <2>2, StampedRowsAreTheirOwn
<1>13. sent \subseteq sent' /\ faults' \in 0..MaxFaults
  BY <1>1, <1>2 DEF Bell!Chance, Bell!Fault, Bell!NoticeAssumption
<1>14. ASSUME NEW r \in new.rows
       PROVE  Bell!SincereRow(r, new, sent')
  <2>1. CASE r = stamped
    <3>1. Bell!SincereRow(row, t, sent)
      BY <1>1, <1>4 DEF Bell!NoticeInv, Bell!Sincere
    <3>2. key \notin t.failed /\ ~row.mailed
      BY <1>4, <3>1 DEF Bell!SincereRow
    <3>3. Bell!Evidence(stamped, sent')
      BY <1>1, <1>4, <1>6, <1>7, <1>13, <3>1 DEF Bell!SincereRow, Bell!Evidence
    <3>4. stamped.wants => (stamped.mailed <=> key \notin failed)
      BY <1>6, <1>9, <3>2
    <3> HIDE DEF subs
    <3> QED
      BY <1>7, <1>11, <2>1, <3>3, <3>4 DEF Bell!SincereRow
  <2>2. CASE r \in t.rows \ {row}
    <3>1. Bell!SincereRow(r, t, sent)
      BY <1>1, <2>2 DEF Bell!NoticeInv, Bell!Sincere
    <3>2. Bell!KeyOf(r) # key
      BY <1>3, <1>4, <2>2 DEF Bell!OwnRow, Bell!Distinct
    <3>3. /\ Bell!KeyOf(r) \in failed <=> Bell!KeyOf(r) \in t.failed
          /\ Bell!KeyOf(r) \in new.todo <=> Bell!KeyOf(r) \in t.todo
      BY <1>9, <1>11, <3>2
    <3> QED
      BY <1>11, <1>13, <3>1, <3>3 DEF Bell!SincereRow, Bell!Evidence
  <2> QED
    BY <1>8, <1>11, <2>1, <2>2
<1> HIDE DEF subs
<1> QED
  BY <1>1, <1>10, <1>11, <1>12, <1>13, <1>14, OneSessionTells

\* A transaction that gives up what it was about to deliver has nothing to show.
LEMMA SpoiledKeeps ==
    ASSUME Bell!NoticeInv, NEW s \in Sessions, NEW new \in Bell!TxRow,
           tx' = [tx EXCEPT ![s] = new], new.phase # "open",
           new.phase # "closed" => tx[s].phase # "closed" /\ new.event = tx[s].event,
           new.phase = "closed" => new.subs = {},
           UNCHANGED <<account, browser, notice, audit, changes>>, sent \subseteq sent',
           faults' \in 0..MaxFaults
    PROVE  Bell!NoticeInv'
<1> HIDE DEF Bell!TxRow
<1> QED
  BY OneSessionTells

\* Push: what a push service takes is stamped, where the subscription is there
\* to be stamped.
LEMMA PushKeeps ==
    ASSUME Bell!NoticeInv, NEW s \in Sessions, NEW key, NEW sub, Bell!Push(s, key, sub)
    PROVE  Bell!NoticeInv'
<1> DEFINE t == tx[s]
           row == Bell!Pending(s, key)
           pushed == [row EXCEPT !.pushed = TRUE]
           rows == Bell!Amended(s, row, pushed)
           new == [t EXCEPT !.subs = @ \ {<<key, sub>>}, !.stamped = @ \cup {sub}, !.rows = rows]
           spoiled == [t EXCEPT !.phase = "broken", !.subs = {}, !.todo = {}]
<1>1. /\ t.phase = "open" /\ <<key, sub>> \in t.subs /\ sent' = sent \cup {<<key, "push">>}
      /\ UNCHANGED <<account, browser, notice, audit, faults, changes>>
      /\ sub \in browser => tx' = [tx EXCEPT ![s] = new]
      /\ sub \notin browser => tx' = [tx EXCEPT ![s] = spoiled]
  BY DEF Bell!Push
<1>2. t \in Bell!TxRow /\ faults \in 0..MaxFaults
  BY DEF Bell!NoticeInv, Bell!Fields
<1>3. Bell!OwnRow(t)
  BY <1>1 DEF Bell!NoticeInv, Bell!OwnRows
<1>4. sent \subseteq sent' /\ faults' \in 0..MaxFaults
  BY <1>1, <1>2
<1>5. CASE sub \notin browser
  <2>1. spoiled \in Bell!TxRow /\ spoiled.phase = "broken" /\ spoiled.event = t.event
    BY <1>2 DEF Bell!TxRow
  <2> HIDE DEF spoiled
  <2> QED
    BY <1>1, <1>4, <1>5, <2>1, SpoiledKeeps
<1>6. CASE sub \in browser
  <2>1. row \in t.rows /\ Bell!KeyOf(row) = key
    <3>1. key \in {Bell!KeyOf(r) : r \in t.rows}
      BY <1>1, <1>3 DEF Bell!OwnRow
    <3> QED
      BY <3>1, PendingIsARow
  <2>2. row \in Bell!NoticeRow
    BY <1>2, <2>1 DEF Bell!TxRow
  <2>3. /\ pushed \in Bell!NoticeRow /\ pushed.event = row.event /\ pushed.call = row.call
        /\ pushed.user = row.user /\ pushed.mailed = row.mailed /\ pushed.wants = row.wants
    BY <2>2 DEF Bell!NoticeRow
  <2>4. Bell!KeyOf(pushed) = key
    BY <2>1, <2>3 DEF Bell!KeyOf
  <2>5. rows = (t.rows \ {row}) \cup {pushed}
    BY DEF Bell!Amended
  <2> HIDE DEF row, pushed, rows
  <2>6. new \in Bell!TxRow
    <3>1. rows \subseteq Bell!NoticeRow
      <4> HIDE DEF Bell!NoticeRow
      <4> QED
        BY <1>2, <2>3, <2>5 DEF Bell!TxRow
    <3>2. <<key, sub>> \in Bell!Keys \X (Users \X Browsers)
      BY <1>1, <1>2 DEF Bell!TxRow
    <3> HIDE DEF Bell!NoticeRow, Bell!Keys
    <3> QED
      BY <1>2, <3>1, <3>2 DEF Bell!TxRow
  <2>7. /\ new.phase = "open" /\ new.event = t.event /\ new.calls = t.calls
        /\ new.rows = rows /\ new.todo = t.todo /\ new.subs = t.subs \ {<<key, sub>>}
        /\ new.failed = t.failed
    BY <1>1, <1>2 DEF Bell!TxRow
  <2> HIDE DEF new
  <2>8. Bell!OwnRow(new)
    <3>1. \A x \in new.subs : x[1] \in {Bell!KeyOf(r) : r \in t.rows}
      BY <1>3, <2>7 DEF Bell!OwnRow
    <3>2. new.todo \subseteq t.todo /\ new.failed \subseteq t.failed \cup {Bell!KeyOf(row)}
      BY <2>7
    <3> HIDE DEF t
    <3> QED
      BY <1>3, <2>1, <2>3, <2>5, <2>7, <3>1, <3>2, StampedRowsAreTheirOwn
  <2>9. ASSUME NEW r \in new.rows
        PROVE  Bell!SincereRow(r, new, sent')
    <3>1. CASE r = pushed
      <4>1. Bell!SincereRow(row, t, sent)
        BY <1>1, <2>1 DEF Bell!NoticeInv, Bell!Sincere
      <4>2. Bell!Evidence(pushed, sent')
        BY <1>1, <2>1, <2>3, <2>4, <4>1 DEF Bell!SincereRow, Bell!Evidence
      <4> QED
        BY <2>1, <2>3, <2>4, <2>7, <3>1, <4>1, <4>2 DEF Bell!SincereRow
    <3>2. CASE r \in t.rows \ {row}
      <4>1. Bell!SincereRow(r, t, sent)
        BY <1>1, <3>2 DEF Bell!NoticeInv, Bell!Sincere
      <4> QED
        BY <1>4, <2>7, <4>1 DEF Bell!SincereRow, Bell!Evidence
    <3> QED
      BY <2>5, <2>7, <3>1, <3>2
  <2> QED
    BY <1>1, <1>4, <1>6, <2>6, <2>7, <2>8, <2>9, OneSessionTells
<1> QED
  BY <1>5, <1>6

\* PushRefused: one delivery less.
LEMMA PushRefusedKeeps ==
    ASSUME Bell!NoticeInv, Bell!NoticeAssumption, NEW s \in Sessions, NEW key, NEW sub,
           NEW dead \in BOOLEAN, Bell!PushRefused(s, key, sub, dead)
    PROVE  Bell!NoticeInv'
<1> DEFINE t == tx[s]
           dropped == IF dead THEN t.dropped \cup {sub} ELSE t.dropped
           new == [t EXCEPT !.subs = @ \ {<<key, sub>>}, !.dropped = dropped]
<1>1. /\ tx' = [tx EXCEPT ![s] = new] /\ t.phase = "open" /\ <<key, sub>> \in t.subs
      /\ UNCHANGED <<account, browser, notice, audit, sent, changes>> /\ Bell!Fault
  BY DEF Bell!PushRefused
<1>2. t \in Bell!TxRow /\ faults \in 0..MaxFaults
  BY DEF Bell!NoticeInv, Bell!Fields
<1>3. Bell!OwnRow(t)
  BY <1>1 DEF Bell!NoticeInv, Bell!OwnRows
<1>4. new \in Bell!TxRow
  <2>1. <<key, sub>> \in Bell!Keys \X (Users \X Browsers)
    BY <1>1, <1>2 DEF Bell!TxRow
  <2>2. dropped \subseteq Users \X Browsers
    BY <1>2, <2>1 DEF Bell!TxRow
  <2> HIDE DEF Bell!NoticeRow, Bell!Keys, dropped
  <2> QED
    BY <1>2, <2>2 DEF Bell!TxRow
<1>5. /\ new.phase = "open" /\ new.event = t.event /\ new.calls = t.calls
      /\ new.rows = t.rows /\ new.todo = t.todo /\ new.subs = t.subs \ {<<key, sub>>}
      /\ new.failed = t.failed
  BY <1>1, <1>2 DEF Bell!TxRow
<1> HIDE DEF new
<1>6. Bell!OwnRow(new)
  BY <1>3, <1>5 DEF Bell!OwnRow
<1>7. ASSUME NEW r \in new.rows
      PROVE  Bell!SincereRow(r, new, sent')
  <2>1. Bell!SincereRow(r, t, sent) /\ sent' = sent
    BY <1>1, <1>5, <1>7 DEF Bell!NoticeInv, Bell!Sincere
  <2> QED
    BY <1>5, <2>1 DEF Bell!SincereRow, Bell!Evidence
<1>8. sent \subseteq sent' /\ faults' \in 0..MaxFaults
  BY <1>1, <1>2 DEF Bell!Fault, Bell!NoticeAssumption
<1> QED
  BY <1>1, <1>4, <1>5, <1>6, <1>7, <1>8, OneSessionTells

\* Deadlocked, Undo: the rows are gone.
LEMMA GivingUpKeeps ==
    ASSUME Bell!NoticeInv, Bell!NoticeAssumption, NEW s \in Sessions, Bell!Deadlocked(s) \/ Bell!Undo(s)
    PROVE  Bell!NoticeInv'
<1> DEFINE broken == [Bell!Closed EXCEPT !.phase = "broken", !.event = tx[s].event]
<1>1. tx[s] \in Bell!TxRow /\ faults \in 0..MaxFaults
  BY DEF Bell!NoticeInv, Bell!Fields
<1>2. /\ broken \in Bell!TxRow /\ broken.phase = "broken" /\ broken.event = tx[s].event
      /\ Bell!Closed \in Bell!TxRow /\ Bell!Closed.phase = "closed" /\ Bell!Closed.subs = {}
  BY <1>1 DEF Bell!TxRow, Bell!Closed
<1>3. CASE Bell!Deadlocked(s)
  <2>1. /\ tx' = [tx EXCEPT ![s] = broken]
        /\ UNCHANGED <<account, browser, notice, audit, sent, faults, changes>>
    BY <1>3 DEF Bell!Deadlocked
  <2>2. tx[s].phase # "closed"
    <3>1. PICK o \in Sessions \ {s} : Bell!Waits(s, o)
      BY <1>3 DEF Bell!Deadlocked
    <3>2. tx[s].subs # {}
      BY <3>1 DEF Bell!Waits
    <3> QED
      BY <3>2 DEF Bell!NoticeInv, Bell!Idle
  <2> HIDE DEF broken
  <2> QED
    BY <1>1, <1>2, <2>1, <2>2, SpoiledKeeps
<1>4. CASE Bell!Undo(s)
  <2>1. /\ tx' = [tx EXCEPT ![s] = Bell!Closed]
        /\ UNCHANGED <<account, browser, notice, audit, sent, changes>>
    BY <1>4 DEF Bell!Undo
  <2>2. sent \subseteq sent' /\ faults' \in 0..MaxFaults
    BY <1>1, <1>4, <2>1 DEF Bell!Undo, Bell!Fault, Bell!NoticeAssumption
  <2> QED
    BY <1>2, <2>1, <2>2, SpoiledKeeps
<1> QED
  BY <1>3, <1>4

\* Commit: rows of an event that had none, and as true as they were.
LEMMA NoticeCommitKeeps ==
    ASSUME Bell!NoticeInv, NEW s \in Sessions, Bell!Commit(s)
    PROVE  Bell!NoticeInv'
<1> DEFINE t == tx[s]
<1>1. /\ t.phase = "open" /\ t.todo = {} /\ tx' = [tx EXCEPT ![s] = Bell!Closed]
      /\ notice' = notice \cup t.rows /\ audit' = audit \cup t.failed
      /\ browser' = browser \ t.dropped
      /\ UNCHANGED <<account, sent, faults, changes>>
  BY DEF Bell!Commit, Bell!Told
<1>2. t \in Bell!TxRow
  BY DEF Bell!NoticeInv, Bell!Fields
<1>3. Bell!OwnRow(t)
  BY <1>1 DEF Bell!NoticeInv, Bell!OwnRows
<1>4. Bell!Closed \in Bell!TxRow /\ Bell!Closed.phase = "closed" /\ Bell!Closed.subs = {}
  BY DEF Bell!TxRow, Bell!Closed
<1>5. /\ tx' \in [Sessions -> Bell!TxRow] /\ tx'[s] = Bell!Closed
      /\ \A o \in Sessions \ {s} : tx'[o] = tx[o]
  BY <1>1, <1>4, OnlyItsTransaction, Zenon DEF Bell!NoticeInv
<1>6. Bell!Fields'
  <2>1. t.rows \subseteq Bell!NoticeRow /\ t.failed \subseteq Bell!Keys
    BY <1>2 DEF Bell!TxRow
  <2> HIDE DEF Bell!NoticeRow, Bell!Keys, t
  <2> QED
    BY <1>1, <1>5, <2>1 DEF Bell!NoticeInv, Bell!Fields
<1>7. Bell!OwnRows' /\ Bell!Idle'
  <2>1. ASSUME NEW o \in Sessions, tx'[o].phase = "open"
        PROVE  Bell!OwnRow(tx'[o])
    <3>1. o # s
      BY <1>4, <1>5, <2>1
    <3> QED
      BY <1>5, <2>1, <3>1, Zenon DEF Bell!NoticeInv, Bell!OwnRows
  <2>2. \A o \in Sessions : tx'[o].phase = "closed" => tx'[o].subs = {}
    BY <1>4, <1>5 DEF Bell!NoticeInv, Bell!Idle
  <2> QED
    BY <2>1, <2>2, Zenon DEF Bell!OwnRows, Bell!Idle, Bell!OwnRow, Bell!KeyOf, Bell!CallsOf, Bell!CallOf, Bell!Distinct
<1>8. \A r \in t.rows : r.event = t.event
  BY <1>3 DEF Bell!OwnRow
<1>9. \A k \in t.failed : k[1] = t.event /\ \E r \in t.rows : k = Bell!KeyOf(r)
  BY <1>3, <1>8 DEF Bell!OwnRow, Bell!KeyOf
<1>10. \A n \in notice : n.event # t.event
  BY <1>1 DEF Bell!NoticeInv, Bell!Once
<1>11. \A k \in audit : k[1] # t.event
  BY <1>1 DEF Bell!NoticeInv, Bell!Once
<1>12. Bell!Once'
  <2>1. Bell!Distinct(notice \cup t.rows)
    <3>1. Bell!Distinct(notice) /\ Bell!Distinct(t.rows)
      BY <1>3 DEF Bell!NoticeInv, Bell!Once, Bell!OwnRow
    <3> QED
      BY <1>8, <1>10, <3>1 DEF Bell!Distinct, Bell!KeyOf
  <2>2. ASSUME NEW o \in Sessions, tx'[o].phase # "closed"
        PROVE  o # s /\ tx[o].phase # "closed" /\ tx'[o] = tx[o] /\ tx[o].event # t.event
    <3>1. o # s /\ tx'[o] = tx[o]
      BY <1>4, <1>5, <2>2
    <3>2. tx[o].phase # "closed" /\ t.phase # "closed"
      BY <1>1, <2>2, <3>1
    <3> QED
      BY <3>1, <3>2 DEF Bell!NoticeInv, Bell!Once
  <2>3. \A k \in audit \cup t.failed : \E n \in notice \cup t.rows : n.event = k[1]
    BY <1>8, <1>9 DEF Bell!NoticeInv, Bell!Once
  <2>4. \A o \in Sessions : tx'[o].phase # "closed" =>
            /\ \A n \in notice \cup t.rows : n.event # tx'[o].event
            /\ \A k \in audit \cup t.failed : k[1] # tx'[o].event
    BY <1>8, <1>9, <2>2 DEF Bell!NoticeInv, Bell!Once
  <2>5. \A o, p \in Sessions : o # p /\ tx'[o].phase # "closed" /\ tx'[p].phase # "closed"
            => tx'[o].event # tx'[p].event
    BY <2>2 DEF Bell!NoticeInv, Bell!Once
  <2>6. notice' = notice \cup t.rows /\ audit' = audit \cup t.failed
    BY <1>1
  <2> HIDE DEF t
  <2> QED
    BY ONLY <2>1, <2>3, <2>4, <2>5, <2>6 DEF Bell!Once, Bell!Distinct, Bell!KeyOf
<1>13. Bell!Sincere'
  <2>1. ASSUME NEW o \in Sessions, tx'[o].phase = "open", NEW r \in tx'[o].rows
        PROVE  Bell!SincereRow(r, tx'[o], sent')
    <3>1. o # s /\ tx'[o] = tx[o] /\ sent' = sent
      BY <1>1, <1>4, <1>5, <2>1
    <3> QED
      BY <2>1, <3>1 DEF Bell!NoticeInv, Bell!Sincere
  <2> QED
    BY <2>1, Zenon DEF Bell!Sincere, Bell!SincereRow, Bell!Evidence, Bell!KeyOf
<1>14. \A r \in t.rows : Bell!SincereRow(r, t, sent)
  BY <1>1 DEF Bell!NoticeInv, Bell!Sincere
<1>15. Bell!StampMeansSent'
  BY <1>1, <1>14 DEF Bell!NoticeInv, Bell!StampMeansSent, Bell!SincereRow, Bell!Evidence, Bell!KeyOf
<1>16. Bell!SentOrOnRecord'
  <2>1. ASSUME NEW n \in notice, n.wants
        PROVE  n.mailed <=> Bell!KeyOf(n) \notin audit \cup t.failed
    <3>1. Bell!KeyOf(n) \notin t.failed
      BY <1>9, <1>10 DEF Bell!KeyOf
    <3> QED
      BY <2>1, <3>1 DEF Bell!NoticeInv, Bell!SentOrOnRecord
  <2>2. ASSUME NEW n \in t.rows, n.wants
        PROVE  n.mailed <=> Bell!KeyOf(n) \notin audit \cup t.failed
    <3>1. Bell!KeyOf(n) \notin audit
      BY <1>8, <1>11 DEF Bell!KeyOf
    <3> QED
      BY <1>1, <1>14, <2>2, <3>1 DEF Bell!SincereRow
  <2>3. notice' = notice \cup t.rows /\ audit' = audit \cup t.failed
    BY <1>1
  <2> HIDE DEF t
  <2> QED
    BY ONLY <2>1, <2>2, <2>3 DEF Bell!SentOrOnRecord, Bell!KeyOf
<1> QED
  BY <1>6, <1>7, <1>12, <1>13, <1>15, <1>16 DEF Bell!NoticeInv

-----------------------------------------------------------------------------
(* What people do.                                                         *)

LEMMA OpenOnesStay ==
    ASSUME Bell!OwnRows, Bell!Idle, Bell!Sincere, tx' = tx, sent' = sent
    PROVE  Bell!OwnRows' /\ Bell!Idle' /\ Bell!Sincere'
<1>1. Bell!OwnRows'
  <2>1. ASSUME NEW s \in Sessions, tx'[s].phase = "open"
        PROVE  Bell!OwnRow(tx'[s])
    BY <2>1, Zenon DEF Bell!OwnRows
  <2> QED
    BY <2>1, Zenon DEF Bell!OwnRows, Bell!OwnRow, Bell!KeyOf, Bell!CallsOf, Bell!CallOf, Bell!Distinct
<1>2. Bell!Idle'
  BY Zenon DEF Bell!Idle
<1>3. Bell!Sincere'
  BY Zenon DEF Bell!Sincere, Bell!SincereRow, Bell!Evidence, Bell!KeyOf
<1> QED
  BY <1>1, <1>2, <1>3

\* Subscribe, Unsubscribe, ChangeAccount: no row is concerned.
LEMMA PeopleKeep ==
    ASSUME Bell!NoticeInv, Bell!NoticeAssumption,
           \/ \E u \in Users, b \in Browsers : Bell!Subscribe(u, b) \/ Bell!Unsubscribe(u, b)
           \/ \E u \in Users, field \in {"active", "mail"} : Bell!ChangeAccount(u, field)
    PROVE  Bell!NoticeInv'
<1>1. UNCHANGED <<notice, audit, sent, tx, faults>> /\ changes' \in 0..MaxChanges
  <2>1. Bell!Changed /\ UNCHANGED <<notice, audit, sent, tx, faults>>
    BY DEF Bell!Subscribe, Bell!Unsubscribe, Bell!ChangeAccount
  <2>2. changes \in 0..MaxChanges
    BY DEF Bell!NoticeInv, Bell!Fields
  <2> QED
    BY <2>1, <2>2 DEF Bell!Changed, Bell!NoticeAssumption
<1>2. /\ browser' \subseteq Users \X Browsers
      /\ account' \in [Users -> [roles : SUBSET Roles, active : BOOLEAN, mail : BOOLEAN]]
  <2>1. browser \subseteq Users \X Browsers
    BY DEF Bell!NoticeInv, Bell!Fields
  <2>2. account \in [Users -> [roles : SUBSET Roles, active : BOOLEAN, mail : BOOLEAN]]
    BY DEF Bell!NoticeInv, Bell!Fields
  <2>3. ASSUME NEW u \in Users, NEW b \in Browsers, Bell!Subscribe(u, b) \/ Bell!Unsubscribe(u, b)
        PROVE  browser' \subseteq Users \X Browsers /\ account' = account
    BY <2>1, <2>3 DEF Bell!Subscribe, Bell!Unsubscribe
  <2>4. ASSUME NEW u \in Users, NEW field \in {"active", "mail"}, Bell!ChangeAccount(u, field)
        PROVE  /\ account' \in [Users -> [roles : SUBSET Roles, active : BOOLEAN, mail : BOOLEAN]]
               /\ browser' = browser
    <3>1. account' = [account EXCEPT ![u] = [account[u] EXCEPT ![field] = ~account[u][field]]]
      BY <2>4 DEF Bell!ChangeAccount
    <3>2. [account[u] EXCEPT ![field] = ~account[u][field]]
            \in [roles : SUBSET Roles, active : BOOLEAN, mail : BOOLEAN]
      <4>1. CASE field = "active"
        BY <2>2, <4>1
      <4>2. CASE field = "mail"
        BY <2>2, <4>2
      <4> QED
        BY <2>4, <4>1, <4>2
    <3>3. browser' = browser
      BY <2>4 DEF Bell!ChangeAccount
    <3> QED
      BY <2>2, <3>1, <3>2, <3>3, Zenon
  <2> QED
    BY <2>1, <2>2, <2>3, <2>4
<1>3. Bell!Fields'
  BY <1>1, <1>2 DEF Bell!NoticeInv, Bell!Fields
<1>4. Bell!OwnRows' /\ Bell!Idle' /\ Bell!Sincere'
  BY <1>1, OpenOnesStay DEF Bell!NoticeInv
<1>5. Bell!Once' /\ Bell!StampMeansSent' /\ Bell!SentOrOnRecord'
  BY <1>1 DEF Bell!NoticeInv, Bell!Once, Bell!StampMeansSent, Bell!SentOrOnRecord, Bell!KeyOf, Bell!Distinct
<1> QED
  BY <1>3, <1>4, <1>5 DEF Bell!NoticeInv

\* MarkAllRead: the same rows, read.
LEMMA ReadingKeeps ==
    ASSUME Bell!NoticeInv, NEW u \in Users, Bell!MarkAllRead(u)
    PROVE  Bell!NoticeInv'
<1> DEFINE Seen(n) == IF n.user = u THEN [n EXCEPT !.read = TRUE] ELSE n
<1>1. /\ notice' = {Seen(n) : n \in notice}
      /\ UNCHANGED <<account, browser, audit, sent, tx, faults, changes>>
  BY DEF Bell!MarkAllRead
<1>2. ASSUME NEW n \in notice
      PROVE  /\ Seen(n) \in Bell!NoticeRow /\ Seen(n).event = n.event /\ Bell!KeyOf(Seen(n)) = Bell!KeyOf(n)
             /\ Seen(n).mailed = n.mailed /\ Seen(n).pushed = n.pushed /\ Seen(n).wants = n.wants
  <2>1. n \in Bell!NoticeRow
    BY DEF Bell!NoticeInv, Bell!Fields
  <2> QED
    BY <2>1 DEF Bell!NoticeRow, Bell!KeyOf
<1> HIDE DEF Seen
<1>3. Bell!Fields'
  <2>1. notice' \subseteq Bell!NoticeRow
    BY <1>1, <1>2
  <2> QED
    BY <1>1, <2>1 DEF Bell!NoticeInv, Bell!Fields
<1>4. Bell!OwnRows' /\ Bell!Idle' /\ Bell!Sincere'
  BY <1>1, OpenOnesStay DEF Bell!NoticeInv
<1>5. Bell!Once'
  <2>1. ASSUME NEW n \in notice', NEW m \in notice', Bell!KeyOf(n) = Bell!KeyOf(m)
        PROVE  n = m
    <3>1. PICK o \in notice : n = Seen(o)
      BY <1>1
    <3>2. PICK p \in notice : m = Seen(p)
      BY <1>1
    <3>3. o = p
      BY <1>2, <2>1, <3>1, <3>2 DEF Bell!NoticeInv, Bell!Once, Bell!Distinct
    <3> QED
      BY <3>1, <3>2, <3>3
  <2>2. /\ \A e : (\A n \in notice : n.event # e) => \A n \in notice' : n.event # e
        /\ \A e : (\E n \in notice : n.event = e) => \E n \in notice' : n.event = e
    BY <1>1, <1>2
  <2>3. tx' = tx /\ audit' = audit /\ Bell!Once
    BY <1>1 DEF Bell!NoticeInv
  <2>4. \A n, m \in notice' : Bell!KeyOf(n) = Bell!KeyOf(m) => n = m
    BY <2>1
  <2> QED
    BY ONLY <2>2, <2>3, <2>4 DEF Bell!Once, Bell!Distinct, Bell!KeyOf
<1>6. Bell!StampMeansSent' /\ Bell!SentOrOnRecord'
  <2>1. ASSUME NEW n \in notice'
        PROVE  /\ n.mailed => <<Bell!KeyOf(n), "mail">> \in sent
               /\ n.pushed => <<Bell!KeyOf(n), "push">> \in sent
               /\ n.wants => (n.mailed <=> Bell!KeyOf(n) \notin audit)
    <3>1. PICK o \in notice : n = Seen(o)
      BY <1>1
    <3> QED
      BY <1>2, <3>1 DEF Bell!NoticeInv, Bell!StampMeansSent, Bell!SentOrOnRecord
  <2>2. sent' = sent /\ audit' = audit
    BY <1>1
  <2> QED
    BY ONLY <2>1, <2>2 DEF Bell!StampMeansSent, Bell!SentOrOnRecord, Bell!KeyOf
<1> QED
  BY <1>3, <1>4, <1>5, <1>6 DEF Bell!NoticeInv

-----------------------------------------------------------------------------
(* The theorems.                                                           *)

LEMMA InitKeeps ==
    ASSUME Bell!NoticeAssumption, Bell!Init
    PROVE  Bell!NoticeInv
<1>1. /\ tx = [s \in Sessions |-> Bell!Closed] /\ account = FirstAccounts
      /\ browser = {} /\ notice = {} /\ audit = {} /\ faults = 0 /\ changes = 0
  BY DEF Bell!Init
<1>2. Bell!Closed \in Bell!TxRow /\ Bell!Closed.phase = "closed" /\ Bell!Closed.subs = {}
  BY DEF Bell!TxRow, Bell!Closed
<1>3. \A s \in Sessions : tx[s] = Bell!Closed
  BY <1>1, Zenon
<1>4. tx \in [Sessions -> Bell!TxRow]
  BY <1>1, <1>2, Zenon
<1>5. Bell!Fields
  BY <1>1, <1>4 DEF Bell!Fields, Bell!NoticeAssumption
<1>6. Bell!OwnRows /\ Bell!Idle /\ Bell!Sincere
  BY <1>2, <1>3 DEF Bell!OwnRows, Bell!Idle, Bell!Sincere
<1>7. Bell!Once /\ Bell!StampMeansSent /\ Bell!SentOrOnRecord
  BY <1>1, <1>2, <1>3 DEF Bell!Once, Bell!StampMeansSent, Bell!SentOrOnRecord, Bell!Distinct
<1> QED
  BY <1>5, <1>6, <1>7 DEF Bell!NoticeInv

LEMMA StepKeeps ==
    ASSUME Bell!NoticeAssumption, Bell!EventAssumption, Bell!NoticeInv, [Bell!Next]_(Bell!vars)
    PROVE  Bell!NoticeInv'
<1>1. CASE UNCHANGED Bell!vars
  <2>1. UNCHANGED <<account, browser, notice, audit, sent, tx, faults, changes>>
    BY <1>1 DEF Bell!vars
  <2>2. Bell!Fields'
    BY <2>1 DEF Bell!NoticeInv, Bell!Fields
  <2>3. Bell!OwnRows' /\ Bell!Idle' /\ Bell!Sincere'
    BY <2>1, OpenOnesStay DEF Bell!NoticeInv
  <2>4. Bell!Once' /\ Bell!StampMeansSent' /\ Bell!SentOrOnRecord'
    BY <2>1 DEF Bell!NoticeInv, Bell!Once, Bell!StampMeansSent, Bell!SentOrOnRecord, Bell!KeyOf, Bell!Distinct
  <2> QED
    BY <2>2, <2>3, <2>4 DEF Bell!NoticeInv
<1>2. ASSUME NEW s \in Sessions, NEW e \in Events,
             \A o \in Sessions : tx[o].phase # "closed" => tx[o].event # e,
             ~Bell!Happened(e), Bell!Open(s, e, Bell!CallsOf(e))
      PROVE  Bell!NoticeInv'
  BY <1>2, OpenKeeps
<1>3. ASSUME NEW s \in Sessions, NEW call \in tx[s].calls, Bell!Tell(s, call)
      PROVE  Bell!NoticeInv'
  BY <1>3, TellKeeps
<1>4. ASSUME NEW s \in Sessions, Bell!Deliver(s)
      PROVE  Bell!NoticeInv'
  <2>1. ASSUME NEW key \in tx[s].todo, NEW accepted \in BOOLEAN, Bell!Mail(s, key, accepted)
        PROVE  Bell!NoticeInv'
    BY <2>1, MailKeeps
  <2>2. ASSUME NEW x \in tx[s].subs, Bell!Push(s, x[1], x[2])
        PROVE  Bell!NoticeInv'
    BY <2>2, PushKeeps
  <2>3. ASSUME NEW x \in tx[s].subs, NEW dead \in BOOLEAN, Bell!PushRefused(s, x[1], x[2], dead)
        PROVE  Bell!NoticeInv'
    BY <2>3, PushRefusedKeeps
  <2> QED
    BY <1>4, <2>1, <2>2, <2>3, GivingUpKeeps DEF Bell!Deliver
<1>5. ASSUME NEW s \in Sessions, Bell!Commit(s) \/ Bell!Undo(s)
      PROVE  Bell!NoticeInv'
  BY <1>5, NoticeCommitKeeps, GivingUpKeeps
<1>6. ASSUME NEW u \in Users, Bell!MarkAllRead(u)
      PROVE  Bell!NoticeInv'
  BY <1>6, ReadingKeeps
<1>7. CASE \/ \E u \in Users, b \in Browsers : Bell!Subscribe(u, b) \/ Bell!Unsubscribe(u, b)
           \/ \E u \in Users, field \in {"active", "mail"} : Bell!ChangeAccount(u, field)
  BY <1>7, PeopleKeep
<1> QED
  BY <1>1, <1>2, <1>3, <1>4, <1>5, <1>6, <1>7 DEF Bell!Next

\* The inductive invariant, for any people, sessions and events whose people
\* have accounts, and any number of faults and changes.
THEOREM NoticesAreInvariant ==
    ASSUME Bell!NoticeAssumption, Bell!EventAssumption
    PROVE  Bell!Spec => []Bell!NoticeInv
<1>1. Bell!Init => Bell!NoticeInv
  BY InitKeeps
<1>2. Bell!NoticeInv /\ [Bell!Next]_(Bell!vars) => Bell!NoticeInv'
  BY StepKeeps
<1> QED
  BY <1>1, <1>2, PTL DEF Bell!Spec

\* notify: the committed rows are of the people and events there are, one for a
\* person and a call.
THEOREM NoticeTypes ==
    ASSUME Bell!NoticeAssumption, Bell!EventAssumption
    PROVE  Bell!Spec => []Bell!TypeOK
<1>1. Bell!NoticeInv => Bell!TypeOK
  BY DEF Bell!NoticeInv, Bell!Fields, Bell!Once, Bell!Distinct, Bell!TypeOK, Bell!NoticeRow, Bell!TxRow
<1> QED
  BY <1>1, NoticesAreInvariant, PTL

\* dispatch_deliveries: email_sent_at and push_sent_at are on a row only when the
\* relay, or a push service, took a message of it.
THEOREM StampsAreEvidence ==
    ASSUME Bell!NoticeAssumption, Bell!EventAssumption
    PROVE  Bell!Spec => []Bell!StampMeansSent
<1>1. Bell!NoticeInv => Bell!StampMeansSent
  BY DEF Bell!NoticeInv
<1> QED
  BY <1>1, NoticesAreInvariant, PTL

\* _deliver_email: whoever asked for mail was sent it, or the audit trail says
\* that it was not, and never both.
THEOREM MissedMailIsOnRecord ==
    ASSUME Bell!NoticeAssumption, Bell!EventAssumption
    PROVE  Bell!Spec => []Bell!SentOrOnRecord
<1>1. Bell!NoticeInv => Bell!SentOrOnRecord
  BY DEF Bell!NoticeInv
<1> QED
  BY <1>1, NoticesAreInvariant, PTL

\* Both together: what the row of a notice and the audit trail say of its delivery
\* is so, for any number of people, sessions and events (notification_service.py).
THEOREM DeliveriesAreOnRecord ==
    ASSUME Bell!NoticeAssumption, Bell!EventAssumption
    PROVE  Bell!Spec => []Bell!DeliveryIsOnRecord
<1>1. Bell!NoticeInv => Bell!DeliveryIsOnRecord
  BY DEF Bell!NoticeInv, Bell!DeliveryIsOnRecord
<1> QED
  BY <1>1, NoticesAreInvariant, PTL

-----------------------------------------------------------------------------
(* Reports (Reporting).                                                    *)

\* \div, of what a day and a month are made.
LEMMA DivisionOf ==
    ASSUME NEW d \in Nat \ {0}, NEW t \in Int
    PROVE  t \div d \in Int /\ d * (t \div d) <= t /\ t < d * (t \div d) + d
OBVIOUS

LEMMA QuotientOf ==
    ASSUME NEW d \in Nat \ {0}, NEW q \in Int, NEW x \in Int, d * q <= x, x < d * q + d
    PROVE  x \div d = q
OBVIOUS

LEMMA ReportFacts ==
    ASSUME Book!ReportAssumption
    PROVE  /\ DayLength \in Nat /\ DayLength > 0 /\ MonthLength \in Nat /\ MonthLength > 0
           /\ DayLength * MonthLength \in Nat /\ DayLength * MonthLength > 0
           /\ DailyAt \in Nat /\ DailyAt < DayLength /\ MonthlyAt \in Nat /\ MonthlyAt < DayLength
           /\ MonthlyDay \in Nat /\ MonthlyDay < MonthLength
BY DEF Book!ReportAssumption

LEMMA DayOf ==
    ASSUME Book!ReportAssumption, NEW t \in Int
    PROVE  Book!Day(t) \in Int /\ DayLength * Book!Day(t) <= t /\ t < DayLength * Book!Day(t) + DayLength
<1>1. DayLength \in Nat \ {0}
  BY ReportFacts
<1> QED BY <1>1, DivisionOf DEF Book!Day

LEMMA MonthOf ==
    ASSUME Book!ReportAssumption, NEW t \in Int
    PROVE  /\ Book!Month(t) \in Int /\ DayLength * MonthLength * Book!Month(t) <= t
           /\ t < DayLength * MonthLength * Book!Month(t) + DayLength * MonthLength
<1> DEFINE d == Book!Day(t)
           m == Book!Month(t)
<1>1. d \in Int /\ DayLength * d <= t /\ t < DayLength * d + DayLength
  BY DayOf
<1>2. m \in Int /\ MonthLength * m <= d /\ d < MonthLength * m + MonthLength
  BY <1>1, ReportFacts, DivisionOf DEF Book!Month
<1> HIDE DEF d, m
<1>3. DayLength * (MonthLength * m) <= DayLength * d
  BY <1>1, <1>2, ReportFacts
<1>4. DayLength * (d + 1) <= DayLength * (MonthLength * m + MonthLength)
  BY <1>1, <1>2, ReportFacts
<1> QED BY <1>1, <1>2, <1>3, <1>4, ReportFacts DEF m

\* A moment is in the month it is in.
LEMMA MonthIs ==
    ASSUME Book!ReportAssumption, NEW m \in Int, NEW t \in Int,
           DayLength * MonthLength * m <= t, t < DayLength * MonthLength * m + DayLength * MonthLength
    PROVE  Book!Month(t) = m
<1> DEFINE d == Book!Day(t)
<1>1. d \in Int /\ DayLength * d <= t /\ t < DayLength * d + DayLength
  BY DayOf
<1>2. MonthLength * m <= d /\ d < MonthLength * m + MonthLength
  <2> HIDE DEF d
  <2>1. DayLength * (MonthLength * m) < DayLength * (d + 1)
    BY <1>1, ReportFacts
  <2>2. DayLength * d < DayLength * (MonthLength * m + MonthLength)
    BY <1>1, ReportFacts
  <2> QED BY <1>1, <2>1, <2>2, ReportFacts
<1> HIDE DEF d
<1>3. d \div MonthLength = m
  BY <1>1, <1>2, QuotientOf, ReportFacts
<1> QED BY <1>3 DEF Book!Month, d

-----------------------------------------------------------------------------
\* DailyDue: the day before the last run is over when it comes round.
LEMMA DailyIsDue ==
    ASSUME Book!ReportAssumption, clock \in Int
    PROVE  Book!DailyDue \in Book!DueRow /\ Book!IsDue(Book!DailyDue, clock)
<1> DEFINE today == DayLength * Book!Day(clock) + DailyAt
           at == IF today > clock THEN today - DayLength ELSE today
<1>1. Book!Day(clock) \in Int /\ DayLength * Book!Day(clock) <= clock
  BY DayOf
<1>2. today \in Int
  BY <1>1, ReportFacts
<1>3. at \in Int /\ at <= clock
  <2> HIDE DEF today
  <2>1. today <= clock + DayLength
    BY <1>1, <1>2, ReportFacts DEF today
  <2> QED BY <1>2, <2>1, ReportFacts
<1> HIDE DEF at
<1>4. Book!Day(at) \in Int /\ DayLength * Book!Day(at) <= at
  BY <1>3, DayOf
<1>5. Book!DailyDue = [type |-> "daily", period |-> Book!DayPeriod(Book!Day(at) - 1)]
  BY DEF Book!DailyDue, at
<1> DEFINE d == Book!Day(at)
<1> HIDE DEF d
<1>6. Book!DayPeriod(d - 1) = <<DayLength * (d - 1), DayLength * d>>
  BY <1>4, ReportFacts DEF Book!DayPeriod, d
<1>7. DayLength * (d - 1) \in Int /\ DayLength * d \in Int /\ DayLength * d <= clock
  BY <1>3, <1>4, ReportFacts DEF d
<1>8. Book!DailyDue = [type |-> "daily", period |-> <<DayLength * (d - 1), DayLength * d>>]
  BY <1>5, <1>6 DEF d
<1> DEFINE a == DayLength * (d - 1)
           b == DayLength * d
<1>9. a \in Int /\ b \in Int /\ b <= clock /\ Book!DailyDue = [type |-> "daily", period |-> <<a, b>>]
  BY <1>7, <1>8
<1> HIDE DEF a, b
<1> QED BY <1>9 DEF Book!DueRow, Book!IsDue

\* MonthlyDue: so is the month, and unless it is made on the first day it is the
\* one that has just ended.
LEMMA MonthlyIsDue ==
    ASSUME Book!ReportAssumption, clock \in Int
    PROVE  Book!MonthlyDue \in Book!DueRow /\ Book!IsDue(Book!MonthlyDue, clock)
<1> DEFINE start == DayLength * MonthLength
           days == DayLength * MonthlyDay
           k == Book!Month(clock)
           this == start * k + days + MonthlyAt
           at == IF this > clock THEN this - start ELSE this
           j == IF this > clock THEN k - 1 ELSE k
<1>1. start \in Nat /\ start > 0 /\ days \in Nat /\ days + DayLength <= start
  <2>1. DayLength * (MonthlyDay + 1) <= DayLength * MonthLength
    BY ReportFacts
  <2> QED BY <2>1, ReportFacts
<1>2. k \in Int /\ start * k <= clock /\ clock < start * k + start
  BY MonthOf
<1>3. /\ Book!MonthlyDue = [type |-> "monthly", period |-> Book!MonthPeriod(Book!Month(at - DayLength) - 1)]
  BY DEF Book!MonthlyDue
<1>4. MonthlyDay > 0 => DayLength <= days
  BY ReportFacts
<1>5. DayLength \in Nat /\ DayLength > 0 /\ MonthlyAt \in Nat /\ MonthlyAt < DayLength
  BY ReportFacts
<1> HIDE DEF start, days, k
<1>6. /\ at \in Int /\ j \in Int /\ at <= clock /\ at = start * j + days + MonthlyAt
      /\ clock < at + start
  BY <1>1, <1>2, <1>5
<1> HIDE DEF at, j
<1> DEFINE n == Book!Month(at - DayLength)
<1>7. n \in Int /\ start * n <= at - DayLength
  BY <1>5, <1>6, MonthOf DEF start
<1>8. MonthlyDay > 0 => n = j /\ Book!Month(clock - days - MonthlyAt) = j
  <2> SUFFICES ASSUME MonthlyDay > 0 PROVE n = j /\ Book!Month(clock - days - MonthlyAt) = j
    OBVIOUS
  <2>1. start * j <= at - DayLength /\ at - DayLength < start * j + start
    BY <1>1, <1>4, <1>5, <1>6
  <2>2. start * j <= clock - days - MonthlyAt /\ clock - days - MonthlyAt < start * j + start
    BY <1>1, <1>5, <1>6
  <2>3. at - DayLength \in Int /\ clock - days - MonthlyAt \in Int
    BY <1>1, <1>5, <1>6
  <2> QED BY <1>6, <2>1, <2>2, <2>3, MonthIs DEF start
<1> HIDE DEF n
<1>9. Book!MonthPeriod(n - 1) = <<start * (n - 1), start * n>>
  BY <1>7, ReportFacts DEF Book!MonthPeriod, start
<1> DEFINE a == start * (n - 1)
           b == start * n
<1>10. a \in Int /\ b \in Int /\ b <= clock
  BY <1>1, <1>5, <1>6, <1>7
<1>11. Book!MonthlyDue = [type |-> "monthly", period |-> <<a, b>>] /\ Book!MonthPeriod(n - 1) = <<a, b>>
  BY <1>3, <1>9 DEF n
<1>12. MonthlyDay > 0 => <<a, b>> = Book!MonthPeriod(Book!Month(clock - DayLength * MonthlyDay - MonthlyAt) - 1)
  <2> SUFFICES ASSUME MonthlyDay > 0
               PROVE  <<a, b>> = Book!MonthPeriod(Book!Month(clock - days - MonthlyAt) - 1)
    BY DEF days
  <2> QED BY <1>8, <1>11
<1> HIDE DEF a, b
<1> QED BY <1>10, <1>11, <1>12 DEF Book!DueRow, Book!IsDue

LEMMA DuesNow ==
    ASSUME Book!ReportAssumption, clock \in Int
    PROVE  Book!Dues \in Seq(Book!DueRow) /\ \A i \in 1..Len(Book!Dues) : Book!IsDue(Book!Dues[i], clock)
<1>1. ASSUME NEW due \in Book!DueRow, Book!IsDue(due, clock)
      PROVE  /\ Book!Seen(due) \in Seq(Book!DueRow)
             /\ \A i \in 1..Len(Book!Seen(due)) : Book!IsDue(Book!Seen(due)[i], clock)
  <2>1. Book!Seen(due) = <<>> \/ Book!Seen(due) = <<due>>
    BY DEF Book!Seen
  <2>2. CASE Book!Seen(due) = <<>>
    BY <2>2
  <2>3. CASE Book!Seen(due) = <<due>>
    <3>1. Len(Book!Seen(due)) = 1 /\ Book!Seen(due)[1] = due /\ Book!Seen(due) \in Seq(Book!DueRow)
      BY <2>3
    <3> QED BY <1>1, <3>1
  <2> QED BY <2>1, <2>2, <2>3
<1> DEFINE s == Book!Seen(Book!DailyDue)
           t == Book!Seen(Book!MonthlyDue)
<1>2. /\ s \in Seq(Book!DueRow) /\ \A i \in 1..Len(s) : Book!IsDue(s[i], clock)
      /\ t \in Seq(Book!DueRow) /\ \A i \in 1..Len(t) : Book!IsDue(t[i], clock)
  BY <1>1, DailyIsDue, MonthlyIsDue
<1>3. Book!Dues = s \o t
  BY DEF Book!Dues
<1> HIDE DEF s, t
<1>4. Book!Dues \in Seq(Book!DueRow) /\ Len(Book!Dues) = Len(s) + Len(t)
  BY <1>2, <1>3
<1>5. ASSUME NEW i \in 1..Len(Book!Dues) PROVE Book!IsDue(Book!Dues[i], clock)
  <2>1. CASE i <= Len(s)
    <3>1. Book!Dues[i] = s[i] /\ i \in 1..Len(s)
      BY <1>2, <1>3, <1>4, <1>5, <2>1
    <3> QED BY <1>2, <3>1
  <2>2. CASE i > Len(s)
    <3>1. Book!Dues[i] = t[i - Len(s)] /\ i - Len(s) \in 1..Len(t)
      BY <1>2, <1>3, <1>4, <1>5, <2>2
    <3> QED BY <1>2, <3>1
  <2> QED BY <1>2, <2>1, <2>2
<1> QED BY <1>4, <1>5
-----------------------------------------------------------------------------
LEMMA CountOf ==
    ASSUME NEW S
    PROVE  Book!Cardinality(S) = Cardinality(S) /\ (Book!IsFiniteSet(S) <=> IsFiniteSet(S))
BY DEF Book!Cardinality, Cardinality, Book!IsFiniteSet, IsFiniteSet

\* A file more is the next of them.
LEMMA NextFile ==
    ASSUME Book!Fields
    PROVE  /\ Book!Cardinality(file) \in Nat /\ Book!NextId \in Nat /\ Book!NextId > 0 /\ Book!NextId \notin file
           /\ Book!IsFiniteSet(file \cup {Book!NextId})
           /\ file \cup {Book!NextId} = 1..Book!Cardinality(file \cup {Book!NextId})
<1> DEFINE n == Book!Cardinality(file)
           f == file \cup {Book!NextId}
<1>1. Book!IsFiniteSet(file) /\ file = 1..n
  BY DEF Book!Fields
<1>2. n \in Nat
  BY <1>1, CountOf, FS_CardinalityType
<1> HIDE DEF n
<1>3. Book!NextId = n + 1
  BY <1>2 DEF Book!NextId, n
<1>4. f = 1..(n + 1)
  BY <1>1, <1>2, <1>3
<1>5. Book!NextId \in Nat /\ Book!NextId > 0 /\ Book!NextId \notin file
  BY <1>1, <1>2, <1>3
<1> HIDE DEF f
<1>6. Book!IsFiniteSet(f) /\ Book!Cardinality(f) = n + 1
  BY <1>2, <1>4, CountOf, FS_Interval
<1> QED BY <1>2, <1>4, <1>5, <1>6 DEF n, f

\* A replica that moves, and has no report in its hands afterwards.
LEMMA RunMoves ==
    ASSUME Book!ReportInv, NEW q0 \in Replicas, NEW row \in Book!RunRow,
           row.phase \in {"idle", "asking", "making"},
           row.phase = "making" => row.dues # <<>>,
           \A i \in 1..Len(row.dues) : Book!IsDue(row.dues[i], row.since),
           run' = [run EXCEPT ![q0] = row],
           (~Book!InHand(q0) /\ UNCHANGED tx) \/ tx' = [tx EXCEPT ![q0] = Book!Post!Closed],
           UNCHANGED <<clock, report, file, job, account, browser, notice>>
    PROVE  Book!ReportInv'
<1>1. DOMAIN run = Replicas /\ run'[q0] = row /\ ~Book!InHand(q0)'
  BY DEF Book!ReportInv, Book!Fields, Book!InHand
<1>2. \A q \in Replicas : q # q0 => run'[q] = run[q] /\ (Book!InHand(q)' <=> Book!InHand(q))
  BY <1>1 DEF Book!InHand
<1>3. \A q \in Replicas : Book!InHand(q)' => Book!InHand(q) /\ run'[q] = run[q] /\ q # q0
  BY <1>1, <1>2
<1>4. Book!Fields'
  BY DEF Book!ReportInv, Book!Fields, Book!IsJob
<1>5. Book!OwnFiles'
  BY <1>3 DEF Book!ReportInv, Book!OwnFiles
<1>6. Book!TellsOfItsReport'
  <2>1. DOMAIN tx' = Replicas /\ browser' = {}
    BY DEF Book!ReportInv, Book!TellsOfItsReport
  <2>2. ASSUME NEW q \in Replicas, q # q0
        PROVE  tx'[q] = tx[q] /\ (Book!TellsOf(q, tx[q]) => Book!TellsOf(q, tx[q])')
    <3>1. tx'[q] = tx[q]
      BY <2>2 DEF Book!ReportInv, Book!TellsOfItsReport
    <3> QED BY <1>2, <2>2, <3>1 DEF Book!TellsOf, Book!Post!Holders, Book!Post!KeyOf, Book!Standing, Book!Post!CallOf
  <2>3. DOMAIN tx'[q0] = DOMAIN Book!Post!Closed /\ tx'[q0].subs = {} /\ tx'[q0].phase = "closed"
    <3>1. CASE ~Book!InHand(q0) /\ UNCHANGED tx
      BY <3>1 DEF Book!ReportInv, Book!TellsOfItsReport
    <3>2. CASE tx' = [tx EXCEPT ![q0] = Book!Post!Closed]
      <4>1. tx'[q0] = Book!Post!Closed
        BY <3>2 DEF Book!ReportInv, Book!TellsOfItsReport
      <4> QED BY <4>1 DEF Book!Post!Closed
    <3> QED BY <3>1, <3>2
  <2>4. ASSUME NEW q \in Replicas
        PROVE  /\ DOMAIN tx'[q] = DOMAIN Book!Post!Closed /\ tx'[q].subs = {}
               /\ tx'[q].phase = (IF Book!InHand(q)' THEN "open" ELSE "closed")
               /\ Book!InHand(q)' => Book!TellsOf(q, tx[q])'
    <3>1. CASE q = q0
      BY <1>1, <2>3, <3>1
    <3>2. CASE q # q0
      BY <1>2, <2>2, <3>2 DEF Book!ReportInv, Book!TellsOfItsReport
    <3> QED BY <3>1, <3>2
  <2> QED BY <2>1, <2>4 DEF Book!TellsOfItsReport, Book!Post!Closed
<1>7. Book!DuesAreDue'
  <2>1. Book!Scheduled' = Book!Scheduled
    BY DEF Book!Scheduled
  <2>2. ASSUME NEW q \in Replicas
        PROVE  /\ \A i \in 1..Len(run'[q].dues) : Book!IsDue(run'[q].dues[i], run'[q].since)
               /\ run'[q].phase \in {"making", "made", "distributed"} => run'[q].dues # <<>>
    BY <1>1, <1>2 DEF Book!ReportInv, Book!DuesAreDue
  <2> QED BY <2>1, <2>2 DEF Book!ReportInv, Book!DuesAreDue, Book!IsDue
<1>8. Book!ReportAndNoticeAgree'
  BY DEF Book!ReportInv, Book!ReportAndNoticeAgree, Book!Scheduled, Book!Post!Holders
<1>9. Book!JobSaysWhatHappened'
  BY DEF Book!ReportInv, Book!JobSaysWhatHappened
<1> QED BY <1>4, <1>5, <1>6, <1>7, <1>8, <1>9 DEF Book!ReportInv
LEMMA RunOf ==
    ASSUME Book!ReportInv, NEW r \in Replicas
    PROVE  /\ DOMAIN run = Replicas /\ run[r] \in Book!RunRow /\ clock \in Int
           /\ \A i \in 1..Len(run[r].dues) : Book!IsDue(run[r].dues[i], run[r].since)
           /\ run[r].phase \in {"making", "made", "distributed"} => run[r].dues # <<>>
BY DEF Book!ReportInv, Book!Fields, Book!DuesAreDue

LEMMA IdleRow == Book!Idle \in Book!RunRow /\ Book!Idle.phase = "idle" /\ Book!Idle.dues = <<>>
BY DEF Book!Idle, Book!RunRow

\* What is left when the first of them has been seen to.
LEMMA PassedRow ==
    ASSUME Book!ReportInv, NEW r \in Replicas, run[r].dues # <<>>
    PROVE  \E row \in Book!RunRow :
               /\ Book!Passed(r) = [run EXCEPT ![r] = row] /\ row.phase = "asking"
               /\ \A i \in 1..Len(row.dues) : Book!IsDue(row.dues[i], row.since)
<1> DEFINE d == run[r].dues
           row == [run[r] EXCEPT !.phase = "asking", !.dues = Tail(@), !.id = 0]
<1>1. /\ DOMAIN run = Replicas /\ run[r] \in Book!RunRow
      /\ \A i \in 1..Len(d) : Book!IsDue(d[i], run[r].since)
  BY RunOf
<1>2. d \in Seq(Book!DueRow) /\ d # <<>>
  BY <1>1 DEF Book!RunRow
<1>3. Book!Passed(r) = [run EXCEPT ![r] = row]
  BY DEF Book!Passed
<1> HIDE DEF d
<1>4. Tail(d) \in Seq(Book!DueRow) /\ Len(Tail(d)) = Len(d) - 1 /\ Len(d) \in Nat
  BY <1>2
<1>5. \A i \in 1..Len(Tail(d)) : Tail(d)[i] = d[i + 1] /\ i + 1 \in 1..Len(d)
  BY <1>2, <1>4
<1>6. \A i \in 1..Len(Tail(d)) : Book!IsDue(Tail(d)[i], run[r].since)
  BY <1>1, <1>5
<1>7. row \in Book!RunRow /\ row.phase = "asking" /\ row.dues = Tail(d) /\ row.since = run[r].since
  BY <1>1, <1>4 DEF Book!RunRow, d
<1> HIDE DEF row
<1> QED BY <1>3, <1>6, <1>7

LEMMA BeginKeeps ==
    ASSUME Book!ReportAssumption, Book!ReportInv, NEW r \in Replicas, Book!Begin(r)
    PROVE  Book!ReportInv'
<1> DEFINE row == [Book!Idle EXCEPT !.phase = "asking", !.dues = Book!Dues, !.since = clock]
<1>1. run' = [run EXCEPT ![r] = row] /\ run[r].phase = "idle"
  BY DEF Book!Begin
<1>2. Book!Dues \in Seq(Book!DueRow) /\ \A i \in 1..Len(Book!Dues) : Book!IsDue(Book!Dues[i], clock)
  BY RunOf, DuesNow
<1>3. ~Book!InHand(r)
  BY <1>1 DEF Book!InHand
<1>4. row \in Book!RunRow /\ row.phase = "asking" /\ row.dues = Book!Dues /\ row.since = clock
  BY <1>2, IdleRow, RunOf DEF Book!RunRow
<1>5. UNCHANGED <<clock, report, file, job, account, browser, notice, tx>>
  BY DEF Book!Begin, Book!noticeVars
<1> HIDE DEF row
<1> QED BY <1>1, <1>2, <1>3, <1>4, <1>5, RunMoves

LEMMA AskKeeps ==
    ASSUME Book!ReportInv, NEW r \in Replicas, Book!Ask(r)
    PROVE  Book!ReportInv'
<1>1. UNCHANGED <<clock, report, file, job, account, browser, notice, tx>> /\ ~Book!InHand(r)
  BY DEF Book!Ask, Book!noticeVars, Book!InHand
<1>2. CASE run' = Book!Passed(r)
  BY <1>1, <1>2, PassedRow, RunMoves DEF Book!Ask
<1>3. CASE run' = Book!Asked(r, "making")
  <2> DEFINE row == [run[r] EXCEPT !.phase = "making"]
  <2>1. run' = [run EXCEPT ![r] = row]
    BY <1>3, RunOf DEF Book!Asked
  <2>2. /\ row \in Book!RunRow /\ row.phase = "making" /\ row.dues = run[r].dues
        /\ row.since = run[r].since /\ row.dues # <<>>
    BY RunOf DEF Book!RunRow, Book!Ask
  <2>3. \A i \in 1..Len(row.dues) : Book!IsDue(row.dues[i], row.since)
    BY <2>2, RunOf
  <2> HIDE DEF row
  <2> QED BY <1>1, <2>1, <2>2, <2>3, RunMoves
<1> QED BY <1>2, <1>3 DEF Book!Ask

\* A replica is idle afterwards.
LEMMA FinishKeeps ==
    ASSUME Book!ReportInv, NEW r \in Replicas, Book!Finish(r) \/ Book!Restart(r)
    PROVE  Book!ReportInv'
<1>1. /\ Book!Idle \in Book!RunRow /\ Book!Idle.phase = "idle"
      /\ \A i \in 1..Len(Book!Idle.dues) : Book!IsDue(Book!Idle.dues[i], Book!Idle.since)
  <2>1. Len(Book!Idle.dues) = 0
    BY IdleRow
  <2> QED BY <2>1, IdleRow
<1>2. /\ run' = [run EXCEPT ![r] = Book!Idle]
      /\ UNCHANGED <<clock, report, file, job, account, browser, notice>>
      /\ (~Book!InHand(r) /\ UNCHANGED tx) \/ tx' = [tx EXCEPT ![r] = Book!Post!Closed]
  BY DEF Book!Finish, Book!Restart, Book!noticeVars, Book!InHand
<1> QED BY <1>1, <1>2, RunMoves

LEMMA FailKeeps ==
    ASSUME Book!ReportInv, NEW r \in Replicas, Book!Fail(r)
    PROVE  Book!ReportInv'
<1>1. /\ UNCHANGED <<clock, report, file, job, account, browser, notice>>
      /\ tx' = [tx EXCEPT ![r] = Book!Post!Closed] /\ run' = Book!Passed(r)
      /\ run[r].phase \in {"made", "distributed"}
  BY DEF Book!Fail, Book!Post!Undo
<1>2. run[r].dues # <<>>
  BY <1>1, RunOf
<1> QED BY <1>1, <1>2, PassedRow, RunMoves
-----------------------------------------------------------------------------
LEMMA TellsAsBefore ==
    ASSUME NEW q, run'[q] = run[q], tx'[q] = tx[q], UNCHANGED account, Book!TellsOf(q, tx[q])
    PROVE  Book!TellsOf(q, tx[q])'
BY DEF Book!TellsOf, Book!Post!Holders, Book!Post!KeyOf, Book!Standing, Book!Post!CallOf

LEMMA TxOf ==
    ASSUME Book!ReportInv, NEW r \in Replicas
    PROVE  /\ DOMAIN tx = Replicas
           /\ DOMAIN tx[r] = {"phase", "event", "calls", "rows", "todo", "subs", "stamped", "dropped", "failed"}
           /\ tx[r].subs = {} /\ tx[r].phase = (IF Book!InHand(r) THEN "open" ELSE "closed")
           /\ Book!InHand(r) => Book!TellsOf(r, tx[r])
BY DEF Book!ReportInv, Book!TellsOfItsReport, Book!Post!Closed

\* The standing notice of a report goes to both standing desks.
LEMMA StandingCall ==
    /\ Book!Standing # {}
    /\ \A call \in Book!Standing : Book!Post!Recipients(call) = Book!Post!Holders({Admin, Hod})
<1>1. Book!Standing = {[name |-> "report.ready", users |-> {}, roles |-> {Admin, Hod}, exclude |-> {}, mail |-> TRUE]}
  BY DEF Book!Standing, Book!Post!CallOf
<1> QED BY <1>1 DEF Book!Post!Recipients

\* A transaction that goes on telling of its report.
LEMMA TellingGoesOn ==
    ASSUME Book!ReportInv, NEW r \in Replicas, Book!InHand(r), NEW t,
           run' \in [Replicas -> Book!RunRow], run'[r].phase \in {"made", "distributed"},
           run'[r].id = run[r].id, run'[r].dues = run[r].dues, run'[r].since = run[r].since,
           \A q \in Replicas : q # r => run'[q] = run[q],
           tx' = [tx EXCEPT ![r] = t], DOMAIN t = DOMAIN tx[r], t.subs = {}, t.phase = "open",
           Book!TellsOf(r, tx[r])',
           UNCHANGED <<clock, report, file, job, account, browser, notice>>
    PROVE  Book!ReportInv'
<1>1. Book!InHand(r)' /\ DOMAIN tx = Replicas /\ tx'[r] = t
  BY TxOf DEF Book!InHand
<1>2. \A q \in Replicas : (Book!InHand(q)' <=> Book!InHand(q)) /\ run'[q].id = run[q].id
  BY <1>1 DEF Book!InHand
<1>3. Book!Fields'
  BY DEF Book!ReportInv, Book!Fields, Book!IsJob
<1>4. Book!OwnFiles'
  BY <1>2 DEF Book!ReportInv, Book!OwnFiles
<1>5. Book!TellsOfItsReport'
  <2>1. ASSUME NEW q \in Replicas
        PROVE  /\ DOMAIN tx'[q] = DOMAIN Book!Post!Closed /\ tx'[q].subs = {}
               /\ tx'[q].phase = (IF Book!InHand(q)' THEN "open" ELSE "closed")
               /\ Book!InHand(q)' => Book!TellsOf(q, tx[q])'
    <3>1. CASE q = r
      <4>1. DOMAIN tx[r] = DOMAIN Book!Post!Closed
        BY DEF Book!ReportInv, Book!TellsOfItsReport
      <4> QED BY <1>1, <3>1, <4>1
    <3>2. CASE q # r
      <4>1. tx'[q] = tx[q] /\ run'[q] = run[q]
        BY <1>1, <3>2
      <4>2. /\ DOMAIN tx[q] = DOMAIN Book!Post!Closed /\ tx[q].subs = {}
            /\ tx[q].phase = (IF Book!InHand(q) THEN "open" ELSE "closed")
            /\ Book!InHand(q) => Book!TellsOf(q, tx[q])
        BY DEF Book!ReportInv, Book!TellsOfItsReport
      <4> QED BY <1>2, <4>1, <4>2, TellsAsBefore
    <3> QED BY <3>1, <3>2
  <2>2. DOMAIN tx' = Replicas /\ browser' = {}
    BY <1>1 DEF Book!ReportInv, Book!TellsOfItsReport
  <2> QED BY <2>1, <2>2 DEF Book!TellsOfItsReport, Book!Post!Closed
<1>6. Book!DuesAreDue'
  <2>1. Book!Scheduled' = Book!Scheduled
    BY DEF Book!Scheduled
  <2>2. ASSUME NEW q \in Replicas
        PROVE  /\ \A i \in 1..Len(run'[q].dues) : Book!IsDue(run'[q].dues[i], run'[q].since)
               /\ run'[q].phase \in {"making", "made", "distributed"} => run'[q].dues # <<>>
    BY RunOf DEF Book!InHand
  <2> QED BY <2>1, <2>2 DEF Book!ReportInv, Book!DuesAreDue, Book!IsDue
<1>7. Book!ReportAndNoticeAgree'
  BY DEF Book!ReportInv, Book!ReportAndNoticeAgree, Book!Scheduled, Book!Post!Holders
<1>8. Book!JobSaysWhatHappened'
  BY DEF Book!ReportInv, Book!JobSaysWhatHappened
<1> QED BY <1>3, <1>4, <1>5, <1>6, <1>7, <1>8 DEF Book!ReportInv

LEMMA DistributeKeeps ==
    ASSUME Book!ReportInv, NEW r \in Replicas, Book!Distribute(r)
    PROVE  Book!ReportInv'
<1> DEFINE calls == {Book!CallOf(x) : x \in {y \in rule : y.active /\ y.type = Head(run[r].dues).type}}
           t == [tx[r] EXCEPT !.calls = calls]
           row == [run[r] EXCEPT !.phase = "distributed"]
<1>1. /\ run[r].phase = "made" /\ tx[r].calls = {} /\ tx[r].todo = {} /\ Book!InHand(r)
      /\ run' = [run EXCEPT ![r] = row] /\ tx' = [tx EXCEPT ![r] = t]
      /\ UNCHANGED <<clock, report, file, job, account, browser, notice>>
  BY DEF Book!Distribute, Book!Asked, Book!Post!Told, Book!InHand
<1> HIDE DEF calls
<1>2. /\ row \in Book!RunRow /\ row.phase = "distributed" /\ row.id = run[r].id /\ row.dues = run[r].dues
      /\ row.since = run[r].since
  BY RunOf DEF Book!RunRow
<1>3. /\ DOMAIN t = DOMAIN tx[r] /\ t.subs = {} /\ t.phase = "open" /\ t.calls = calls
      /\ t.event = tx[r].event /\ t.rows = tx[r].rows /\ t.todo = tx[r].todo
  BY <1>1, TxOf
<1> HIDE DEF row, t
<1>4. run' \in [Replicas -> Book!RunRow] /\ run'[r] = row /\ \A q \in Replicas : q # r => run'[q] = run[q]
  BY <1>1, <1>2, RunOf DEF Book!ReportInv, Book!Fields
<1>5. tx'[r] = t /\ Book!TellsOf(r, tx[r])
  BY <1>1, TxOf
<1>6. Book!TellsOf(r, tx[r])'
  <2>1. \A u \in Book!Post!Holders({Admin, Hod}) : \E n \in tx[r].rows : n.user = u
    BY <1>1, <1>5 DEF Book!TellsOf
  <2> QED BY <1>1, <1>2, <1>3, <1>4, <1>5, <2>1 DEF Book!TellsOf, Book!Post!Holders, Book!Post!KeyOf
<1> QED BY <1>1, <1>2, <1>3, <1>4, <1>6, TellingGoesOn
\* Rows of its report, and a row for each of the standing desks once they are told.
LEMMA RowsTold ==
    ASSUME Book!ReportInv, NEW r \in Replicas, Book!Tell(r), NEW call \in tx[r].calls, Book!Post!Tell(r, call)
    PROVE  Book!ReportInv'
<1> DEFINE rows == {Book!Post!Row(tx[r].event, call, u) : u \in Book!Post!Recipients(call)}
           all == tx[r].rows \cup rows
           todo == {Book!Post!KeyOf(x) : x \in {y \in rows : account[y.user].active}}
           calls == tx[r].calls \ {call}
           t == [tx[r] EXCEPT !.calls = calls, !.rows = all, !.todo = todo]
<1>1. /\ tx[r].phase = "open" /\ tx' = [tx EXCEPT ![r] = t]
      /\ UNCHANGED <<clock, report, file, job, account, browser, notice, run>>
  <2>1. /\ tx[r].phase = "open" /\ tx' = [tx EXCEPT ![r] = t]
        /\ UNCHANGED <<account, browser, notice, audit, sent, faults, changes>>
    BY Zenon DEF Book!Post!Tell
  <2>2. UNCHANGED <<clock, report, file, rule, run, job, flagged>>
    BY DEF Book!Tell
  <2> QED BY <2>1, <2>2
<1>2. Book!InHand(r) /\ Book!TellsOf(r, tx[r])
  BY <1>1, TxOf
<1>3. \A n \in rows : DOMAIN n = Book!RowColumns /\ n.event = run[r].id
  BY <1>2 DEF Book!TellsOf, Book!Post!Row, Book!RowColumns
<1>4. ASSUME NEW u \in Book!Post!Recipients(call) PROVE \E n \in rows : n.user = u
  <2>1. Book!Post!Row(tx[r].event, call, u) \in rows /\ Book!Post!Row(tx[r].event, call, u).user = u
    BY DEF Book!Post!Row
  <2> QED BY <2>1
<1>5. todo \subseteq {Book!Post!KeyOf(n) : n \in all}
  OBVIOUS
<1> HIDE DEF rows, todo, calls
<1>6. \A n \in all : DOMAIN n = Book!RowColumns /\ n.event = run[r].id
  BY <1>2, <1>3 DEF Book!TellsOf
<1>7. run[r].phase = "made" => calls \subseteq Book!Standing
  BY <1>2 DEF Book!TellsOf, calls
<1>8. run[r].phase = "distributed" \/ calls = {} =>
          \A u \in Book!Post!Holders({Admin, Hod}) : \E n \in all : n.user = u
  <2>1. CASE run[r].phase = "distributed"
    BY <1>2, <2>1 DEF Book!TellsOf
  <2>2. CASE run[r].phase = "made"
    <3>1. call \in Book!Standing
      BY <1>2, <2>2 DEF Book!TellsOf
    <3> QED BY <1>4, <3>1, StandingCall
  <2> QED BY <1>2, <2>1, <2>2 DEF Book!InHand
<1> HIDE DEF all
<1>9. /\ DOMAIN t = DOMAIN tx[r] /\ t.subs = {} /\ t.phase = "open" /\ t.calls = calls
      /\ t.event = tx[r].event /\ t.rows = all /\ t.todo = todo
  BY <1>1, TxOf
<1> HIDE DEF t
<1>10. tx'[r] = t
  BY <1>1, TxOf
<1>11. Book!TellsOf(r, tx[r])'
  BY <1>1, <1>2, <1>5, <1>6, <1>7, <1>8, <1>9, <1>10
     DEF Book!TellsOf, Book!Post!Holders, Book!Post!KeyOf, Book!Standing, Book!Post!CallOf
<1> QED BY <1>1, <1>2, <1>9, <1>11, TellingGoesOn DEF Book!ReportInv, Book!Fields, Book!InHand

\* A delivery amends a row; nobody has a browser here.
LEMMA Delivered ==
    ASSUME Book!ReportInv, NEW r \in Replicas, Book!Tell(r), Book!Post!Deliver(r)
    PROVE  Book!ReportInv'
<1>1. tx[r].subs = {} /\ browser = {}
  BY TxOf DEF Book!ReportInv, Book!TellsOfItsReport
<1>2. ~Book!Post!Deadlocked(r)
  BY <1>1 DEF Book!Post!Deadlocked, Book!Post!Waits
<1>3. PICK key \in tx[r].todo, accepted \in BOOLEAN : Book!Post!Mail(r, key, accepted)
  BY <1>1, <1>2 DEF Book!Post!Deliver
<1> DEFINE row == Book!Post!Pending(r, key)
           new == Book!Post!Stamped(row, accepted)
           rows == (tx[r].rows \ {row}) \cup {new}
           todo == tx[r].todo \ {key}
           failed == Book!Post!Recorded(r, key, accepted)
           subs == {<<key, sub>> : sub \in {b \in browser : b[1] = row.user}}
           t == [tx[r] EXCEPT !.rows = rows, !.failed = failed, !.todo = todo, !.subs = subs]
<1>4. /\ tx[r].phase = "open" /\ tx' = [tx EXCEPT ![r] = t]
      /\ UNCHANGED <<clock, report, file, job, account, browser, notice, run>>
  BY <1>3 DEF Book!Tell, Book!Post!Mail, Book!Post!Amended
<1>5. Book!InHand(r) /\ Book!TellsOf(r, tx[r])
  BY <1>4, TxOf
<1>6. row \in tx[r].rows /\ Book!Post!KeyOf(row) = key
  BY <1>5 DEF Book!TellsOf, Book!Post!Pending
<1>7. subs = {}
  BY <1>1
<1> HIDE DEF row, failed, subs
<1>8. DOMAIN row = Book!RowColumns /\ row.event = run[r].id
  BY <1>5, <1>6 DEF Book!TellsOf
<1>9. /\ DOMAIN new = Book!RowColumns /\ new.event = row.event /\ new.user = row.user
      /\ new.call = row.call
  BY <1>8 DEF Book!Post!Stamped, Book!RowColumns
<1> HIDE DEF new
<1>10. \A n \in rows : DOMAIN n = Book!RowColumns /\ n.event = run[r].id
  BY <1>5, <1>8, <1>9 DEF Book!TellsOf
<1>11. todo \subseteq {Book!Post!KeyOf(n) : n \in rows}
  <2>1. ASSUME NEW k \in todo PROVE \E n \in rows : Book!Post!KeyOf(n) = k
    <3>1. PICK n \in tx[r].rows : Book!Post!KeyOf(n) = k
      BY <1>5, <2>1 DEF Book!TellsOf
    <3>2. n # row
      BY <1>6, <2>1, <3>1
    <3> QED BY <3>1, <3>2
  <2> QED BY <2>1
<1>12. ASSUME NEW n \in tx[r].rows PROVE \E o \in rows : o.user = n.user
  BY <1>9
<1> HIDE DEF rows, todo
<1>13. /\ DOMAIN t = DOMAIN tx[r] /\ t.subs = {} /\ t.phase = "open" /\ t.calls = tx[r].calls
       /\ t.event = tx[r].event /\ t.rows = rows /\ t.todo = todo
  BY <1>4, <1>7, TxOf
<1> HIDE DEF t
<1>14. tx'[r] = t
  BY <1>4, TxOf
<1>15. Book!TellsOf(r, tx[r])'
  <2>1. run[r].phase = "distributed" \/ t.calls = {} =>
            \A u \in Book!Post!Holders({Admin, Hod}) : \E n \in rows : n.user = u
    BY <1>5, <1>12, <1>13 DEF Book!TellsOf
  <2> QED BY <1>4, <1>5, <1>10, <1>11, <1>13, <1>14, <2>1
          DEF Book!TellsOf, Book!Post!Holders, Book!Post!KeyOf, Book!Standing, Book!Post!CallOf
<1> QED BY <1>4, <1>5, <1>13, <1>15, TellingGoesOn DEF Book!ReportInv, Book!Fields, Book!InHand

LEMMA TellReportKeeps ==
    ASSUME Book!ReportInv, NEW r \in Replicas, Book!Tell(r)
    PROVE  Book!ReportInv'
BY RowsTold, Delivered DEF Book!Tell
-----------------------------------------------------------------------------
\* The file that is made is nobody else's.
LEMMA MakeKeeps ==
    ASSUME Book!ReportInv, NEW r \in Replicas, Book!Make(r)
    PROVE  Book!ReportInv'
<1> DEFINE f == file \cup {Book!NextId}
           row == [run[r] EXCEPT !.phase = "made", !.id = Book!NextId]
           t == [Book!Post!Closed EXCEPT !.phase = "open", !.event = Book!NextId, !.calls = Book!Standing]
           next == Book!NextId
<1>1. /\ run[r].phase = "making" /\ file' = f /\ run' = [run EXCEPT ![r] = row]
      /\ tx' = [tx EXCEPT ![r] = t]
      /\ UNCHANGED <<clock, report, job, account, browser, notice>>
  BY DEF Book!Make, Book!Made, Book!Post!Open
<1>2. next \in Nat /\ next > 0 /\ next \notin file /\ Book!IsFiniteSet(f) /\ f = 1..Book!Cardinality(f)
  BY NextFile DEF Book!ReportInv
<1> HIDE DEF next
<1>3. /\ row \in Book!RunRow /\ row.phase = "made" /\ row.id = next /\ row.dues = run[r].dues
      /\ row.since = run[r].since
  BY <1>2, RunOf DEF Book!RunRow, next
<1>4. /\ DOMAIN t = DOMAIN Book!Post!Closed /\ t.subs = {} /\ t.phase = "open" /\ t.calls = Book!Standing
      /\ t.event = next /\ t.rows = {} /\ t.todo = {}
  BY DEF Book!Post!Closed, next
<1> HIDE DEF row, t, f
<1>5. /\ run' \in [Replicas -> Book!RunRow] /\ run'[r] = row /\ tx'[r] = t
      /\ DOMAIN tx' = Replicas
      /\ \A q \in Replicas : q # r => run'[q] = run[q] /\ tx'[q] = tx[q]
  BY <1>1, <1>3, RunOf, TxOf DEF Book!ReportInv, Book!Fields
<1>6. Book!InHand(r)' /\ \A q \in Replicas : q # r => (Book!InHand(q)' <=> Book!InHand(q))
  BY <1>3, <1>5 DEF Book!InHand
<1>7. next \in f /\ \A x \in file : x \in f /\ x # next
  BY <1>2 DEF f, next
<1>8. Book!Fields'
  BY <1>1, <1>2, <1>5 DEF Book!ReportInv, Book!Fields, Book!IsJob
<1>9. Book!OwnFiles'
  <2>1. /\ \A x \in report : x.id \in f
        /\ \A x, o \in report : x.id = o.id => x = o
    BY <1>7 DEF Book!ReportInv, Book!OwnFiles
  <2>2. ASSUME NEW q \in Replicas, Book!InHand(q)'
        PROVE  run'[q].id \in f /\ \A x \in report : x.id # run'[q].id
    <3>1. CASE q = r
      BY <1>3, <1>5, <1>7, <3>1 DEF Book!ReportInv, Book!OwnFiles
    <3>2. CASE q # r
      BY <1>5, <1>6, <1>7, <2>2, <3>2 DEF Book!ReportInv, Book!OwnFiles
    <3> QED BY <3>1, <3>2
  <2>3. ASSUME NEW q \in Replicas, NEW o \in Replicas, q # o, Book!InHand(q)', Book!InHand(o)'
        PROVE  run'[q].id # run'[o].id
    <3>1. CASE q = r
      BY <1>3, <1>5, <1>6, <1>7, <2>3, <3>1 DEF Book!ReportInv, Book!OwnFiles
    <3>2. CASE o = r
      BY <1>3, <1>5, <1>6, <1>7, <2>3, <3>2 DEF Book!ReportInv, Book!OwnFiles
    <3>3. CASE q # r /\ o # r
      BY <1>5, <1>6, <2>3, <3>3 DEF Book!ReportInv, Book!OwnFiles
    <3> QED BY <3>1, <3>2, <3>3
  <2>4. ASSUME NEW p \in People, NEW q \in Replicas, Book!InHand(q)' PROVE run'[q].id # job[p].id
    <3>1. CASE q = r
      BY <1>2, <1>3, <1>5, <1>7, <3>1 DEF Book!ReportInv, Book!OwnFiles
    <3>2. CASE q # r
      BY <1>5, <1>6, <2>4, <3>2 DEF Book!ReportInv, Book!OwnFiles
    <3> QED BY <3>1, <3>2
  <2>5. \A p \in People :
           /\ job[p].id = 0 \/ job[p].id \in f
           /\ job[p].status = "processing" => job[p].id # 0
           /\ job[p].status = "queued" => job[p].id = 0
    BY <1>7 DEF Book!ReportInv, Book!OwnFiles
  <2> QED BY <1>1, <2>1, <2>2, <2>3, <2>4, <2>5 DEF Book!ReportInv, Book!OwnFiles
<1>10. Book!TellsOfItsReport'
  <2>1. Book!TellsOf(r, tx[r])'
    BY <1>1, <1>3, <1>4, <1>5, StandingCall DEF Book!TellsOf, Book!Standing, Book!Post!CallOf
  <2>2. ASSUME NEW q \in Replicas
        PROVE  /\ DOMAIN tx'[q] = DOMAIN Book!Post!Closed /\ tx'[q].subs = {}
               /\ tx'[q].phase = (IF Book!InHand(q)' THEN "open" ELSE "closed")
               /\ Book!InHand(q)' => Book!TellsOf(q, tx[q])'
    <3>1. CASE q = r
      BY <1>4, <1>5, <1>6, <2>1, <3>1
    <3>2. CASE q # r
      <4>1. /\ DOMAIN tx[q] = DOMAIN Book!Post!Closed /\ tx[q].subs = {}
            /\ tx[q].phase = (IF Book!InHand(q) THEN "open" ELSE "closed")
            /\ Book!InHand(q) => Book!TellsOf(q, tx[q])
        BY DEF Book!ReportInv, Book!TellsOfItsReport
      <4> QED BY <1>1, <1>5, <1>6, <3>2, <4>1, TellsAsBefore
    <3> QED BY <3>1, <3>2
  <2> QED BY <1>1, <1>5, <2>2 DEF Book!ReportInv, Book!TellsOfItsReport, Book!Post!Closed
<1>11. Book!DuesAreDue'
  <2>1. Book!Scheduled' = Book!Scheduled
    BY <1>1 DEF Book!Scheduled
  <2>2. ASSUME NEW q \in Replicas
        PROVE  /\ \A i \in 1..Len(run'[q].dues) : Book!IsDue(run'[q].dues[i], run'[q].since)
               /\ run'[q].phase \in {"making", "made", "distributed"} => run'[q].dues # <<>>
    BY <1>1, <1>3, <1>5, RunOf
  <2> QED BY <2>1, <2>2 DEF Book!ReportInv, Book!DuesAreDue, Book!IsDue
<1>12. Book!ReportAndNoticeAgree'
  BY <1>1 DEF Book!ReportInv, Book!ReportAndNoticeAgree, Book!Scheduled, Book!Post!Holders
<1>13. Book!JobSaysWhatHappened'
  BY <1>1, <1>7 DEF Book!ReportInv, Book!JobSaysWhatHappened
<1> QED BY <1>8, <1>9, <1>10, <1>11, <1>12, <1>13 DEF Book!ReportInv

\* The report and what was told of it are on record together.
LEMMA CommitReportKeeps ==
    ASSUME Book!ReportInv, NEW r \in Replicas, Book!Commit(r)
    PROVE  Book!ReportInv'
<1> DEFINE d == run[r].dues
           new == Book!New(run[r].id, Head(d), "schedule", run[r].since)
<1>1. /\ run[r].phase = "distributed" /\ Book!InHand(r) /\ run' = Book!Passed(r)
      /\ tx[r].calls = {} /\ notice' = notice \cup tx[r].rows /\ tx' = [tx EXCEPT ![r] = Book!Post!Closed]
      /\ browser' = browser \ tx[r].dropped /\ report' = report \cup {new}
      /\ UNCHANGED <<clock, file, job, account>>
  BY DEF Book!Commit, Book!Post!Commit, Book!Post!Told, Book!InHand
<1>2. d \in Seq(Book!DueRow) /\ d # <<>> /\ \A i \in 1..Len(d) : Book!IsDue(d[i], run[r].since)
  BY <1>1, RunOf DEF Book!RunRow
<1>3. PICK row \in Book!RunRow :
          /\ run' = [run EXCEPT ![r] = row] /\ row.phase = "asking"
          /\ \A i \in 1..Len(row.dues) : Book!IsDue(row.dues[i], row.since)
  BY <1>1, <1>2, PassedRow
<1>4. Book!TellsOf(r, tx[r])
  BY <1>1, TxOf
<1> HIDE DEF d
<1>5. Book!IsDue(Head(d), run[r].since)
  <2>1. 1 \in 1..Len(d) /\ Head(d) = d[1]
    BY <1>2
  <2> QED BY <1>2, <2>1
<1>6. /\ new.id = run[r].id /\ new.type = Head(d).type /\ new.period = Head(d).period
      /\ new.by = "schedule" /\ new.due = run[r].since
  BY DEF Book!New
<1> HIDE DEF new
<1>7. /\ run' \in [Replicas -> Book!RunRow] /\ run'[r] = row /\ tx'[r] = Book!Post!Closed
      /\ DOMAIN tx' = Replicas
      /\ \A q \in Replicas : q # r => run'[q] = run[q] /\ tx'[q] = tx[q]
  BY <1>1, <1>3, RunOf, TxOf DEF Book!ReportInv, Book!Fields
<1>8. ~Book!InHand(r)' /\ \A q \in Replicas : q # r => (Book!InHand(q)' <=> Book!InHand(q))
  BY <1>3, <1>7 DEF Book!InHand
<1>9. Book!Fields'
  BY <1>1, <1>7 DEF Book!ReportInv, Book!Fields, Book!IsJob
<1>10. /\ run[r].id \in file /\ \A x \in report : x.id # run[r].id
       /\ \A q \in Replicas : q # r /\ Book!InHand(q) => run[q].id # run[r].id
       /\ \A p \in People : run[r].id # job[p].id
  BY <1>1 DEF Book!ReportInv, Book!OwnFiles
<1>11. Book!OwnFiles'
  <2>1. /\ \A x \in report' : x.id \in file
        /\ \A x, o \in report' : x.id = o.id => x = o
    BY <1>1, <1>6, <1>10 DEF Book!ReportInv, Book!OwnFiles
  <2>2. ASSUME NEW q \in Replicas, Book!InHand(q)'
        PROVE  /\ q # r /\ Book!InHand(q) /\ run'[q] = run[q] /\ run[q].id \in file
               /\ \A x \in report' : x.id # run[q].id
    <3>1. q # r /\ Book!InHand(q) /\ run'[q] = run[q]
      BY <1>7, <1>8, <2>2
    <3>2. run[q].id \in file /\ \A x \in report : x.id # run[q].id
      BY <3>1 DEF Book!ReportInv, Book!OwnFiles
    <3> QED BY <1>1, <1>6, <1>10, <3>1, <3>2
  <2>3. \A q, o \in Replicas : q # o /\ Book!InHand(q)' /\ Book!InHand(o)' => run'[q].id # run'[o].id
    BY <2>2 DEF Book!ReportInv, Book!OwnFiles
  <2>4. \A p \in People : \A q \in Replicas : Book!InHand(q)' => run'[q].id # job[p].id
    BY <2>2 DEF Book!ReportInv, Book!OwnFiles
  <2> QED BY <1>1, <2>1, <2>2, <2>3, <2>4 DEF Book!ReportInv, Book!OwnFiles
<1>12. Book!TellsOfItsReport'
  <2>1. Book!Post!Closed.subs = {} /\ Book!Post!Closed.phase = "closed"
    BY DEF Book!Post!Closed
  <2>2. ASSUME NEW q \in Replicas
        PROVE  /\ DOMAIN tx'[q] = DOMAIN Book!Post!Closed /\ tx'[q].subs = {}
               /\ tx'[q].phase = (IF Book!InHand(q)' THEN "open" ELSE "closed")
               /\ Book!InHand(q)' => Book!TellsOf(q, tx[q])'
    <3>1. CASE q = r
      BY <1>7, <1>8, <2>1, <3>1
    <3>2. CASE q # r
      <4>1. /\ DOMAIN tx[q] = DOMAIN Book!Post!Closed /\ tx[q].subs = {}
            /\ tx[q].phase = (IF Book!InHand(q) THEN "open" ELSE "closed")
            /\ Book!InHand(q) => Book!TellsOf(q, tx[q])
        BY DEF Book!ReportInv, Book!TellsOfItsReport
      <4> QED BY <1>1, <1>7, <1>8, <3>2, <4>1, TellsAsBefore
    <3> QED BY <3>1, <3>2
  <2>3. browser' = {}
    BY <1>1 DEF Book!ReportInv, Book!TellsOfItsReport
  <2> QED BY <1>7, <2>2, <2>3 DEF Book!TellsOfItsReport, Book!Post!Closed
<1>13. Book!Scheduled' = Book!Scheduled \cup {new}
  BY <1>1, <1>6 DEF Book!Scheduled
<1>14. Book!DuesAreDue'
  <2>1. Book!IsDue(new, new.due)
    BY <1>5, <1>6 DEF Book!IsDue
  <2>2. ASSUME NEW q \in Replicas
        PROVE  /\ \A i \in 1..Len(run'[q].dues) : Book!IsDue(run'[q].dues[i], run'[q].since)
               /\ run'[q].phase \in {"making", "made", "distributed"} => run'[q].dues # <<>>
    <3>1. CASE q = r
      BY <1>3, <1>7, <3>1
    <3>2. CASE q # r
      BY <1>7, <3>2, RunOf
    <3> QED BY <3>1, <3>2
  <2>3. \A x \in Book!Scheduled' : Book!IsDue(x, x.due)
    BY <1>13, <2>1 DEF Book!ReportInv, Book!DuesAreDue
  <2> QED BY <2>2, <2>3 DEF Book!DuesAreDue, Book!IsDue
<1>15. Book!ReportAndNoticeAgree'
  <2>1. \A n \in notice' : \E x \in Book!Scheduled' : x.id = n.event
    BY <1>1, <1>4, <1>6, <1>13 DEF Book!ReportInv, Book!ReportAndNoticeAgree, Book!TellsOf
  <2>2. ASSUME NEW x \in Book!Scheduled', NEW u \in Book!Post!Holders({Admin, Hod})
        PROVE  \E n \in notice' : n.event = x.id /\ n.user = u
    <3>1. CASE x \in Book!Scheduled
      BY <1>1, <3>1 DEF Book!ReportInv, Book!ReportAndNoticeAgree
    <3>2. CASE x = new
      BY <1>1, <1>4, <1>6, <3>2 DEF Book!TellsOf
    <3> QED BY <1>13, <3>1, <3>2
  <2> QED BY <1>1, <2>1, <2>2 DEF Book!ReportAndNoticeAgree, Book!Post!Holders
<1>16. Book!JobSaysWhatHappened'
  BY <1>1, <1>6, <1>10 DEF Book!ReportInv, Book!JobSaysWhatHappened
<1> QED BY <1>9, <1>11, <1>12, <1>14, <1>15, <1>16 DEF Book!ReportInv
-----------------------------------------------------------------------------
LEMMA NothingIsTold ==
    ASSUME Book!TellsOfItsReport, UNCHANGED <<run, tx, browser, account>>
    PROVE  Book!TellsOfItsReport'
<1>1. ASSUME NEW q \in Replicas
      PROVE  /\ (Book!InHand(q)' <=> Book!InHand(q)) /\ tx'[q] = tx[q]
             /\ Book!TellsOf(q, tx[q]) => Book!TellsOf(q, tx[q])'
  BY TellsAsBefore DEF Book!InHand
<1> QED BY <1>1 DEF Book!TellsOfItsReport, Book!Post!Closed

LEMMA NothingIsDue ==
    ASSUME Book!DuesAreDue, UNCHANGED run, Book!Scheduled' = Book!Scheduled
    PROVE  Book!DuesAreDue'
BY DEF Book!DuesAreDue, Book!IsDue

\* A job that moves, and no report with it.
LEMMA JobMoves ==
    ASSUME Book!ReportInv, NEW p \in People, NEW j, Book!IsJob(j), job' = [job EXCEPT ![p] = j],
           NEW f, Book!IsFiniteSet(f), f = 1..Book!Cardinality(f), file \subseteq f, file' = f,
           j.id = 0 \/ j.id \in f,
           j.status = "processing" => j.id # 0, j.status = "queued" => j.id = 0,
           j.id # 0 => j.id = job[p].id \/ j.id \notin file,
           j.id # 0 => (j.status = "completed" <=> \E x \in report : x.id = j.id),
           UNCHANGED <<clock, report, run, account, browser, notice, tx>>
    PROVE  Book!ReportInv'
<1>1. DOMAIN job' = People /\ job'[p] = j /\ \A o \in People : o # p => job'[o] = job[o]
  BY DEF Book!ReportInv, Book!Fields
<1>2. \A q \in Replicas : Book!InHand(q)' <=> Book!InHand(q)
  BY DEF Book!InHand
<1>3. Book!Fields'
  <2>1. \A o \in People : Book!IsJob(job'[o])
    BY <1>1 DEF Book!ReportInv, Book!Fields
  <2> QED BY <1>1, <2>1 DEF Book!ReportInv, Book!Fields, Book!IsJob
<1>4. Book!OwnFiles'
  <2>1. \A q \in Replicas : Book!InHand(q) => run[q].id \in file /\ run[q].id # j.id
    <3>1. ASSUME NEW q \in Replicas, Book!InHand(q) PROVE run[q].id \in file /\ run[q].id # 0 /\ run[q].id # job[p].id
      <4>1. run[q].id \in file /\ run[q].id # job[p].id
        BY <3>1 DEF Book!ReportInv, Book!OwnFiles
      <4>2. file = 1..Book!Cardinality(file)
        BY DEF Book!ReportInv, Book!Fields
      <4>3. 0 \notin file
        BY <4>2, NextFile DEF Book!ReportInv
      <4> QED BY <4>1, <4>3
    <3> QED BY <3>1
  <2>2. ASSUME NEW o \in People, NEW x \in People, o # x, job'[o].id # 0
        PROVE  job'[o].id # job'[x].id
    <3>1. \A y \in People : job[y].id = 0 \/ job[y].id \in file
      BY DEF Book!ReportInv, Book!OwnFiles
    <3>2. CASE o = p
      BY <1>1, <2>2, <3>1, <3>2 DEF Book!ReportInv, Book!OwnFiles
    <3>3. CASE x = p
      BY <1>1, <2>2, <3>1, <3>3 DEF Book!ReportInv, Book!OwnFiles
    <3>4. CASE o # p /\ x # p
      BY <1>1, <2>2, <3>4 DEF Book!ReportInv, Book!OwnFiles
    <3> QED BY <3>2, <3>3, <3>4
  <2>3. ASSUME NEW o \in People
        PROVE  /\ job'[o].id = 0 \/ job'[o].id \in f
               /\ job'[o].status = "processing" => job'[o].id # 0
               /\ job'[o].status = "queued" => job'[o].id = 0
    <3>1. CASE o = p
      BY <1>1, <3>1
    <3>2. CASE o # p
      BY <1>1, <3>2 DEF Book!ReportInv, Book!OwnFiles
    <3> QED BY <3>1, <3>2
  <2>4. ASSUME NEW o \in People, NEW q \in Replicas, Book!InHand(q) PROVE run[q].id # job'[o].id
    <3>1. CASE o = p
      BY <1>1, <2>1, <2>4, <3>1
    <3>2. CASE o # p
      BY <1>1, <2>4, <3>2 DEF Book!ReportInv, Book!OwnFiles
    <3> QED BY <3>1, <3>2
  <2>5. \A x \in report : x.id \in f
    BY DEF Book!ReportInv, Book!OwnFiles
  <2>6. \A x, o \in report : x.id = o.id => x = o
    BY DEF Book!ReportInv, Book!OwnFiles
  <2>7. /\ \A q \in Replicas : Book!InHand(q) => \A x \in report : x.id # run[q].id
        /\ \A q, o \in Replicas : q # o /\ Book!InHand(q) /\ Book!InHand(o) => run[q].id # run[o].id
    BY DEF Book!ReportInv, Book!OwnFiles
  <2> QED BY <1>2, <2>1, <2>2, <2>3, <2>4, <2>5, <2>6, <2>7 DEF Book!OwnFiles
<1>5. Book!Scheduled' = Book!Scheduled
  BY DEF Book!Scheduled
<1>6. Book!ReportAndNoticeAgree'
  BY <1>5 DEF Book!ReportInv, Book!ReportAndNoticeAgree, Book!Post!Holders
<1>7. Book!JobSaysWhatHappened'
  <2>1. ASSUME NEW o \in People, job'[o].id # 0
        PROVE  job'[o].status = "completed" <=> \E x \in report : x.id = job'[o].id
    <3>1. CASE o = p
      BY <1>1, <2>1, <3>1
    <3>2. CASE o # p
      BY <1>1, <2>1, <3>2 DEF Book!ReportInv, Book!JobSaysWhatHappened
    <3> QED BY <3>1, <3>2
  <2> QED BY <2>1 DEF Book!ReportInv, Book!JobSaysWhatHappened
<1> QED BY <1>3, <1>4, <1>5, <1>6, <1>7, NothingIsTold, NothingIsDue DEF Book!ReportInv

LEMMA JobOf ==
    ASSUME Book!ReportInv, NEW p \in People
    PROVE  /\ DOMAIN job = People /\ Book!IsJob(job[p])
           /\ job[p].id = 0 \/ job[p].id \in file
           /\ job[p].status = "processing" => job[p].id # 0
           /\ job[p].status = "queued" => job[p].id = 0
           /\ job[p].id # 0 => (job[p].status = "completed" <=> \E x \in report : x.id = job[p].id)
           /\ Book!IsFiniteSet(file) /\ file = 1..Book!Cardinality(file)
           /\ \A x \in report : x.id \in file
BY DEF Book!ReportInv, Book!Fields, Book!OwnFiles, Book!JobSaysWhatHappened

LEMMA RequestKeeps ==
    ASSUME Book!ReportInv, NEW p \in People, NEW w, Book!Request(p, w)
    PROVE  Book!ReportInv'
<1> DEFINE j == [status |-> "queued", wish |-> w, id |-> 0]
<1>1. /\ job' = [job EXCEPT ![p] = j]
      /\ UNCHANGED <<clock, report, file, run, account, browser, notice, tx>>
  BY DEF Book!Request, Book!noticeVars
<1>2. Book!IsJob(j) /\ j.id = 0 /\ j.status = "queued"
  BY DEF Book!IsJob
<1> HIDE DEF j
<1> QED BY <1>1, <1>2, JobOf, JobMoves

LEMMA RunJobKeeps ==
    ASSUME Book!ReportInv, NEW p \in People, Book!RunJob(p)
    PROVE  Book!ReportInv'
<1> DEFINE next == Book!NextId
           f == file \cup {next}
           j == [job[p] EXCEPT !.status = "processing", !.id = next]
<1>1. /\ job' = [job EXCEPT ![p] = j] /\ file' = f
      /\ UNCHANGED <<clock, report, run, account, browser, notice, tx>>
  BY DEF Book!RunJob, Book!noticeVars
<1>2. next \in Nat /\ next # 0 /\ next \notin file /\ Book!IsFiniteSet(f) /\ f = 1..Book!Cardinality(f)
  BY NextFile DEF Book!ReportInv
<1> HIDE DEF next
<1>3. Book!IsJob(j) /\ j.id = next /\ j.status = "processing"
  BY <1>2, JobOf DEF Book!IsJob
<1>4. next \in f /\ file \subseteq f /\ ~\E x \in report : x.id = next
  BY <1>2, JobOf
<1> HIDE DEF j, f
<1> QED BY <1>1, <1>2, <1>3, <1>4, JobMoves

LEMMA FailJobKeeps ==
    ASSUME Book!ReportInv, NEW p \in People, Book!FailJob(p)
    PROVE  Book!ReportInv'
<1> DEFINE j == [job[p] EXCEPT !.status = "failed"]
<1>1. /\ job' = [job EXCEPT ![p] = j] /\ job[p].status \in {"queued", "processing"}
      /\ UNCHANGED <<clock, report, file, run, account, browser, notice, tx>>
  BY JobOf DEF Book!FailJob
<1>2. Book!IsJob(j) /\ j.id = job[p].id /\ j.status = "failed"
  BY JobOf DEF Book!IsJob
<1>3. j.id # 0 => ~\E x \in report : x.id = j.id
  BY <1>1, <1>2, JobOf
<1> HIDE DEF j
<1> QED BY <1>1, <1>2, <1>3, JobOf, JobMoves
\* The report of a job is its own.
LEMMA CompleteJobKeeps ==
    ASSUME Book!ReportAssumption, Book!ReportInv, NEW p \in People, Book!CompleteJob(p)
    PROVE  Book!ReportInv'
<1> DEFINE new == Book!New(job[p].id, job[p].wish, p, clock)
           j == [job[p] EXCEPT !.status = "completed"]
<1>1. /\ job' = [job EXCEPT ![p] = j] /\ job[p].status = "processing" /\ report' = report \cup {new}
      /\ UNCHANGED <<clock, file, run, account, browser, notice, tx>>
  BY JobOf DEF Book!CompleteJob, Book!Completed, Book!noticeVars
<1>2. Book!IsJob(j) /\ j.id = job[p].id /\ j.status = "completed"
  BY JobOf DEF Book!IsJob
<1>3. new.id = job[p].id /\ new.by # "schedule"
  BY DEF Book!New, Book!ReportAssumption
<1> HIDE DEF new, j
<1>4. DOMAIN job' = People /\ job'[p] = j /\ \A o \in People : o # p => job'[o] = job[o]
  BY <1>1, JobOf
<1>5. job[p].id # 0 /\ job[p].id \in file /\ \A x \in report : x.id # job[p].id
  BY <1>1, JobOf
<1>6. \A q \in Replicas : Book!InHand(q)' <=> Book!InHand(q)
  BY <1>1 DEF Book!InHand
<1>7. \A o \in People : job'[o].id = job[o].id
  BY <1>2, <1>4
<1>8. Book!Fields'
  <2>1. \A o \in People : Book!IsJob(job'[o])
    BY <1>2, <1>4, JobOf
  <2> QED BY <1>1, <1>4, <2>1 DEF Book!ReportInv, Book!Fields, Book!IsJob
<1>9. Book!OwnFiles'
  <2>1. /\ \A x \in report' : x.id \in file
        /\ \A x, o \in report' : x.id = o.id => x = o
    BY <1>1, <1>3, <1>5 DEF Book!ReportInv, Book!OwnFiles
  <2>2. \A q \in Replicas : Book!InHand(q) =>
            run[q].id \in file /\ run[q].id # job[p].id /\ \A x \in report : x.id # run[q].id
    BY DEF Book!ReportInv, Book!OwnFiles
  <2>3. ASSUME NEW o \in People
        PROVE  /\ job'[o].id = 0 \/ job'[o].id \in file
               /\ job'[o].status = "processing" => job'[o].id # 0
               /\ job'[o].status = "queued" => job'[o].id = 0
    BY <1>2, <1>4, <1>7, JobOf
  <2>4. /\ \A q, o \in Replicas : q # o /\ Book!InHand(q) /\ Book!InHand(o) => run[q].id # run[o].id
        /\ \A o \in People : \A q \in Replicas : Book!InHand(q) => run[q].id # job'[o].id
        /\ \A o, x \in People : o # x /\ job'[o].id # 0 => job'[o].id # job'[x].id
    BY <1>7 DEF Book!ReportInv, Book!OwnFiles
  <2> QED BY <1>1, <1>3, <1>6, <2>1, <2>2, <2>3, <2>4 DEF Book!OwnFiles
<1>10. Book!Scheduled' = Book!Scheduled
  BY <1>1, <1>3 DEF Book!Scheduled
<1>11. Book!ReportAndNoticeAgree'
  BY <1>1, <1>10 DEF Book!ReportInv, Book!ReportAndNoticeAgree, Book!Post!Holders
<1>12. Book!JobSaysWhatHappened'
  <2>1. ASSUME NEW o \in People, job'[o].id # 0
        PROVE  job'[o].status = "completed" <=> \E x \in report' : x.id = job'[o].id
    <3>1. CASE o = p
      BY <1>1, <1>2, <1>3, <1>4, <3>1
    <3>2. CASE o # p
      <4>1. job[o].id # job[p].id
        BY <1>4, <2>1, <3>2 DEF Book!ReportInv, Book!OwnFiles
      <4>2. job[o].status = "completed" <=> \E x \in report : x.id = job[o].id
        BY <1>4, <2>1, <3>2, JobOf
      <4> QED BY <1>1, <1>3, <1>4, <3>2, <4>1, <4>2
    <3> QED BY <3>1, <3>2
  <2>2. \A x \in report' : x.id \in file
    BY <1>1, <1>3, <1>5 DEF Book!ReportInv, Book!OwnFiles
  <2> QED BY <1>1, <2>1, <2>2 DEF Book!JobSaysWhatHappened
<1> QED BY <1>1, <1>8, <1>9, <1>10, <1>11, <1>12, NothingIsTold, NothingIsDue DEF Book!ReportInv

\* What changes no report, no job and no transaction.
LEMMA AsideKeeps ==
    ASSUME Book!ReportInv, UNCHANGED <<report, file, run, job, account, browser, notice, tx>>, clock' \in Nat
    PROVE  Book!ReportInv'
<1>1. Book!Fields'
  BY DEF Book!ReportInv, Book!Fields, Book!IsJob
<1>2. Book!OwnFiles'
  BY DEF Book!ReportInv, Book!OwnFiles, Book!InHand
<1>3. Book!Scheduled' = Book!Scheduled
  BY DEF Book!Scheduled
<1>4. Book!ReportAndNoticeAgree' /\ Book!JobSaysWhatHappened'
  BY <1>3 DEF Book!ReportInv, Book!ReportAndNoticeAgree, Book!JobSaysWhatHappened, Book!Post!Holders
<1> QED BY <1>1, <1>2, <1>3, <1>4, NothingIsTold, NothingIsDue DEF Book!ReportInv

LEMMA ReportInit ==
    ASSUME Book!ReportAssumption, Book!Init
    PROVE  Book!ReportInv
<1>1. /\ report = {} /\ file = {} /\ run = [r \in Replicas |-> Book!Idle] /\ job = [p \in People |-> Book!NoJob]
      /\ clock = DayLength * MonthLength * 2 - 1 /\ browser = {} /\ notice = {}
      /\ tx = [s \in Replicas |-> Book!Post!Closed]
  BY DEF Book!Init, Book!Post!Init
<1>2. clock \in Nat
  BY <1>1, ReportFacts
<1>3. Book!IsFiniteSet(file) /\ file = 1..Book!Cardinality(file)
  BY <1>1, CountOf, FS_EmptySet
<1>4. Book!Fields
  BY <1>1, <1>2, <1>3, IdleRow DEF Book!Fields, Book!NoJob, Book!IsJob
<1>5. \A q \in Replicas : run[q] = Book!Idle /\ ~Book!InHand(q) /\ tx[q] = Book!Post!Closed
  BY <1>1, IdleRow DEF Book!InHand
<1>6. Book!OwnFiles
  BY <1>1, <1>5 DEF Book!OwnFiles, Book!NoJob
<1>7. Book!TellsOfItsReport
  BY <1>1, <1>5 DEF Book!TellsOfItsReport, Book!Post!Closed
<1>8. Book!DuesAreDue
  <2>1. Len(Book!Idle.dues) = 0
    BY IdleRow
  <2> QED BY <1>1, <1>5, <2>1, IdleRow DEF Book!DuesAreDue, Book!Scheduled
<1>9. Book!ReportAndNoticeAgree /\ Book!JobSaysWhatHappened
  BY <1>1 DEF Book!ReportAndNoticeAgree, Book!JobSaysWhatHappened, Book!Scheduled, Book!NoJob
<1> QED BY <1>4, <1>6, <1>7, <1>8, <1>9 DEF Book!ReportInv

LEMMA ReportStep ==
    ASSUME Book!ReportAssumption, Book!ReportInv, [Book!Next]_(Book!vars)
    PROVE  Book!ReportInv'
<1>0. clock \in Nat
  BY DEF Book!ReportInv, Book!Fields
<1>1. ASSUME NEW r \in Replicas, Book!Work(r) PROVE Book!ReportInv'
  BY <1>1, BeginKeeps, AskKeeps, FinishKeeps, MakeKeeps, DistributeKeeps, TellReportKeeps, CommitReportKeeps,
     FailKeeps DEF Book!Work
<1>2. ASSUME NEW r \in Replicas, Book!Restart(r) PROVE Book!ReportInv'
  BY <1>2, FinishKeeps
<1>3. ASSUME NEW r \in Replicas, Book!Retain(r) PROVE Book!ReportInv'
  BY <1>0, <1>3, AsideKeeps DEF Book!Retain, Book!noticeVars
<1>4. ASSUME NEW p \in People, Book!RunJob(p) \/ Book!CompleteJob(p) \/ Book!FailJob(p) PROVE Book!ReportInv'
  BY <1>4, RunJobKeeps, CompleteJobKeeps, FailJobKeeps
<1>5. ASSUME NEW p \in People, NEW w \in Wishes, Book!Request(p, w) PROVE Book!ReportInv'
  BY <1>5, RequestKeeps
<1>6. ASSUME NEW x \in rule, Book!UpdateRule(x) PROVE Book!ReportInv'
  BY <1>0, <1>6, AsideKeeps DEF Book!UpdateRule
<1>7. CASE Book!Tick
  BY <1>0, <1>7, AsideKeeps DEF Book!Tick, Book!noticeVars
<1>8. CASE UNCHANGED Book!vars
  BY <1>0, <1>8, AsideKeeps DEF Book!vars, Book!noticeVars
<1> QED BY <1>1, <1>2, <1>3, <1>4, <1>5, <1>6, <1>7, <1>8 DEF Book!Next
-----------------------------------------------------------------------------
\* already_generated, where nobody else can make it in the meantime.
LEMMA WantedStep ==
    ASSUME Book!ReportAssumption, Book!OneReplica, Book!ReportInv, Book!StillWanted,
           Book!OneReportPerPeriod, [Book!Next]_(Book!vars)
    PROVE  Book!StillWanted' /\ Book!OneReportPerPeriod'
<1> DEFINE Under(q) == run[q].phase \in {"making", "made", "distributed"}
           Unlike(x, due) == ~(x.type = due.type /\ x.period = due.period)
<1>1. ASSUME Book!Scheduled' = Book!Scheduled,
             \A q \in Replicas : Under(q)' => Under(q) /\ run'[q].dues = run[q].dues
      PROVE  Book!StillWanted' /\ Book!OneReportPerPeriod'
  BY <1>1 DEF Book!StillWanted, Book!OneReportPerPeriod
<1>2. ASSUME UNCHANGED <<run, report>> PROVE Book!StillWanted' /\ Book!OneReportPerPeriod'
  BY <1>2 DEF Book!StillWanted, Book!OneReportPerPeriod, Book!Scheduled
<1>3. ASSUME NEW r \in Replicas, Book!Scheduled' = Book!Scheduled,
             Under(r)' => Under(r) /\ run'[r].dues = run[r].dues
      PROVE  Book!StillWanted' /\ Book!OneReportPerPeriod'
  <2>1. \A q \in Replicas : q = r
    BY DEF Book!OneReplica
  <2> QED BY <1>1, <1>3, <2>1
<1>4. ASSUME NEW r \in Replicas, Book!Begin(r) PROVE Book!StillWanted' /\ Book!OneReportPerPeriod'
  <2> DEFINE row == [Book!Idle EXCEPT !.phase = "asking", !.dues = Book!Dues, !.since = clock]
  <2>1. run' = [run EXCEPT ![r] = row] /\ Book!Scheduled' = Book!Scheduled
    BY <1>4 DEF Book!Begin, Book!Scheduled
  <2>2. row.phase = "asking"
    BY IdleRow DEF Book!RunRow
  <2> HIDE DEF row
  <2>3. run'[r] = row
    BY <2>1, RunOf
  <2> QED BY <1>3, <2>1, <2>2, <2>3
<1>5. ASSUME NEW r \in Replicas, Book!Ask(r) PROVE Book!StillWanted' /\ Book!OneReportPerPeriod'
  <2>1. Book!Scheduled' = Book!Scheduled /\ run[r].dues # <<>> /\ DOMAIN run = Replicas
    BY <1>5, RunOf DEF Book!Ask, Book!Scheduled
  <2>2. CASE run' = Book!Passed(r)
    <3>1. run'[r].phase = "asking"
      BY <2>1, <2>2, PassedRow
    <3> QED BY <1>3, <2>1, <3>1
  <2>3. CASE ~Book!Covered(Head(run[r].dues)) /\ run' = Book!Asked(r, "making")
    <3>1. DOMAIN run[r] = {"phase", "dues", "since", "id"}
      BY RunOf DEF Book!RunRow
    <3>2. run'[r].dues = run[r].dues /\ \A q \in Replicas : q = r
      BY <2>1, <2>3, <3>1 DEF Book!Asked, Book!OneReplica
    <3>3. \A x \in Book!Scheduled : Unlike(x, Head(run[r].dues))
      BY <2>3 DEF Book!Covered, Book!Scheduled
    <3> QED BY <2>1, <3>2, <3>3 DEF Book!StillWanted, Book!OneReportPerPeriod
  <2> QED BY <1>5, <2>2, <2>3 DEF Book!Ask
<1>6. ASSUME NEW r \in Replicas, Book!Finish(r) \/ Book!Restart(r) PROVE Book!StillWanted' /\ Book!OneReportPerPeriod'
  <2>1. run' = [run EXCEPT ![r] = Book!Idle] /\ Book!Scheduled' = Book!Scheduled
    BY <1>6 DEF Book!Finish, Book!Restart, Book!Scheduled
  <2>2. run'[r].phase = "idle"
    BY <2>1, RunOf, IdleRow
  <2> QED BY <1>3, <2>1, <2>2
<1>7. ASSUME NEW r \in Replicas, Book!Make(r) PROVE Book!StillWanted' /\ Book!OneReportPerPeriod'
  <2> DEFINE row == [run[r] EXCEPT !.phase = "made", !.id = Book!NextId]
  <2>1. run' = [run EXCEPT ![r] = row] /\ Book!Scheduled' = Book!Scheduled /\ Under(r)
    BY <1>7 DEF Book!Make, Book!Made, Book!Scheduled
  <2>2. row.dues = run[r].dues
    BY RunOf DEF Book!RunRow
  <2> HIDE DEF row
  <2>3. run'[r] = row
    BY <2>1, RunOf
  <2> QED BY <1>3, <2>1, <2>2, <2>3
<1>8. ASSUME NEW r \in Replicas, Book!Distribute(r) PROVE Book!StillWanted' /\ Book!OneReportPerPeriod'
  <2> DEFINE row == [run[r] EXCEPT !.phase = "distributed"]
  <2>1. run' = [run EXCEPT ![r] = row] /\ Book!Scheduled' = Book!Scheduled /\ Under(r)
    BY <1>8 DEF Book!Distribute, Book!Asked, Book!Scheduled
  <2>2. row.dues = run[r].dues
    BY RunOf DEF Book!RunRow
  <2> HIDE DEF row
  <2>3. run'[r] = row
    BY <2>1, RunOf
  <2> QED BY <1>3, <2>1, <2>2, <2>3
<1>9. ASSUME NEW r \in Replicas, Book!Commit(r) PROVE Book!StillWanted' /\ Book!OneReportPerPeriod'
  <2> DEFINE new == Book!New(run[r].id, Head(run[r].dues), "schedule", run[r].since)
  <2>1. run' = Book!Passed(r) /\ report' = report \cup {new} /\ Under(r)
    BY <1>9 DEF Book!Commit
  <2>2. new.type = Head(run[r].dues).type /\ new.period = Head(run[r].dues).period /\ new.by = "schedule"
    BY DEF Book!New
  <2>3. \A x \in Book!Scheduled : Unlike(x, Head(run[r].dues))
    BY <2>1 DEF Book!StillWanted
  <2> HIDE DEF new
  <2>4. Book!Scheduled' = Book!Scheduled \cup {new}
    BY <2>1, <2>2 DEF Book!Scheduled
  <2>5. Book!OneReportPerPeriod'
    BY <2>2, <2>3, <2>4 DEF Book!OneReportPerPeriod
  <2>6. run'[r].phase = "asking" /\ \A q \in Replicas : q = r
    BY <2>1, RunOf, PassedRow DEF Book!OneReplica
  <2> QED BY <2>5, <2>6 DEF Book!StillWanted
<1>10. ASSUME NEW r \in Replicas, Book!Fail(r) PROVE Book!StillWanted' /\ Book!OneReportPerPeriod'
  <2>1. run' = Book!Passed(r) /\ Book!Scheduled' = Book!Scheduled /\ run[r].dues # <<>>
    BY <1>10, RunOf DEF Book!Fail, Book!Scheduled
  <2>2. run'[r].phase = "asking"
    BY <2>1, RunOf, PassedRow
  <2> QED BY <1>3, <2>1, <2>2
<1>11. ASSUME NEW r \in Replicas, Book!Tell(r) \/ Book!Retain(r) PROVE Book!StillWanted' /\ Book!OneReportPerPeriod'
  BY <1>2, <1>11 DEF Book!Tell, Book!Retain
<1>12. ASSUME NEW p \in People, Book!CompleteJob(p) PROVE Book!StillWanted' /\ Book!OneReportPerPeriod'
  <2> DEFINE new == Book!New(job[p].id, job[p].wish, p, clock)
  <2>1. report' = report \cup {new} /\ UNCHANGED run
    BY <1>12 DEF Book!CompleteJob, Book!Completed
  <2>2. new.by # "schedule"
    BY DEF Book!New, Book!ReportAssumption
  <2> HIDE DEF new
  <2>3. Book!Scheduled' = Book!Scheduled
    BY <2>1, <2>2 DEF Book!Scheduled
  <2> QED BY <1>1, <2>1, <2>3
<1>13. ASSUME NEW p \in People, Book!RunJob(p) \/ Book!FailJob(p) \/ \E w \in Wishes : Book!Request(p, w)
       PROVE  Book!StillWanted' /\ Book!OneReportPerPeriod'
  BY <1>2, <1>13 DEF Book!RunJob, Book!FailJob, Book!Request
<1>14. CASE (\E x \in rule : Book!UpdateRule(x)) \/ Book!Tick \/ UNCHANGED Book!vars
  BY <1>2, <1>14 DEF Book!UpdateRule, Book!Tick, Book!vars
<1> QED BY <1>4, <1>5, <1>6, <1>7, <1>8, <1>9, <1>10, <1>11, <1>12, <1>13, <1>14 DEF Book!Next, Book!Work

\* schedule.py, report_service.py: however many replicas and people make reports,
\* and whatever fails on the way, a scheduled report and the notice of it are there
\* together, a job says what became of it, and the period was over when it came due.
THEOREM ReportsAreToldOf ==
    ASSUME Book!ReportAssumption
    PROVE  Book!Spec => [](Book!ReportAndNoticeAgree /\ Book!JobSaysWhatHappened /\ Book!PeriodIsOver)
<1>1. Book!ReportInv => Book!ReportAndNoticeAgree /\ Book!JobSaysWhatHappened /\ Book!PeriodIsOver
  BY DEF Book!ReportInv, Book!DuesAreDue, Book!IsDue, Book!PeriodIsOver
<1>2. Book!Init => Book!ReportInv
  BY ReportInit
<1>3. Book!ReportInv /\ [Book!Next]_(Book!vars) => Book!ReportInv'
  BY ReportStep
<1> QED BY <1>1, <1>2, <1>3, PTL DEF Book!Spec

\* run_due, already_generated: where one replica runs, a period also has one report,
\* and a monthly report made after the first day covers the month that has ended.
THEOREM ReportsAgreeAlone ==
    ASSUME Book!ReportAssumption, Book!OneReplica
    PROVE  Book!Spec => []Book!ReportsAgree
<1> DEFINE Inv == Book!ReportInv /\ Book!StillWanted /\ Book!OneReportPerPeriod
<1>1. Inv => Book!ReportsAgree
  BY DEF Book!ReportInv, Book!DuesAreDue, Book!IsDue, Book!PeriodIsOver,
         Book!MonthlyCoversTheMonthThatEnded, Book!ReportsAgree
<1>2. Book!Init => Inv
  <2> SUFFICES ASSUME Book!Init PROVE Inv
    OBVIOUS
  <2>1. Book!Scheduled = {} /\ \A q \in Replicas : run[q] = Book!Idle
    BY DEF Book!Init, Book!Scheduled
  <2> QED BY <2>1, ReportInit, IdleRow DEF Book!StillWanted, Book!OneReportPerPeriod
<1>3. Inv /\ [Book!Next]_(Book!vars) => Inv'
  BY ReportStep, WantedStep
<1> QED BY <1>1, <1>2, <1>3, PTL DEF Book!Spec
===============================================================================
