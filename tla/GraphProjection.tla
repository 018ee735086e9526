--------------------------- MODULE GraphProjection ---------------------------
(***************************************************************************)
(* The graph that is kept beside the relational store: sync_once and       *)
(* run_worker of services/graph_sync_worker.py in every replica, the       *)
(* rebuild script, and the statements services/neo4j_service.py may run.   *)
(*                                                                         *)
(* Nine tables are read one after the other, each by its own stamp, and    *)
(* share one watermark.  A trade projects itself, its leg and the name of  *)
(* its supplier; every other row projects itself and the trade it is on.   *)
(*                                                                         *)
(* Not modelled: the titles and properties a node carries besides one      *)
(* value, the sales side of a trade (it is projected as the purchase side  *)
(* is), the bounded traversal of one trade, drivers and their settings.    *)
(***************************************************************************)
EXTENDS Integers, FiniteSets, FiniteSetsExt, Sequences

CONSTANTS
    Tables,         \* the tables of PROJECTIONS, in its order
    StampedOnce,    \* those whose stamp is not moved by a change
    Rows,           \* [table: a table, id: a name]
    Names,          \* what the rows say, suppliers and statuses alike
    Versions,       \* what a session may make of a row: [row, says, leg, on]
    First,          \* the rows that are there at the start, as Versions
    Sessions,       \* of people and of the other workers
    Replicas,       \* with a worker each
    Scripts,        \* runs of rebuild_graph
    Limit,          \* GRAPH_SYNC_BATCH_SIZE
    MaxWrites,      \* bound: changes of the store
    MaxFaults       \* bound: refusals of the graph store, and restarts

VARIABLES
    stored,     \* the committed rows: versions with the stamp they carry
    open,       \* per session: the row it has flushed and not yet committed
    clock,      \* stamps given out
    node,       \* of the graph: <<key, says>>
    edge,       \* of the graph: <<key, key>>
    pass,       \* per worker and script: the sweep it is in
    mishaps

vars == <<stored, open, clock, node, edge, pass, mishaps>>

None == "none"
Never == -1
Readers == Replicas \cup Scripts

TradeRow(id) == [table |-> "trade", id |-> id]

Columns == [row : Rows, says : Names, leg : Names \cup {None}, on : {w.id : w \in Rows} \cup {None}]
StoredRow ==
    [row : Rows, says : Names, leg : Names \cup {None}, on : {w.id : w \in Rows} \cup {None},
     stamp : Nat]

GraphAssumption ==
    /\ Limit \in Nat \ {0} /\ MaxWrites \in Nat /\ MaxFaults \in Nat
    /\ Len(Tables) \in Nat /\ Replicas \cap Scripts = {}
    /\ IsFiniteSet(Rows) /\ IsFiniteSet(First)
    /\ \A w \in Rows : /\ w = [table |-> w.table, id |-> w.id]
                       /\ w.table \notin {"leg", "supplier"}
                       /\ \E i \in 1..Len(Tables) : Tables[i] = w.table
    /\ Versions \subseteq Columns /\ First \subseteq StoredRow
    /\ \A r, o \in First : r.row = o.row => r = o
    /\ \A r \in First : r.on # None => \E t \in First : t.row = TradeRow(r.on)

\* A node is keyed by its row, a counterparty by its name.
Key(row) == <<row.table, row.id>>
LegKey(row) == <<"leg", row.id>>
NameKey(name) == <<"supplier", name>>
TradeKey(id) == <<"trade", id>>

NodesOf(r) ==
    {<<Key(r.row), r.says>>}
        \cup IF r.leg = None THEN {} ELSE {<<LegKey(r.row), None>>, <<NameKey(r.leg), r.leg>>}

EdgesOf(r) ==
    (IF r.on = None THEN {} ELSE {<<TradeKey(r.on), Key(r.row)>>})
        \cup IF r.leg = None THEN {}
             ELSE {<<Key(r.row), LegKey(r.row)>>, <<Key(r.row), NameKey(r.leg)>>}

Nodes(found) == UNION {NodesOf(r) : r \in found}
Edges(found) == UNION {EdgesOf(r) : r \in found}

Complete == Nodes(stored) \subseteq node /\ Edges(stored) \subseteq edge
Exact == Nodes(stored) = node /\ Edges(stored) = edge

-----------------------------------------------------------------------------
NoPass == [phase |-> "idle", since |-> Never, table |-> 1, found |-> {}, calm |-> FALSE]

\* The oldest rows of a table that are newer than the watermark, up to the limit.
Page(table, since) ==
    LET newer == {r \in stored : r.row.table = table /\ r.stamp > since}
    IN  {r \in newer : Cardinality({o \in newer : o.stamp < r.stamp}) < Limit}

Newest(p) == Max({r.stamp : r \in pass[p].found} \cup {pass[p].since})

\* What is known of a quiet store is void once something changes.
Disturbed(passes) == [p \in Readers |-> [passes[p] EXCEPT !.calm = FALSE]]

OthersIdle(p) == \A q \in Readers \ {p} : pass[q].phase \in {"idle", "built"}

Quiet(p) == (\A s \in Sessions : open[s] = {}) /\ OthersIdle(p)

\* run_worker, each tick: a fresh session, from the watermark it holds in memory.
BeginSweep(p) ==
    /\ p \in Replicas /\ pass[p].phase = "idle"
    /\ pass' = [pass EXCEPT ![p].phase = "reading", ![p].table = 1, ![p].found = {},
                            ![p].calm = IF pass[p].since = Never THEN Quiet(p) ELSE @]
    /\ UNCHANGED <<stored, open, clock, node, edge, mishaps>>

\* sync_once, of one table: each is a query of its own, and sees what has been
\* committed by then.
ReadTable(p) ==
    /\ pass[p].phase = "reading" /\ pass[p].table <= Len(Tables)
    /\ pass' = [pass EXCEPT ![p].table = @ + 1,
                            ![p].found = @ \cup Page(Tables[pass[p].table], pass[p].since)]
    /\ UNCHANGED <<stored, open, clock, node, edge, mishaps>>

\* Nothing new: the watermark stays, and a rebuild is done.
NothingNew(p) ==
    /\ pass[p].phase = "reading" /\ pass[p].table > Len(Tables) /\ pass[p].found = {}
    /\ pass' = [pass EXCEPT ![p].phase = IF p \in Scripts THEN "built" ELSE "idle"]
    /\ UNCHANGED <<stored, open, clock, node, edge, mishaps>>

\* MERGE on the key, and the properties overwritten.
UpsertNodes(p) ==
    /\ pass[p].phase = "reading" /\ pass[p].table > Len(Tables) /\ pass[p].found # {}
    /\ LET written == Nodes(pass[p].found)
       IN  node' = {n \in node : \A w \in written : w[1] # n[1]} \cup written
    /\ pass' = [pass EXCEPT ![p].phase = "joining"]
    /\ UNCHANGED <<stored, open, clock, edge, mishaps>>

\* MATCH of both ends, MERGE of the edge: one without an end is not written.
Merged(edges) == edge \cup {e \in edges : \A i \in 1..2 : \E n \in node : n[1] = e[i]}

\* The watermark moves once everything has been written.  A rebuild goes on to
\* its next page, or is done when a page did not move it.
UpsertEdges(p) ==
    /\ pass[p].phase = "joining"
    /\ edge' = Merged(Edges(pass[p].found))
    /\ pass' = [pass EXCEPT ![p].since = Newest(p), ![p].table = 1, ![p].found = {},
                    ![p].phase = CASE p \in Replicas -> "idle"
                                   [] Newest(p) = pass[p].since -> "built"
                                   [] OTHER -> "reading"]
    /\ UNCHANGED <<stored, open, clock, node, mishaps>>

\* Slip: the rows of a sweep that failed count as seen.
FailedSeen(p) == [pass EXCEPT ![p].phase = "idle", ![p].since = Newest(p), ![p].found = {}]

Failed(p) == [pass EXCEPT ![p].phase = "idle", ![p].found = {}]

\* GraphUnavailableError: a worker tries again with the watermark it had, a
\* script ends.
Refuse(p) ==
    /\ mishaps < MaxFaults /\ mishaps' = mishaps + 1
    /\ pass[p].phase \in {"reading", "joining"} /\ pass[p].found # {}
    /\ pass' = Failed(p)
    /\ UNCHANGED <<stored, open, clock, node, edge>>

\* A worker that is started again has no watermark.
Restart(p) ==
    /\ mishaps < MaxFaults /\ mishaps' = mishaps + 1
    /\ p \in Replicas
    /\ pass' = [pass EXCEPT ![p] = NoPass]
    /\ UNCHANGED <<stored, open, clock, node, edge>>

Cleared == node' = {} /\ edge' = {}

\* rebuild: nothing else is asked to stand still meanwhile.
BeginRebuild(p) ==
    /\ p \in Scripts /\ pass[p].phase = "idle" /\ pass[p].since = Never
    /\ Cleared
    /\ pass' = [Disturbed(pass) EXCEPT ![p] = [NoPass EXCEPT !.phase = "reading", !.calm = Quiet(p)]]
    /\ UNCHANGED <<stored, open, clock, mishaps>>

-----------------------------------------------------------------------------
Current(row) == {r \in stored : r.row = row}

\* A row is stamped when it is flushed, and seen when it is committed.  A leg is
\* a row of its own: changing it does not stamp its trade.  The trade a row is on
\* is there: a foreign key.
Flush(s, v) ==
    /\ clock < MaxWrites /\ open[s] = {}
    /\ v.on # None => Current(TradeRow(v.on)) # {}
    /\ \A o \in Sessions : \A r \in open[o] : r.row # v.row
    /\ \A r \in Current(v.row) : v # [row |-> r.row, says |-> r.says, leg |-> r.leg, on |-> r.on]
    /\ LET kept == \E r \in Current(v.row) :
                       \/ v.row.table \in StampedOnce
                       \/ r.says = v.says /\ r.leg # v.leg
           stamp == IF kept THEN (CHOOSE r \in Current(v.row) : TRUE).stamp ELSE clock + 1
       IN  open' = [open EXCEPT ![s] =
               {[row |-> v.row, says |-> v.says, leg |-> v.leg, on |-> v.on, stamp |-> stamp]}]
    /\ clock' = clock + 1
    /\ pass' = Disturbed(pass)
    /\ UNCHANGED <<stored, node, edge, mishaps>>

Commit(s) ==
    /\ open[s] # {}
    /\ stored' = {r \in stored : \A o \in open[s] : o.row # r.row} \cup open[s]
    /\ open' = [open EXCEPT ![s] = {}]
    /\ pass' = Disturbed(pass)
    /\ UNCHANGED <<clock, node, edge, mishaps>>

Init ==
    /\ stored = First /\ clock = Cardinality(First)
    /\ open = [s \in Sessions |-> {}]
    /\ node = {} /\ edge = {}
    /\ pass = [p \in Readers |-> NoPass]
    /\ mishaps = 0

Work(p) == ReadTable(p) \/ NothingNew(p) \/ UpsertNodes(p) \/ UpsertEdges(p)

Next ==
    \/ \E p \in Readers : BeginSweep(p) \/ Work(p) \/ Refuse(p) \/ Restart(p) \/ BeginRebuild(p)
    \/ \E s \in Sessions : Commit(s) \/ \E v \in Versions : Flush(s, v)

Spec == Init /\ [][Next]_vars

-----------------------------------------------------------------------------
TypeOK ==
    /\ \A r \in stored : r.row \in Rows /\ r.says \in Names /\ r.stamp \in 1..MaxWrites
    /\ \A r, o \in stored : r.row = o.row => r = o
    /\ \A n, m \in node : n[1] = m[1] => n = m
    /\ \A e \in edge, i \in 1..2 : \E n \in node : n[1] = e[i]
    /\ \A p \in Readers : pass[p].phase \in {"idle", "reading", "joining", "built"}
    /\ clock \in 0..MaxWrites /\ mishaps \in 0..MaxFaults

\* A worker that has just started brings a store that stands still into the
\* graph entirely, whatever was refused in between.
FirstPassIsComplete ==
    \A p \in Replicas : pass[p].calm /\ pass[p].phase = "idle" /\ pass[p].since # Never => Complete

\* A rebuild of a store that stands still, with no worker in the middle of a
\* sweep when it begins, leaves the projection of the store and nothing else.
RebuildIsExact ==
    \A p \in Scripts : pass[p].phase = "built" /\ pass[p].calm => Exact

-----------------------------------------------------------------------------
(* Why: what a reader holds of a store that stands still.                  *)

\* No table is longer than a page.
PagesHold == \A i \in 1..Len(Tables) : Cardinality({w \in Rows : w.table = Tables[i]}) <= Limit

IsSound(r) ==
    r \in StoredRow /\ (r.on # None => \E t \in stored : t.row = TradeRow(r.on))

StoreIsSound ==
    /\ \A r \in stored : IsSound(r)
    /\ \A r, o \in stored : r.row = o.row => r = o
    /\ DOMAIN open = Sessions
    /\ \A s \in Sessions : \A r, o \in open[s] : IsSound(r) /\ r = o
    /\ clock \in Nat

PassSince(since) ==
    [phase : {"idle", "reading", "joining", "built"}, since : {since}, table : Nat,
     found : SUBSET StoredRow, calm : BOOLEAN]

PassesAreSound ==
    /\ DOMAIN pass = Readers
    /\ \A p \in Readers : /\ pass[p] \in PassSince(pass[p].since)
                          /\ pass[p].table > 0
                          /\ pass[p].phase \in {"idle", "built"} => pass[p].found = {}

\* What is stored in the tables a reader has been through.
ReadSoFar(p) == {r \in stored : \E i \in 1..pass[p].table - 1 : r.row.table = Tables[i]}

\* A reader since whose start nothing has changed: what anybody has found is
\* so, what it has found of its first page is everything, what it has written
\* stays; and since a rebuild began there is nothing else.
CalmIsComplete(p) ==
    /\ \A s \in Sessions : open[s] = {}
    /\ \A q \in Readers : pass[q].found \subseteq stored
    /\ pass[p].since # Never \/ pass[p].phase = "built" => Complete
    /\ pass[p].since = Never /\ pass[p].phase = "reading" => pass[p].found = ReadSoFar(p)
    /\ pass[p].since = Never /\ pass[p].phase = "joining" =>
            pass[p].found = stored /\ Nodes(stored) \subseteq node
    /\ p \in Scripts /\ pass[p].phase # "idle" =>
            node \subseteq Nodes(stored) /\ edge \subseteq Edges(stored)

GraphInv ==
    StoreIsSound /\ PassesAreSound /\ \A p \in Readers : pass[p].calm => CalmIsComplete(p)
=============================================================================
