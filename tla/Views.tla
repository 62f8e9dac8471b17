-------------------------------- MODULE Views --------------------------------
(***************************************************************************)
(* The overview widget of the dashboard, GET /api/stats, beside the gate.  *)
(* The handler counts the nodes and relationships of Neo4j in three        *)
(* queries and the rows of pending_triples in a fourth, without a          *)
(* transaction over them: proposals and decisions go on in between.        *)
(***************************************************************************)
EXTENDS TripleGate

CONSTANTS
    Ends,     \* Ends[t]: the names of t's subject and object
    SourceOf  \* SourceOf[t]: its source_id

ASSUME ViewsAssumption ==
    \A t \in Triples : \E subject, object \in Ends[t] : Ends[t] = {subject, object}

VARIABLES
    query,  \* the query the handler awaits, 0 when no request is open
    page    \* page[f]: figure f as it was counted

views == <<query, page>>
viewsVars == <<vars, views>>

-----------------------------------------------------------------------------

InGraph == {t \in Triples : edges[t] > 0}

\* Concepts are merged, so that a node stands for its name; relationships are
\* created, so that each is counted.
Nodes == UNION {Ends[t] : t \in InGraph}
Relationships == UNION {{t} \X (1 .. edges[t]) : t \in Triples}

RowsWith(s) == {t \in Triples : status[t] = s}

\* The graph's Concept and Source nodes are the ones the commits merged.
Now(f) ==
    CASE f = "concepts" -> Cardinality(Nodes)
      [] f = "sources" -> Cardinality({SourceOf[t] : t \in InGraph})
      [] f = "relationships" -> Cardinality(Relationships)
      [] OTHER -> Cardinality(RowsWith(f))

Figures ==
    {"concepts", "sources", "relationships", "pending", "approved", "rejected"}

\* Variant of Queries: the rows are counted first.
RowsFirst ==
    << {"pending", "approved", "rejected"},
       {"concepts"}, {"sources"}, {"relationships"} >>

\* The figures each query of the handler brings, in its order.
Queries ==
    << {"concepts"}, {"sources"}, {"relationships"},
       {"pending", "approved", "rejected"} >>

Blank == [f \in Figures |-> 0]

\* The page is on the screen.
Shown == query = 5

ViewsInit ==
    /\ Init
    /\ query = 0
    /\ page = Blank

\* The widget asks for new figures every few seconds.
RequestStats ==
    /\ query = 0 \/ Shown
    /\ query' = 1
    /\ page' = Blank
    /\ UNCHANGED vars

CountNext ==
    /\ query \in 1 .. 4
    /\ page' = [f \in Figures |-> IF f \in Queries[query] THEN Now(f) ELSE page[f]]
    /\ query' = query + 1
    /\ UNCHANGED vars

\* A query raises and the request is answered with a 500.
StatsFail ==
    /\ Faults \cap {"pg", "neo4j"} # {}
    /\ query \in 1 .. 4
    /\ query' = 0
    /\ page' = Blank
    /\ UNCHANGED vars

\* The API process dies under its calls and its requests.
CrashWithViews ==
    /\ ApiCrash
    /\ query' = IF Shown THEN query ELSE 0
    /\ page' = IF Shown THEN page ELSE Blank

\* The gate goes on meanwhile.
GateStep ==
    /\ \/ \E t \in Triples, v \in Conf : Propose(t, v)
       \/ \E c \in Calls, t \in Triples : BeginApprove(c, t) \/ BeginReject(c, t)
       \/ ServerStep
       \/ \E c \in Calls : Release(c)
    /\ UNCHANGED views

ViewsNext == RequestStats \/ CountNext \/ StatsFail \/ CrashWithViews \/ GateStep

ViewsSpec == ViewsInit /\ [][ViewsNext]_viewsVars

-----------------------------------------------------------------------------

\* Although the counts on a page are from four moments, they never claim more
\* graph than was approved: no more relationships than approved rows, no more
\* sources than relationships, no more than two concepts for each of them.
StatsOrdered ==
    Shown =>
        /\ page["relationships"] <= page["approved"]
        /\ page["sources"] <= page["relationships"]
        /\ page["concepts"] <= 2 * page["relationships"]
=============================================================================
