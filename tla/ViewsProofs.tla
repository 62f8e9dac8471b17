----------------------------- MODULE ViewsProofs -----------------------------
(***************************************************************************)
(* Views, proved for any number of claims and calls, any names and sources *)
(* and every combination of faults.                                        *)
(***************************************************************************)
EXTENDS Views, TripleGateProofs, FunctionTheorems

-----------------------------------------------------------------------------
(* The requests only read                                                  *)

LEMMA ReadersStep == [ViewsNext]_viewsVars => [Next]_vars
BY DEF ViewsNext, RequestStats, CountNext, StatsFail, CrashWithViews, GateStep, Next,
       viewsVars, vars, views

\* The gate beside the dashboard is the gate: each of its steps is one of the
\* gate's own, so that what is proved of the gate holds here.
THEOREM ViewsOnlyRead == ViewsSpec => Spec
<1>1. ViewsInit => Init
  BY DEF ViewsInit
<1> QED
  BY <1>1, ReadersStep, PTL DEF ViewsSpec, Spec

-----------------------------------------------------------------------------
(* Counting                                                                *)

\* A function has no more values than arguments.
LEMMA ValuesAreFewer ==
    ASSUME NEW S, IsFiniteSet(S), NEW T, NEW f \in [S -> T]
    PROVE  /\ IsFiniteSet({f[x] : x \in S})
           /\ Cardinality({f[x] : x \in S}) <= Cardinality(S)
<1> DEFINE V == {f[x] : x \in S}
<1>1. f \in Surjection(S, V)
  BY DEF Surjection
<1> QED
  BY <1>1, FS_Surjection

LEMMA SomeOrOther ==
    ASSUME NEW S, IsFiniteSet(S), NEW T, IsFiniteSet(T)
    PROVE  /\ IsFiniteSet(S \cup T)
           /\ Cardinality(S \cup T) <= Cardinality(S) + Cardinality(T)
<1>1. /\ Cardinality(S) \in Nat /\ Cardinality(T) \in Nat
      /\ IsFiniteSet(S \cap T)
  BY FS_CardinalityType, FS_Intersection
<1>2. Cardinality(S \cap T) \in Nat
  BY <1>1, FS_CardinalityType
<1>3. /\ IsFiniteSet(S \cup T)
      /\ Cardinality(S \cup T) =
            Cardinality(S) + Cardinality(T) - Cardinality(S \cap T)
  BY FS_Union
<1> QED
  BY <1>1, <1>2, <1>3

\* The sources and the concepts of the graph, each claim having one source and
\* a subject and an object.
LEMMA FewSources ==
    ASSUME IsFiniteSet(InGraph)
    PROVE  /\ Cardinality({SourceOf[t] : t \in InGraph}) \in Nat
           /\ Cardinality({SourceOf[t] : t \in InGraph}) <= Cardinality(InGraph)
<1> DEFINE f == [t \in InGraph |-> SourceOf[t]]
           S == {f[t] : t \in InGraph}
<1>1. f \in [InGraph -> S]
  OBVIOUS
<1>2. S = {SourceOf[t] : t \in InGraph}
  OBVIOUS
<1>3. Cardinality(S) \in Nat /\ Cardinality(S) <= Cardinality(InGraph)
  <2> HIDE DEF f
  <2>1. IsFiniteSet(S) /\ Cardinality(S) <= Cardinality(InGraph)
    BY <1>1, ValuesAreFewer
  <2> QED
    BY <2>1, FS_CardinalityType
<1> QED
  BY <1>2, <1>3

LEMMA FewConcepts ==
    ASSUME IsFiniteSet(InGraph)
    PROVE  Cardinality(Nodes) \in Nat /\ Cardinality(Nodes) <= 2 * Cardinality(InGraph)
<1> DEFINE subject == [t \in InGraph |->
                CHOOSE a \in Ends[t] : \E b \in Ends[t] : Ends[t] = {a, b}]
           object == [t \in InGraph |-> CHOOSE b \in Ends[t] : Ends[t] = {subject[t], b}]
           A == {subject[t] : t \in InGraph}
           B == {object[t] : t \in InGraph}
<1>1. ASSUME NEW t \in InGraph PROVE Ends[t] = {subject[t], object[t]}
  <2>1. t \in Triples /\ \E a, b \in Ends[t] : Ends[t] = {a, b}
    BY ViewsAssumption DEF InGraph
  <2>2. \E b \in Ends[t] : Ends[t] = {subject[t], b}
    BY <2>1
  <2> HIDE DEF subject
  <2>3. object[t] = CHOOSE b \in Ends[t] : Ends[t] = {subject[t], b}
    OBVIOUS
  <2> QED
    BY <2>2, <2>3
<1>2. subject \in [InGraph -> A] /\ object \in [InGraph -> B]
  OBVIOUS
<1> HIDE DEF subject, object
<1>3. Nodes = A \cup B
  BY <1>1 DEF Nodes
<1>4. /\ IsFiniteSet(A) /\ IsFiniteSet(B)
      /\ Cardinality(A) <= Cardinality(InGraph)
      /\ Cardinality(B) <= Cardinality(InGraph)
  <2>1. IsFiniteSet(A) /\ Cardinality(A) <= Cardinality(InGraph)
    BY <1>2, ValuesAreFewer
  <2>2. IsFiniteSet(B) /\ Cardinality(B) <= Cardinality(InGraph)
    BY <1>2, ValuesAreFewer
  <2> QED
    BY <2>1, <2>2
<1> HIDE DEF A, B
<1>5. /\ Cardinality(A) \in Nat /\ Cardinality(B) \in Nat
      /\ Cardinality(InGraph) \in Nat /\ Cardinality(A \cup B) \in Nat
      /\ Cardinality(A \cup B) <= Cardinality(A) + Cardinality(B)
  BY <1>4, SomeOrOther, FS_CardinalityType
<1> QED
  BY <1>3, <1>4, <1>5

\* As no claim has two, there are as many relationships as claims in the graph.
LEMMA OneRelationshipEach ==
    ASSUME IInv, IsFiniteSet(InGraph)
    PROVE  Cardinality(Relationships) = Cardinality(InGraph)
<1> DEFINE f == [t \in InGraph |-> <<t, 1>>]
<1>1. Relationships = {<<t, 1>> : t \in InGraph}
  <2>1. ASSUME NEW t \in Triples PROVE edges[t] \in {0, 1}
    BY DEF IInv, TypeOK, AtMostOneEdge
  <2>2. 1 .. 0 = {} /\ 1 .. 1 = {1}
    OBVIOUS
  <2>3. ASSUME NEW t \in Triples, t \notin InGraph PROVE 1 .. edges[t] = {}
    BY <2>1, <2>2, <2>3 DEF InGraph
  <2>4. ASSUME NEW t \in InGraph PROVE 1 .. edges[t] = {1}
    BY <2>1, <2>2 DEF InGraph
  <2>5. ASSUME NEW r, r \in Relationships PROVE \E t \in InGraph : r = <<t, 1>>
    <3>1. PICK t \in Triples : r \in {t} \X (1 .. edges[t])
      BY <2>5 DEF Relationships
    <3>2. t \in InGraph
      BY <3>1, <2>3
    <3> QED
      BY <3>1, <3>2, <2>4
  <2>6. ASSUME NEW t \in InGraph PROVE <<t, 1>> \in Relationships
    <3>1. <<t, 1>> \in {t} \X (1 .. edges[t]) /\ t \in Triples
      BY <2>4 DEF InGraph
    <3> QED
      BY <3>1 DEF Relationships
  <2> QED
    BY <2>5, <2>6
<1>2. f \in Bijection(InGraph, Relationships)
  <2>1. f \in Surjection(InGraph, Relationships)
    BY <1>1 DEF Surjection
  <2>2. \A t, u \in InGraph : f[t] = f[u] => t = u
    OBVIOUS
  <2> HIDE DEF f
  <2>3. f \in [InGraph -> Relationships]
    BY <2>1 DEF Surjection
  <2>4. f \in Injection(InGraph, Relationships)
    BY <2>2, <2>3, Fun_IsInj
  <2> QED
    BY <2>1, <2>4 DEF Bijection
<1> HIDE DEF f
<1>3. ExistsBijection(InGraph, Relationships)
  BY <1>2 DEF ExistsBijection
<1> QED
  BY <1>3, FS_Bijection

-----------------------------------------------------------------------------
(* What the gate does to the counts                                        *)

Approved == RowsWith("approved")

\* A step puts at most one claim into the graph and approves at most one, and
\* takes none back.
LEMMA OneAtATime ==
    ASSUME IInv, [Next]_vars
    PROVE  /\ InGraph \subseteq InGraph' /\ \E t : InGraph' \subseteq InGraph \cup {t}
           /\ Approved \subseteq Approved' /\ \E t : Approved' \subseteq Approved \cup {t}
<1> DEFINE OneMore == /\ InGraph \subseteq InGraph' /\ \E t : InGraph' \subseteq InGraph \cup {t}
                      /\ Approved \subseteq Approved'
                      /\ \E t : Approved' \subseteq Approved \cup {t}
<1> USE DEF InGraph, Approved, RowsWith, IInv, TypeOK, store, graph
<1>1. ASSUME NEW t \in Triples, NEW v \in Conf, Propose(t, v) PROVE OneMore
  BY <1>1 DEF Propose
<1>2. ASSUME NEW c \in Calls, NEW t \in Triples, BeginApprove(c, t) \/ BeginReject(c, t)
      PROVE OneMore
  BY <1>2 DEF BeginApprove, BeginReject, Begin
<1>3. ASSUME NEW c \in Calls, ReadTarget(c) \/ CypherFailsUnread(c) \/ Release(c)
      PROVE OneMore
  BY <1>3 DEF ReadTarget, CypherFailsUnread, Release
<1>4. ASSUME NEW c \in Calls, MarkApproved(c) \/ MarkRejected(c) \/ PgFails(c)
      PROVE OneMore
  BY <1>4 DEF MarkApproved, MarkRejected, PgFails, Decidable
<1>5. ASSUME NEW c \in Calls, CommitEdge(c) \/ Neo4jFails(c) PROVE OneMore
  BY <1>5 DEF CommitEdge, Neo4jFails, AddEdge
<1>6. CASE ApiCrash
  BY <1>6 DEF ApiCrash
<1>7. CASE UNCHANGED vars
  BY <1>7 DEF vars
<1> QED
  BY <1>1, <1>2, <1>3, <1>4, <1>5, <1>6, <1>7 DEF Next, ServerStep, Work

FiniteCounts == IsFiniteSet(InGraph) /\ IsFiniteSet(Approved)

LEMMA FiniteStep ==
    ASSUME IInv, FiniteCounts, [Next]_vars
    PROVE  /\ FiniteCounts'
           /\ Cardinality(InGraph) \in Nat /\ Cardinality(InGraph') \in Nat
           /\ Cardinality(InGraph) <= Cardinality(InGraph')
<1>1. PICK t, u : /\ InGraph \subseteq InGraph' /\ InGraph' \subseteq InGraph \cup {t}
                  /\ Approved' \subseteq Approved \cup {u}
  BY OneAtATime
<1>2. IsFiniteSet(InGraph \cup {t}) /\ IsFiniteSet(Approved \cup {u})
  BY FS_AddElement DEF FiniteCounts
<1>3. IsFiniteSet(InGraph') /\ IsFiniteSet(Approved')
  BY <1>1, <1>2, FS_Subset
<1>4. Cardinality(InGraph) <= Cardinality(InGraph')
  BY <1>1, <1>3, FS_Subset
<1> QED
  BY <1>3, <1>4, FS_CardinalityType DEF FiniteCounts

-----------------------------------------------------------------------------
(* What the figures say                                                    *)

\* The graph only grows while the handler waits, so that a figure counted
\* before the relationships is bounded by them too; the relationships are
\* bounded by the rows because a row is approved before its Cypher runs.  Once
\* the page is complete it no longer speaks of the present graph.
CountsFit ==
    /\ query \in 0 .. 5
    /\ DOMAIN page = Figures
    /\ query >= 2 => page["concepts"] \in Nat
    /\ query >= 3 => page["sources"] \in Nat
    /\ query >= 4 => page["relationships"] \in Nat
    /\ query \in {2, 3} => page["concepts"] <= 2 * Cardinality(InGraph)
    /\ query = 3 => page["sources"] <= Cardinality(InGraph)
    /\ query = 4 => page["relationships"] <= Cardinality(InGraph)
    /\ query \in {4, 5} => /\ page["sources"] <= page["relationships"]
                           /\ page["concepts"] <= 2 * page["relationships"]
    /\ Shown => /\ page["approved"] \in Nat
                /\ page["relationships"] <= page["approved"]

LEMMA GraphIsApproved ==
    ASSUME IInv, FiniteCounts
    PROVE  Cardinality(InGraph) <= Cardinality(Approved)
<1>1. InGraph \subseteq Approved
  BY DEF IInv, EdgeBehindGate, InGraph, Approved, RowsWith
<1> QED
  BY <1>1, FS_Subset DEF FiniteCounts

\* What each query brings.
LEMMA Figured ==
    ASSUME CountsFit, CountNext
    PROVE  /\ DOMAIN page' = Figures
           /\ query = 1 => page'["concepts"] = Cardinality(Nodes)
           /\ query = 2 =>
                /\ page'["concepts"] = page["concepts"]
                /\ page'["sources"] = Cardinality({SourceOf[t] : t \in InGraph})
           /\ query = 3 =>
                /\ page'["concepts"] = page["concepts"]
                /\ page'["sources"] = page["sources"]
                /\ page'["relationships"] = Cardinality(Relationships)
           /\ query = 4 =>
                /\ page'["concepts"] = page["concepts"]
                /\ page'["sources"] = page["sources"]
                /\ page'["relationships"] = page["relationships"]
                /\ page'["approved"] = Cardinality(Approved)
<1>1. page' = [f \in Figures |-> IF f \in Queries[query] THEN Now(f) ELSE page[f]]
  BY DEF CountNext
<1>2. {"concepts", "sources", "relationships", "approved"} \subseteq Figures
  BY DEF Figures
<1>3. CASE query = 1
  BY <1>1, <1>2, <1>3 DEF Queries, Now
<1>4. CASE query = 2
  BY <1>1, <1>2, <1>4 DEF Queries, Now
<1>5. CASE query = 3
  BY <1>1, <1>2, <1>5 DEF Queries, Now
<1>6. CASE query = 4
  BY <1>1, <1>2, <1>6 DEF Queries, Now, Approved
<1> QED
  BY <1>1, <1>3, <1>4, <1>5, <1>6

LEMMA CountNextFits ==
    ASSUME IInv, FiniteCounts, CountsFit, CountNext
    PROVE  CountsFit'
<1> DEFINE G == Cardinality(InGraph)
<1>1. /\ G \in Nat
      /\ Cardinality(Approved) \in Nat
      /\ G <= Cardinality(Approved)
      /\ Cardinality(Relationships) = G
  BY GraphIsApproved, OneRelationshipEach, FS_CardinalityType DEF FiniteCounts
<1>2. Cardinality(Nodes) \in Nat /\ Cardinality(Nodes) <= 2 * G
  BY FewConcepts DEF FiniteCounts
<1>3. /\ Cardinality({SourceOf[t] : t \in InGraph}) \in Nat
      /\ Cardinality({SourceOf[t] : t \in InGraph}) <= G
  BY FewSources DEF FiniteCounts
<1>4. G' = G /\ query' = query + 1 /\ query \in 1 .. 4
  BY DEF CountNext, InGraph, vars
<1> HIDE DEF G
<1>5. CASE query = 1
  BY <1>2, <1>4, <1>5, Figured DEF CountsFit, Shown, G
<1>6. CASE query = 2
  BY <1>3, <1>4, <1>6, Figured DEF CountsFit, Shown, G
<1>7. CASE query = 3
  BY <1>1, <1>4, <1>7, Figured DEF CountsFit, Shown, G
<1>8. CASE query = 4
  BY <1>1, <1>4, <1>8, Figured DEF CountsFit, Shown, G
<1> QED
  BY <1>4, <1>5, <1>6, <1>7, <1>8

LEMMA BlankFits ==
    ASSUME page' = Blank, query' \in {0, 1}
    PROVE  CountsFit'
BY DEF CountsFit, Blank, Shown

LEMMA GrowthFits ==
    ASSUME IInv, FiniteCounts, CountsFit, [Next]_vars, UNCHANGED views
    PROVE  CountsFit'
<1>1. /\ Cardinality(InGraph) \in Nat /\ Cardinality(InGraph') \in Nat
      /\ Cardinality(InGraph) <= Cardinality(InGraph')
  BY FiniteStep
<1>2. page' = page /\ query' = query
  BY DEF views
<1> QED
  BY <1>1, <1>2 DEF CountsFit, Shown

LEMMA CountsStep ==
    ASSUME IInv, FiniteCounts, CountsFit, [ViewsNext]_viewsVars
    PROVE  CountsFit'
<1>1. CASE RequestStats
  BY <1>1, BlankFits DEF RequestStats
<1>2. CASE CountNext
  BY <1>2, CountNextFits
<1>3. CASE StatsFail
  BY <1>3, BlankFits DEF StatsFail
<1>4. CASE CrashWithViews
  <2>1. CASE Shown
    BY <1>4, <2>1, GrowthFits, ReadersStep DEF CrashWithViews, ViewsNext, views
  <2>2. CASE ~Shown
    BY <1>4, <2>2, BlankFits DEF CrashWithViews
  <2> QED
    BY <2>1, <2>2
<1>5. CASE GateStep
  BY <1>5, GrowthFits, ReadersStep DEF GateStep
<1>6. CASE UNCHANGED viewsVars
  BY <1>6, GrowthFits, ReadersStep DEF viewsVars
<1> QED
  BY <1>1, <1>2, <1>3, <1>4, <1>5, <1>6 DEF ViewsNext

\* No page claims more graph than was approved, whatever the gate does between
\* the four queries, whatever fails and however many claims there are.
THEOREM StatsOrderedHolds == ViewsSpec => []StatsOrdered
<1> DEFINE Inv == IInv /\ FiniteCounts /\ CountsFit
<1>1. ViewsInit => FiniteCounts /\ CountsFit
  <2> SUFFICES ASSUME ViewsInit PROVE FiniteCounts /\ CountsFit
    OBVIOUS
  <2>1. InGraph = {} /\ Approved = {}
    BY DEF ViewsInit, Init, InGraph, Approved, RowsWith
  <2>2. query = 0 /\ page = Blank
    BY DEF ViewsInit
  <2> QED
    BY <2>1, <2>2, FS_EmptySet DEF FiniteCounts, CountsFit, Blank, Shown
<1>2. IInv /\ FiniteCounts /\ CountsFit /\ [ViewsNext]_viewsVars =>
        FiniteCounts' /\ CountsFit'
  BY ReadersStep, FiniteStep, CountsStep
<1>3. CountsFit => StatsOrdered
  BY DEF CountsFit, StatsOrdered, Shown
<1> QED
  BY <1>1, <1>2, <1>3, ViewsOnlyRead, Invariance, PTL DEF ViewsSpec
=============================================================================
