------------------------------ MODULE Planner ------------------------------
(***************************************************************************)
(* The pool of search queries the supervisor computes when it starts, and  *)
(* that the Tavily scout then cycles over: curated queries from a file,    *)
(* then queries derived by three strategies.  Each strategy reads the      *)
(* stores at a moment of its own and may fail without the others.          *)
(***************************************************************************)
EXTENDS Mentions

CONSTANTS
    Static,             \* the curated queries, cleaned
    Authorities,        \* authorities with concepts in the graph
    SingletonDays,      \* window of the singletons (30)
    SpikeDays,          \* window of the spikes (14)
    MinRecent,          \* min_recent_mentions (3)
    CorroborationLimit, \* DEFAULT_CORROBORATION_QUERIES (3)
    SpikeLimit,         \* DEFAULT_SPIKE_QUERIES (2)
    AdjacencyLimit,     \* DEFAULT_ADJACENCY_QUERIES (2)
    Faults              \* "pg" and "neo4j": what a strategy's query may meet

ASSUME PlannerAssumption ==
    /\ Static \in Seq(ToSet(Static)) \ {<<>>}
    /\ IsFiniteSet(Authorities)
    /\ SpikeDays <= SingletonDays
    /\ MinRecent \in Nat
    /\ {SpikeDays, SingletonDays, CorroborationLimit, SpikeLimit, AdjacencyLimit}
            \subseteq Nat

-----------------------------------------------------------------------------
(* The strategies                                                          *)

\* The template a strategy fills in with a name.
Text(strategy, name) == [strategy |-> strategy, name |-> name]

Texts(strategy, T) == SetToSeq({Text(strategy, name) : name \in T})

\* find_singleton_concepts: HAVING COUNT(*) = 1.
Singletons ==
    {c \in Concepts : Cardinality(Of(c) \cap Within(SingletonDays)) = 1}

\* ORDER BY observed_at DESC.
Newer(c, d) ==
    \A r \in Of(c) \cap Within(SingletonDays), q \in Of(d) \cap Within(SingletonDays) :
        r.day > q.day

Corroborations ==
    {Texts("corroboration", T) : T \in TopOf(Singletons, CorroborationLimit, Newer)}

Recent(c) == Cardinality(Of(c) \cap Within(SpikeDays \div 2))

Prior(c) == Cardinality(Of(c) \cap Within(SpikeDays)) - Recent(c)

AtLeastOne(n) == IF n > 1 THEN n ELSE 1

\* Variant of Spiking: the ratio is all that counts.
SpikingFromNothing(c) == Recent(c) > 0 /\ Recent(c) >= 2 * Prior(c)

\* find_velocity_spikes: a minimum, and at least twice the half before.
Spiking(c) ==
    /\ Recent(c) >= MinRecent
    /\ Recent(c) >= 2 * AtLeastOne(Prior(c))

\* ORDER BY recent / GREATEST(prior, 1) DESC.
Steeper(c, d) == Recent(c) * AtLeastOne(Prior(d)) > Recent(d) * AtLeastOne(Prior(c))

Spikes ==
    {Texts("spikes", T) :
        T \in TopOf({c \in Concepts : Spiking(c)}, SpikeLimit, Steeper)}

Adjacencies ==
    {Texts("adjacency", T) :
        T \in TopOf(Authorities, AdjacencyLimit, LAMBDA a, b : FALSE)}

-----------------------------------------------------------------------------
(* Planning                                                                *)

AskPlan == Ask("plan", <<>>)

\* A strategy brings its queries, or is logged as failed and brings none.
Strategy(lists, fault) ==
    /\ task = "plan"
    /\ \/ \E list \in lists : got' = Append(got, list)
       \/ fault \in Faults /\ got' = Append(got, <<>>)
    /\ UNCHANGED <<table, task, about, changed>>

Corroborate == got = <<>> /\ Strategy(Corroborations, "pg")
FindSpikes == Len(got) = 1 /\ Strategy(Spikes, "pg")
FindAdjacent == Len(got) = 2 /\ Strategy(Adjacencies, "neo4j")

\* What the strategies have brought, in their order.
Derived == got[1] \o got[2] \o got[3]

\* Loops over queries and keeps the ones at the positions in I.
Keeping(I, queries) ==
    LET kept[i \in 0 .. Len(queries)] ==
            IF i = 0 THEN <<>>
            ELSE IF i \in I THEN Append(kept[i - 1], queries[i]) ELSE kept[i - 1]
    IN  kept

At(I, queries) == Keeping(I, queries)[Len(queries)]

\* Only the first of equal queries is kept.
Deduped(queries) ==
    At({i \in 1 .. Len(queries) : \A k \in 1 .. i - 1 : queries[k] # queries[i]},
       queries)

\* Variant of Combined: what the file already asks is asked twice.
Concatenated(derived) == Static \o derived

\* The static queries, then the derived ones they do not already contain.
Combined(derived) ==
    Static \o At({i \in 1 .. Len(derived) : derived[i] \notin ToSet(Static)}, derived)

\* The pool that the strategies' answers make.
Pool == Combined(Deduped(Derived))

Planned == task = "plan" /\ Len(got) = 3

PlannerNext ==
    Next \/ AskPlan \/ Corroborate \/ FindSpikes \/ FindAdjacent

PlannerSpec == Init /\ [][PlannerNext]_vars

-----------------------------------------------------------------------------
(* Properties                                                              *)

\* Whatever fails and whatever changes while it is planned, the pool is the
\* whole curated list and at most the sum of the limits beside it, none of it
\* a repetition: the rotation gives the curated queries their share.
FairShare ==
    Planned =>
        LET extra == SubSeq(Pool, Len(Static) + 1, Len(Pool))
        IN  /\ IsPrefix(Static, Pool)
            /\ Len(extra) <= CorroborationLimit + SpikeLimit + AdjacencyLimit
            /\ ToSet(extra) \cap ToSet(Static) = {}
            /\ Cardinality(ToSet(extra)) = Len(extra)

\* A concept is searched for as mentioned once or as mentioned more and more.
\* It takes a mention of this very concept between the two strategies to have
\* both, not other mentions, nor days that begin, nor the overlap of the windows.
OneReasonEach ==
    Planned =>
        \A c \in Concepts :
            {Text("corroboration", c), Text("spikes", c)} \subseteq ToSet(Derived)
                => c \in changed
=============================================================================
