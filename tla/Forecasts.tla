------------------------------ MODULE Forecasts ------------------------------
(***************************************************************************)
(* The Forecaster and its ROMA graph.  A run takes a task, one concept, the *)
(* top N or a digest of the top N, and invokes the graph: atomize, plan,    *)
(* execute, aggregate.  A composite task is executed by invoking the same   *)
(* graph for each subtask, so that a run is a stack of invocations.  What   *)
(* comes back is persisted or reported.  Time is counted in days, each with *)
(* one run of every scheduled job.                                          *)
(***************************************************************************)
EXTENDS Naturals, Sequences, FiniteSets

CONSTANTS
    Concepts,    \* concept names that mention_events may hold
    NoConcept,   \* the name in a task about no single concept
    Runs,        \* the jobs and scripts that run a Forecaster
    Kind,        \* Kind[r]: the kind of r's task
    TopN,        \* top_n
    Cooldown,    \* cooldown_days: days a forecast keeps its concept out
    MaxMentions, \* bound: mentions of a concept in the velocity window
    MaxDepth,    \* MAX_DEPTH
    Faults       \* what may go wrong: "mcp", "evidence", "parse", "slm"

Kinds == {"concept", "top_n", "digest"}

ASSUME ForecastsAssumption ==
    /\ NoConcept \notin Concepts
    /\ IsFiniteSet(Concepts)
    /\ Kind \in [Runs -> Kinds]
    /\ TopN \in Nat \ {0}
    /\ Cooldown \in Nat \ {0}
    /\ MaxMentions \in Nat
    /\ MaxDepth \in Nat

VARIABLES
    volume,    \* volume[c]: mentions of c in the velocity window
    fresh,     \* fresh[c]: rows of c younger than the cooldown
    days,      \* days[c]: days until its newest row is older than that
    quality,   \* quality[c]: what its newest row was made from
    digests,   \* the concepts of each digest written
    stack,     \* stack[r]: r's invocations of the graph, innermost last
    final,     \* final[r]: what the outermost invocation returned
    reported,  \* reported[r]: the concepts r's summary or digest names
    ran        \* the runs that are over for today

tables == <<volume, fresh, days, quality, digests>>
vars == <<volume, fresh, days, quality, digests, stack, final, reported, ran>>

Tasks == [kind : Kinds, name : Concepts \cup {NoConcept}]

\* What a forecast was made from: nothing yet, the SLM's answer, or the
\* constant that stands in for an answer.
Qualities == {"none", "parsed", "fallback"}

\* What an invocation gives its caller: forecasts, a list of them, or an error.
Results == [ok : BOOLEAN, names : Seq(Concepts), quality : Qualities]

Nothing == [ok |-> FALSE, names |-> <<>>, quality |-> "none"]

\* What a run has before its outermost invocation returned.
NotYet == [ok |-> TRUE, names |-> <<>>, quality |-> "none"]

Frames == [task : Tasks,
           node : {"atomize", "plan", "execute", "aggregate"},
           subtasks : Seq(Tasks),
           results : Seq(Results),
           candidate : Qualities]

TypeOK ==
    /\ volume \in [Concepts -> 0 .. MaxMentions]
    /\ fresh \in [Concepts -> Nat]
    /\ days \in [Concepts -> 0 .. Cooldown]
    /\ quality \in [Concepts -> Qualities]
    /\ digests \subseteq SUBSET Concepts
    /\ stack \in [Runs -> Seq(Frames)]
    /\ final \in [Runs -> Results]
    /\ reported \in [Runs -> SUBSET Concepts]
    /\ ran \subseteq Runs

Init ==
    /\ volume = [c \in Concepts |-> 0]
    /\ fresh = [c \in Concepts |-> 0]
    /\ days = [c \in Concepts |-> 0]
    /\ quality = [c \in Concepts |-> "none"]
    /\ digests = {}
    /\ stack = [r \in Runs |-> <<>>]
    /\ final = [r \in Runs |-> NotYet]
    /\ reported = [r \in Runs |-> {}]
    /\ ran = {}

-----------------------------------------------------------------------------
(* Candidates                                                              *)

\* A Scout records a mention.
Mention(c) ==
    /\ volume[c] < MaxMentions
    /\ volume' = [volume EXCEPT ![c] = @ + 1]
    /\ UNCHANGED <<fresh, days, quality, digests, stack, final, reported, ran>>

\* Variant of Eligible: recent forecasts are not looked at.
EligibleAgain == {c \in Concepts : volume[c] > 0}

\* concept_volume without recent_forecasts.
Eligible == {c \in Concepts : volume[c] > 0 /\ days[c] = 0}

\* ORDER BY n DESC, ties as they come.
Ranked(s) == \A i, j \in 1 .. Len(s) : i < j => volume[s[i]] >= volume[s[j]]

\* The lists LIMIT n can cut from the ranking.
Selections(n) ==
    LET E == Eligible
        Long == IF Cardinality(E) < n THEN Cardinality(E) ELSE n
    IN  {s \in [1 .. Long -> E] :
            /\ \A i, j \in 1 .. Long : i # j => s[i] # s[j]
            /\ Ranked(s)
            /\ \A c \in E : \A i \in 1 .. Long :
                    c \in {s[j] : j \in 1 .. Long} \/ volume[c] <= volume[s[i]]}

-----------------------------------------------------------------------------
(* The graph                                                               *)

Invocation(task) ==
    [task |-> task, node |-> "atomize", subtasks |-> <<>>, results |-> <<>>,
     candidate |-> "none"]

Top(r) == stack[r][Len(stack[r])]
Depth(r) == Len(stack[r]) - 1

SetTop(r, frame) == stack' = [stack EXCEPT ![r][Len(stack[r])] = frame]

At(r, node) == stack[r] # <<>> /\ Top(r).node = node

IsAtomic(r) == Depth(r) >= MaxDepth \/ Top(r).task.kind = "concept"

Atomize(r) ==
    /\ At(r, "atomize")
    /\ SetTop(r, [Top(r) EXCEPT !.node = IF IsAtomic(r) THEN "execute" ELSE "plan"])
    /\ UNCHANGED <<tables, final, reported, ran>>

Planned(r, subtasks) ==
    SetTop(r, [Top(r) EXCEPT !.subtasks = subtasks,
                             !.node = IF subtasks = <<>> THEN "aggregate" ELSE "execute"])

DigestSubtask == [kind |-> "top_n", name |-> NoConcept]

\* A selection that fails plans nothing.
Plan(r) ==
    /\ At(r, "plan")
    /\ \/ /\ Top(r).task.kind = "digest"
          /\ Planned(r, <<DigestSubtask>>)
       \/ /\ Top(r).task.kind = "top_n"
          /\ \E s \in Selections(TopN) :
                Planned(r, [i \in 1 .. Len(s) |-> [kind |-> "concept", name |-> s[i]]])
       \/ /\ Top(r).task.kind = "top_n"
          /\ "mcp" \in Faults
          /\ Planned(r, <<>>)
    /\ UNCHANGED <<tables, final, reported, ran>>

\* execute with subtasks left: the graph is invoked for the next one.
Recurse(r) ==
    /\ At(r, "execute")
    /\ Len(Top(r).results) < Len(Top(r).subtasks)
    /\ LET next == Top(r).subtasks[Len(Top(r).results) + 1]
       IN  stack' = [stack EXCEPT ![r] = Append(@, Invocation(next))]
    /\ UNCHANGED <<tables, final, reported, ran>>

RecursionDone(r) ==
    /\ At(r, "execute")
    /\ Top(r).subtasks # <<>>
    /\ Len(Top(r).results) = Len(Top(r).subtasks)
    /\ SetTop(r, [Top(r) EXCEPT !.node = "aggregate"])
    /\ UNCHANGED <<tables, final, reported, ran>>

\* execute without subtasks: evidence, then the SLM.  A call for evidence that
\* fails and an answer that does not parse leave no candidate; so does a
\* composite task that the depth cap sent here.
ExecuteAtomic(r) ==
    /\ At(r, "execute")
    /\ Top(r).subtasks = <<>>
    /\ \/ /\ Top(r).task.kind = "concept"
          /\ SetTop(r, [Top(r) EXCEPT !.node = "aggregate", !.candidate = "parsed"])
       \/ /\ Top(r).task.kind # "concept" \/ Faults \cap {"evidence", "parse"} # {}
          /\ SetTop(r, [Top(r) EXCEPT !.node = "aggregate", !.candidate = "fallback"])
    /\ UNCHANGED <<tables, final, reported, ran>>

\* Variant of Flat: only the first result counts.
FirstOnly(results) == IF results = <<>> THEN <<>> ELSE results[1].names

\* The forecasts of the first i results, in order; an error has none.
Gathered(results) ==
    LET Upto[i \in 0 .. Len(results)] ==
            IF i = 0 THEN <<>> ELSE Upto[i - 1] \o results[i].names
    IN  Upto

Flat(results) == Gathered(results)[Len(results)]

\* What aggregate makes of an invocation.  An empty list is an error to the
\* caller ("no final state").
Aggregated(frame) ==
    IF frame.task.kind = "concept"
    THEN [ok |-> TRUE, names |-> <<frame.task.name>>, quality |-> frame.candidate]
    ELSE [ok |-> Flat(frame.results) # <<>>, names |-> Flat(frame.results),
          quality |-> "none"]

\* The innermost invocation returns a result to its caller.
Return(r, result) ==
    IF Len(stack[r]) = 1
    THEN /\ stack' = [stack EXCEPT ![r] = <<>>]
         /\ final' = [final EXCEPT ![r] = result]
    ELSE LET caller == stack[r][Len(stack[r]) - 1]
         IN  /\ stack' = [stack EXCEPT ![r] =
                    Append(SubSeq(@, 1, Len(@) - 2),
                           [caller EXCEPT !.results = Append(@, result)])]
             /\ UNCHANGED final

Aggregate(r) ==
    /\ At(r, "aggregate")
    /\ Return(r, Aggregated(Top(r)))
    /\ UNCHANGED <<tables, reported, ran>>

\* Variant of SlmRaises: the subtask is tried again.
SlmRetried(r) ==
    /\ "slm" \in Faults
    /\ At(r, "execute")
    /\ Top(r).task.kind = "concept"
    /\ Depth(r) > 0
    /\ stack' = [stack EXCEPT ![r] = SubSeq(@, 1, Len(@) - 1)]
    /\ UNCHANGED <<tables, final, reported, ran>>

\* The SLM raises.  An enclosing execute catches it and goes on with its next
\* subtask; the outermost invocation passes it to the supervisor.
SlmRaises(r) ==
    /\ "slm" \in Faults
    /\ At(r, "execute")
    /\ Top(r).task.kind = "concept"
    /\ \/ /\ Depth(r) > 0
          /\ Return(r, Nothing)
          /\ UNCHANGED ran
       \/ /\ Depth(r) = 0
          /\ stack' = [stack EXCEPT ![r] = <<>>]
          /\ ran' = ran \cup {r}
          /\ UNCHANGED final
    /\ UNCHANGED <<tables, reported>>

-----------------------------------------------------------------------------
(* A run                                                                   *)

Idle(r) == stack[r] = <<>> /\ final[r] = NotYet

Start(r, task) == stack' = [stack EXCEPT ![r] = <<Invocation(task)>>]

\* A run of one concept selects its candidate before it invokes the graph.
BeginConcept(r) ==
    /\ Idle(r) /\ r \notin ran
    /\ Kind[r] = "concept"
    /\ \/ /\ Eligible # {}
          /\ \E s \in Selections(1) : Start(r, [kind |-> "concept", name |-> s[1]])
          /\ UNCHANGED ran
       \/ /\ Eligible = {} \/ "mcp" \in Faults
          /\ ran' = ran \cup {r}
          /\ UNCHANGED stack
    /\ reported' = [reported EXCEPT ![r] = {}]
    /\ UNCHANGED <<tables, final>>

BeginComposite(r) ==
    /\ Idle(r) /\ r \notin ran
    /\ Kind[r] # "concept"
    /\ Start(r, [kind |-> Kind[r], name |-> NoConcept])
    /\ reported' = [reported EXCEPT ![r] = {}]
    /\ UNCHANGED <<tables, final, ran>>

Names(r) == {final[r].names[i] : i \in 1 .. Len(final[r].names)}

\* Variant of InsertForecast: the row is dated a day ahead.
InsertAhead(c, q) ==
    /\ fresh' = [fresh EXCEPT ![c] = @ + 1]
    /\ days' = [days EXCEPT ![c] = Cooldown + 1]
    /\ quality' = [quality EXCEPT ![c] = q]
    /\ UNCHANGED <<volume, digests>>

\* Variant of InsertForecast: the cooldown is over the next day, as if its days
\* were read as hours.
InsertForHours(c, q) ==
    /\ fresh' = [fresh EXCEPT ![c] = @ + 1]
    /\ days' = [days EXCEPT ![c] = 1]
    /\ quality' = [quality EXCEPT ![c] = q]
    /\ UNCHANGED <<volume, digests>>

\* propose_forecast: a row with predicted_at = NOW().
InsertForecast(c, q) ==
    /\ fresh' = [fresh EXCEPT ![c] = @ + 1]
    /\ days' = [days EXCEPT ![c] = Cooldown]
    /\ quality' = [quality EXCEPT ![c] = q]
    /\ UNCHANGED <<volume, digests>>

\* What a run does with its result.  One concept becomes a forecasts row, a
\* digest with forecasts a digests row; the top N become a summary.
Persist(r) ==
    /\ stack[r] = <<>> /\ final[r] # NotYet
    /\ final' = [final EXCEPT ![r] = NotYet]
    /\ ran' = ran \cup {r}
    /\ reported' = [reported EXCEPT ![r] = Names(r)]
    /\ \/ /\ Kind[r] = "concept"
          /\ InsertForecast(final[r].names[1], final[r].quality)
       \/ /\ Kind[r] # "concept"
          /\ digests' = IF Kind[r] = "digest" /\ final[r].ok
                        THEN digests \cup {Names(r)} ELSE digests
          /\ UNCHANGED <<volume, fresh, days, quality>>
    /\ UNCHANGED stack

\* propose_forecast or propose_digest raises before the row is written.
PersistFails(r) ==
    /\ "mcp" \in Faults
    /\ stack[r] = <<>> /\ final[r] # NotYet
    /\ Kind[r] = "concept" \/ (Kind[r] = "digest" /\ final[r].ok)
    /\ final' = [final EXCEPT ![r] = NotYet]
    /\ ran' = ran \cup {r}
    /\ UNCHANGED <<tables, stack, reported>>

\* A day goes by when every job had its run.
Day ==
    /\ ran = Runs
    /\ ran' = {}
    /\ days' = [c \in Concepts |-> IF days[c] > 0 THEN days[c] - 1 ELSE 0]
    /\ fresh' = [c \in Concepts |-> IF days[c] > 1 THEN fresh[c] ELSE 0]
    /\ UNCHANGED <<volume, quality, digests, stack, final, reported>>

-----------------------------------------------------------------------------

Graph(r) ==
    \/ Atomize(r) \/ Plan(r) \/ Recurse(r) \/ RecursionDone(r)
    \/ ExecuteAtomic(r) \/ SlmRaises(r) \/ Aggregate(r)

Work(r) ==
    \/ BeginConcept(r) \/ BeginComposite(r) \/ Graph(r)
    \/ Persist(r) \/ PersistFails(r)

Next ==
    \/ \E c \in Concepts : Mention(c)
    \/ \E r \in Runs : Work(r)
    \/ Day

Spec == Init /\ [][Next]_vars

\* Every job runs every day, and what a run waits for comes or fails.
RunningSpec == Spec /\ WF_vars(Day) /\ \A r \in Runs : WF_vars(Work(r))

-----------------------------------------------------------------------------
(* Properties                                                              *)

\* While one Forecaster at a time works on single concepts, no concept gets a
\* second forecast before the first is older than the cooldown, whatever
\* fails in between and whatever composite runs go on beside it.
OneFreshForecast == \A c \in Concepts : fresh[c] <= 1

\* A result stands for every subtask, so that one that fails costs its own
\* forecast only: no concept is lost, invented or listed twice.
SubtasksAccounted ==
    \A r \in Runs : \A d \in 1 .. Len(stack[r]) :
        LET f == stack[r][d]
        IN  f.node = "aggregate" /\ f.task.kind = "top_n" =>
                /\ Len(f.results) = Len(f.subtasks)
                /\ \A i \in 1 .. Len(f.subtasks) :
                        f.results[i].ok => f.results[i].names = <<f.subtasks[i].name>>
                /\ Len(Aggregated(f).names) =
                        Cardinality({i \in 1 .. Len(f.results) : f.results[i].ok})

\* Every invocation of the graph comes to an end, because a task's subtasks
\* are smaller than it and the depth is capped.
RunsEnd == \A r \in Runs : []<>(stack[r] = <<>>)

\* A run of one concept ends without a forecast of its own making, although a
\* concept was eligible: no row, or one that stands in for an answer.
RunInVain ==
    \E r \in Runs :
        /\ Kind[r] = "concept"
        /\ r \notin ran /\ r \in ran'
        /\ \/ fresh' = fresh /\ Eligible # {}
           \/ final[r].quality = "fallback"

\* With no more concepts than days in the cooldown, every concept that is
\* mentioned gets a forecast made from an answer, also the least mentioned one,
\* once the runs in vain are over.  A day whose run fails gives its turn back to
\* the concepts ahead, whose cooldown has gone on, and a row that stands in for
\* an answer keeps its concept waiting for one cooldown, not for ever.
EveryConceptForecast ==
    Cardinality(Concepts) <= Cooldown =>
        \/ []<><<RunInVain>>_vars
        \/ \A c \in Concepts : volume[c] > 0 ~> quality[c] = "parsed"

\* The concepts a run reports as forecast have rows in the forecasts table.
ReportedAreStored ==
    \A r \in Runs : \A c \in reported[r] : quality[c] # "none"
=============================================================================
