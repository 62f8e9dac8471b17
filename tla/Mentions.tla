------------------------------ MODULE Mentions ------------------------------
(***************************************************************************)
(* The mention_events table and the requests that read it in more than one *)
(* query: the evidence bundle of the Forecaster, the dashboard's list of   *)
(* top concepts and the planning of Tavily queries.  Every query sees the  *)
(* table and the clock of its own moment; Scouts add rows in between.      *)
(*                                                                         *)
(* Time is counted in days.  Requests only read, so that one at a time is  *)
(* enough to see what any number of them can see.                          *)
(***************************************************************************)
EXTENDS Integers, SequencesExt

CONSTANTS
    Concepts,     \* concept names
    Sources,      \* source identifiers
    TypeOf,       \* TypeOf[s]: the source_type its scout gives
    DaysPerWeek,  \* what date_trunc('week') makes of days (7)
    Window,       \* window_days of the velocity and of the page (90)
    PageSize,     \* limit of the page (10)
    MaxDay        \* bound: the last day of the model

ASSUME MentionsAssumption ==
    /\ IsFiniteSet(Concepts) /\ IsFiniteSet(Sources)
    /\ DaysPerWeek \in Nat \ {0}
    /\ Window \in Nat \ {0}
    /\ PageSize \in Nat \ {0}
    /\ MaxDay \in Nat

VARIABLES
    rows,     \* the rows of mention_events
    today,    \* the day
    task,     \* the request being served
    about,    \* the concepts it is about
    got,      \* the answers to its queries so far
    changed   \* history: concepts mentioned since its first query, and "day"

table == <<rows, today>>
request == <<task, about, got, changed>>
vars == <<rows, today, task, about, got, changed>>

Days == 0 .. MaxDay

Rows == [concept : Concepts, source : Sources, day : Days]

Init ==
    /\ rows = {}
    /\ today = 0
    /\ task = "none"
    /\ about = <<>>
    /\ got = <<>>
    /\ changed = {}

-----------------------------------------------------------------------------
(* The table                                                               *)

Note(what) == changed' = IF task = "none" THEN changed ELSE changed \cup {what}

\* Variant of Recorded: ON CONFLICT DO UPDATE SET observed_at.
RecordedAnew(row) ==
    {r \in rows : r.concept # row.concept \/ r.source # row.source} \cup {row}

\* INSERT ... ON CONFLICT (concept_name, source_id) DO NOTHING.
Recorded(row) ==
    IF \E r \in rows : r.concept = row.concept /\ r.source = row.source
    THEN rows ELSE rows \cup {row}

\* observed_at is when the source appeared, today or earlier.
RecordMention(row) ==
    /\ row.day <= today
    /\ rows' = Recorded(row)
    /\ Note(row.concept)
    /\ UNCHANGED <<today, task, about, got>>

NextDay ==
    /\ today < MaxDay
    /\ today' = today + 1
    /\ Note("day")
    /\ UNCHANGED <<rows, task, about, got>>

-----------------------------------------------------------------------------
(* What the queries return                                                 *)

Of(c) == {r \in rows : r.concept = c}

\* observed_at >= now - days.
Within(days) == {r \in rows : r.day >= today - days}

Week(day) == day \div DaysPerWeek

\* GROUP BY week: a week without a row has no bucket.
Buckets(c) ==
    LET mine == Of(c) \cap Within(Window)
    IN  [w \in {Week(r.day) : r \in mine} |-> Cardinality({r \in mine : Week(r.day) = w})]

\* GROUP BY source_type, over the whole table.
BySource(c) ==
    [y \in {TypeOf[r.source] : r \in Of(c)} |->
        Cardinality({r \in Of(c) : TypeOf[r.source] = y})]

\* Twice the numerator of _slope: its denominator is positive, so that this
\* has the velocity's sign.  The buckets are taken in the order of their weeks
\* and as if these were consecutive.
Trend(buckets) ==
    LET place(w) == Cardinality({v \in DOMAIN buckets : v < w})
        n == Cardinality(DOMAIN buckets)
    IN  MapThenSumSet(LAMBDA w : (2 * place(w) - n + 1) * buckets[w], DOMAIN buckets)

\* The subsets ORDER BY ... LIMIT can cut from S, ties as they come.
TopOf(S, limit, before(_, _)) ==
    {T \in SUBSET S :
        /\ Cardinality(T) = IF Cardinality(S) < limit THEN Cardinality(S) ELSE limit
        /\ \A t \in T, u \in S \ T : ~before(u, t)}

Total(counts) == MapThenSumSet(LAMBDA i : counts[i], DOMAIN counts)

-----------------------------------------------------------------------------
(* The requests                                                            *)

Query(answer) ==
    /\ got' = Append(got, answer)
    /\ UNCHANGED <<table, task, about, changed>>

Ask(kind, subject) ==
    /\ task = "none"
    /\ task' = kind
    /\ about' = subject
    /\ UNCHANGED <<table, got, changed>>

\* get_forecast_evidence, called by the Forecaster's atomic executor.
AskEvidence(c) == Ask("evidence", <<c>>)

\* Variant of EvidenceQuery: the breakdown by source comes first.
BreakdownFirst ==
    /\ task = "evidence" /\ Len(got) < 2
    /\ Query(IF got = <<>> THEN BySource(about[1]) ELSE Buckets(about[1]))

\* First the weekly buckets of the window, then the whole table by source.
EvidenceQuery ==
    /\ task = "evidence" /\ Len(got) < 2
    /\ Query(IF got = <<>> THEN Buckets(about[1]) ELSE BySource(about[1]))

Volume(c) == Cardinality(Of(c) \cap Within(Window))

\* GET /api/top-concepts: the ranking, with a cutoff taken at its start.
AskPage ==
    /\ task = "none"
    /\ \E T \in TopOf({r.concept : r \in Within(Window)}, PageSize,
                      LAMBDA c, d : Volume(c) > Volume(d)) :
        /\ about' = SetToSeq(T)
        /\ got' = << [i \in DOMAIN about' |-> Volume(about'[i])] >>
    /\ task' = "page"
    /\ UNCHANGED <<table, changed>>

\* The velocity of the next concept of the ranking, with a cutoff of its own.
PageQuery ==
    /\ task = "page" /\ Len(got) <= Len(about)
    /\ Query(Buckets(about[Len(got)]))

\* The answer leaves, or a query has raised.
EndRequest ==
    /\ task # "none"
    /\ task' = "none"
    /\ about' = <<>>
    /\ got' = <<>>
    /\ changed' = {}
    /\ UNCHANGED table

-----------------------------------------------------------------------------

Writes == NextDay \/ \E row \in Rows : RecordMention(row)

Reads ==
    \/ \E c \in Concepts : AskEvidence(c)
    \/ EvidenceQuery
    \/ AskPage
    \/ PageQuery
    \/ EndRequest

Next == Writes \/ Reads

Spec == Init /\ [][Next]_vars

-----------------------------------------------------------------------------
(* Properties                                                              *)

\* The evidence for a forecast adds up although its two queries see different
\* tables: the weeks hold no more mentions than the sources do.
EvidenceAdds ==
    task = "evidence" /\ Len(got) = 2 => Total(got[1]) <= Total(got[2])

\* The weekly counts beside a concept add up to the mentions it is ranked by,
\* unless rows came in between (they may be more) or the window moved on.
PreviewAgrees ==
    task = "page" =>
        \A i \in 2 .. Len(got) :
            /\ changed = {} => Total(got[i]) = got[1][i - 1]
            /\ "day" \notin changed => Total(got[i]) >= got[1][i - 1]

\* The mentions of every week of the window, the ones without any included;
\* the week that has just begun counts once something was mentioned in it.
EveryWeek(c) ==
    LET mine == Of(c) \cap Within(Window)
        begun == \E r \in mine : Week(r.day) = Week(today)
        first == Week(IF today > Window THEN today - Window ELSE 0)
        last == IF begun THEN Week(today) ELSE Week(today) - 1
    IN  [i \in 1 .. last - first + 1 |->
            Cardinality({r \in mine : Week(r.day) = first + i - 1})]

\* A positive velocity indicates increasing weekly mentions: the trend over the
\* weeks that have a bucket rises only if it does over all the weeks.
VelocityMeansIncrease ==
    \A c \in Concepts : Trend(Buckets(c)) > 0 => Trend(EveryWeek(c)) > 0
=============================================================================
