---------------------------- MODULE PlannerProofs ----------------------------
(***************************************************************************)
(* Mentions and Planner, proved for any concepts, sources and authorities, *)
(* any windows and limits, and every combination of faults.                *)
(***************************************************************************)
EXTENDS Planner, FiniteSetTheorems, SequenceTheorems, WellFoundedInduction, TLAPS

-----------------------------------------------------------------------------
(* Induction over the natural numbers, as a statement about a set          *)

\* The order of the numbers, as a relation.
Before == {mn \in Nat \X Nat : mn[1] < mn[2]}

LEMMA BeforeIsWellFounded == IsWellFoundedOn(Before, Nat)
<1>1. OpToRel(<, Nat) = Before
  BY DEF OpToRel, Before
<1> QED
  BY <1>1, NatLessThanWellFounded, Zenon

\* A set that has 0, and below a bound the successor of each of its members,
\* has every number up to the bound.
LEMMA UpToInduction ==
    ASSUME NEW top \in Nat, NEW S, 0 \in S,
           \A n \in 0 .. top : n \in S /\ n < top => n + 1 \in S
    PROVE  0 .. top \subseteq S
<1> DEFINE Missing == {n \in 0 .. top : n \notin S}
<1>1. SUFFICES ASSUME Missing # {} PROVE FALSE
  OBVIOUS
<1>2. Missing \in SUBSET Nat
  OBVIOUS
<1>3. PICK m \in Missing : \A n \in Missing : ~(<<n, m>> \in Before)
  <2> HIDE DEF Missing
  <2> QED
    BY <1>1, <1>2, BeforeIsWellFounded, WFMin
<1>4. m \in Nat /\ m # 0 /\ m <= top
  BY <1>3
<1>5. m - 1 \in 0 .. top /\ m - 1 < top /\ <<m - 1, m>> \in Before
  BY <1>4 DEF Before
<1>6. m - 1 \in S
  BY <1>3, <1>5
<1> QED
  BY <1>3, <1>4, <1>5, <1>6

-----------------------------------------------------------------------------
(* What a total is                                                         *)

\* The recursion behind Total, which takes one index after the other.
Picked(I) == CHOOSE i \in I : TRUE

SumStep(counts, f, I) ==
    IF I = {} THEN 0 ELSE counts[Picked(I)] + f[I \ {Picked(I)}]

Sums(counts) ==
    CHOOSE f : f = [I \in SUBSET DOMAIN counts |-> SumStep(counts, f, I)]

LEMMA TotalIsSum ==
    ASSUME NEW counts
    PROVE  Total(counts) = Sums(counts)[DOMAIN counts]
BY DEF Total, MapThenSumSet, MapThenFoldSet, Sums, SumStep, Picked

\* The sets of at most n indices.
Small(D, n) == {I \in SUBSET D : Cardinality(I) <= n}

LEMMA OneFewer ==
    ASSUME NEW D, IsFiniteSet(D), NEW n \in Nat, NEW I \in Small(D, n + 1), I # {}
    PROVE  /\ Picked(I) \in I
           /\ I \ {Picked(I)} \in Small(D, n)
<1>1. Picked(I) \in I
  BY DEF Picked
<1>2. I \in SUBSET D /\ IsFiniteSet(I) /\ Cardinality(I) \in Nat /\ Cardinality(I) <= n + 1
  BY FS_Subset, FS_CardinalityType DEF Small
<1>3. Cardinality(I \ {Picked(I)}) = Cardinality(I) - 1
  BY <1>1, <1>2, FS_RemoveElement
<1>4. Cardinality(I \ {Picked(I)}) <= n
  BY <1>2, <1>3
<1> QED
  BY <1>1, <1>2, <1>4 DEF Small

LEMMA AllAreSmall ==
    ASSUME NEW D, IsFiniteSet(D)
    PROVE  /\ Cardinality(D) \in Nat
           /\ Small(D, Cardinality(D)) = SUBSET D
           /\ Small(D, 0) = {{}}
<1>1. Cardinality(D) \in Nat
  BY FS_CardinalityType
<1>2. ASSUME NEW I \in SUBSET D
      PROVE  /\ Cardinality(I) \in Nat
             /\ Cardinality(I) <= Cardinality(D)
             /\ Cardinality(I) = 0 <=> I = {}
  BY FS_Subset, FS_CardinalityType, FS_EmptySet
<1>3. \A I \in SUBSET D : Cardinality(I) <= 0 <=> I = {}
  BY <1>2
<1> QED
  BY <1>1, <1>2, <1>3 DEF Small

\* The sums are the function their recursion describes.
LEMMA SumsRecur ==
    ASSUME NEW counts, IsFiniteSet(DOMAIN counts)
    PROVE  Sums(counts) =
              [I \in SUBSET DOMAIN counts |-> SumStep(counts, Sums(counts), I)]
<1> DEFINE D == DOMAIN counts
           Recurs(f, n) == f = [I \in Small(D, n) |-> SumStep(counts, f, I)]
           Known == {n \in Nat : \E f : Recurs(f, n)}
           top == Cardinality(D)
<1>1. top \in Nat /\ Small(D, top) = SUBSET D /\ Small(D, 0) = {{}}
  BY AllAreSmall
<1> HIDE DEF top
<1>2. 0 \in Known
  <2> DEFINE f == [I \in Small(D, 0) |-> 0]
  <2>1. \A I \in Small(D, 0) : SumStep(counts, f, I) = 0
    BY <1>1 DEF SumStep
  <2>2. Recurs(f, 0)
    BY <2>1
  <2> QED
    BY <2>2
<1>3. ASSUME NEW n \in 0 .. top, n \in Known, n < top PROVE n + 1 \in Known
  <2>1. PICK f : Recurs(f, n)
    BY <1>3
  <2> DEFINE g == [I \in Small(D, n + 1) |-> SumStep(counts, f, I)]
  <2>2. ASSUME NEW I \in Small(D, n + 1)
        PROVE  SumStep(counts, f, I) = SumStep(counts, g, I)
    <3>1. CASE I = {}
      BY <3>1 DEF SumStep
    <3>2. CASE I # {}
      <4> DEFINE J == I \ {Picked(I)}
      <4>1. J \in Small(D, n) /\ J \in Small(D, n + 1)
        <5>1. IsFiniteSet(D) /\ n \in Nat
          BY <1>1
        <5>2. J \in Small(D, n)
          BY <3>2, <5>1, OneFewer
        <5>3. \A K \in SUBSET D : Cardinality(K) \in Nat
          BY <5>1, FS_Subset, FS_CardinalityType
        <5> QED
          BY <5>1, <5>2, <5>3 DEF Small
      <4> HIDE DEF J
      <4>2. f[J] = SumStep(counts, f, J)
        BY <4>1, <2>1
      <4>3. g[J] = f[J]
        BY <4>1, <4>2
      <4> QED
        BY <3>2, <4>3 DEF SumStep, J
    <3> QED
      BY <3>1, <3>2
  <2>3. Recurs(g, n + 1)
    BY <2>2
  <2> HIDE DEF g, Recurs
  <2>4. n + 1 \in Nat
    OBVIOUS
  <2> QED
    BY <2>3, <2>4
<1>4. top \in Known
  <2> HIDE DEF Known
  <2>1. 0 .. top \subseteq Known
    BY <1>1, <1>2, <1>3, UpToInduction
  <2> QED
    BY <1>1, <2>1
<1>5. \E f : Recurs(f, top)
  BY <1>4
<1>6. Sums(counts) = CHOOSE f : Recurs(f, top)
  BY <1>1 DEF Sums
<1>7. Recurs(Sums(counts), top)
  <2> HIDE DEF Recurs
  <2> QED
    BY <1>5, <1>6
<1> QED
  BY <1>1, <1>7

\* GROUP BY key with COUNT(*).
Tally(S, key) ==
    [k \in {key[r] : r \in S} |-> Cardinality({r \in S : key[r] = k})]

\* A function has no more values than arguments.
LEMMA ValuesAreFewer ==
    ASSUME NEW S, IsFiniteSet(S), NEW T, NEW f \in [S -> T]
    PROVE  /\ IsFiniteSet({f[x] : x \in S})
           /\ Cardinality({f[x] : x \in S}) <= Cardinality(S)
<1> DEFINE V == {f[x] : x \in S}
<1>1. f \in Surjection(S, V)
  BY DEF Surjection
<1> QED
  BY <1>1, FS_Surjection

\* The groups add up to what was grouped.
LEMMA TallyTotal ==
    ASSUME NEW S, IsFiniteSet(S), NEW K, NEW key \in [S -> K]
    PROVE  Total(Tally(S, key)) = Cardinality(S)
<1> DEFINE counts == Tally(S, key)
           D == {key[r] : r \in S}
           Under(I) == {r \in S : key[r] \in I}
           top == Cardinality(D)
           Adds(n) == \A I \in Small(D, n) : Sums(counts)[I] = Cardinality(Under(I))
           Added == {n \in Nat : Adds(n)}
<1>1. IsFiniteSet(D)
  BY ValuesAreFewer
<1>2. DOMAIN counts = D /\ \A k \in D : counts[k] = Cardinality({r \in S : key[r] = k})
  BY DEF Tally
<1>3. top \in Nat /\ Small(D, top) = SUBSET D /\ Small(D, 0) = {{}}
  BY <1>1, AllAreSmall
<1>4. \A I \in SUBSET D : Sums(counts)[I] = SumStep(counts, Sums(counts), I)
  <2> HIDE DEF counts, D
  <2>1. Sums(counts) = [I \in SUBSET D |-> SumStep(counts, Sums(counts), I)]
    BY <1>1, <1>2, SumsRecur
  <2> QED
    BY <2>1
<1>5. \A I : IsFiniteSet(Under(I)) /\ Cardinality(Under(I)) \in Nat
  BY FS_Subset, FS_CardinalityType
<1> HIDE DEF counts, top
<1>6. Adds(0)
  <2>1. Under({}) = {}
    OBVIOUS
  <2>2. Sums(counts)[{}] = 0
    BY <1>4 DEF SumStep
  <2> HIDE DEF Under, D
  <2> QED
    BY <1>3, <2>1, <2>2, FS_EmptySet
<1>7. ASSUME NEW n \in 0 .. top, Adds(n), n < top PROVE Adds(n + 1)
  <2>1. SUFFICES ASSUME NEW I \in Small(D, n + 1), I # {}
                 PROVE  Sums(counts)[I] = Cardinality(Under(I))
    BY <1>3, <1>6
  <2> DEFINE i == Picked(I)
             J == I \ {i}
  <2>2. i \in I /\ J \in Small(D, n) /\ I \in SUBSET D
    BY <1>1, <1>3, <2>1, OneFewer DEF Small
  <2>3. Sums(counts)[I] = counts[i] + Sums(counts)[J]
    BY <1>4, <2>1, <2>2 DEF SumStep
  <2> HIDE DEF i
  <2>4. counts[i] = Cardinality(Under({i}))
    <3>1. Under({i}) = {r \in S : key[r] = i}
      OBVIOUS
    <3> QED
      BY <1>2, <2>2, <3>1
  <2>5. Sums(counts)[J] = Cardinality(Under(J))
    BY <1>7, <2>2
  <2>6. Under(I) = Under({i}) \cup Under(J) /\ Under({i}) \cap Under(J) = {}
    BY <2>2
  <2> HIDE DEF Under, J
  <2>7. Cardinality(Under(I)) = Cardinality(Under({i})) + Cardinality(Under(J)) - 0
    <3>1. IsFiniteSet(Under({i})) /\ IsFiniteSet(Under(J))
      BY <1>5
    <3>2. Cardinality(Under({i}) \cup Under(J))
            = Cardinality(Under({i})) + Cardinality(Under(J))
                - Cardinality(Under({i}) \cap Under(J))
      BY <3>1, FS_Union
    <3> QED
      BY <2>6, <3>2, FS_EmptySet
  <2> QED
    BY <1>5, <2>3, <2>4, <2>5, <2>7
<1>8. Adds(top)
  <2> HIDE DEF Adds
  <2>1. 0 \in Added /\ \A n \in 0 .. top : n \in Added /\ n < top => n + 1 \in Added
    BY <1>3, <1>6, <1>7
  <2> HIDE DEF Added
  <2>2. 0 .. top \subseteq Added
    BY <1>3, <2>1, UpToInduction
  <2>3. top \in Added
    BY <1>3, <2>2
  <2> QED
    BY <2>3 DEF Added
<1>9. D \in Small(D, top) /\ Under(D) = S
  BY <1>3
<1> QED
  BY <1>2, <1>8, <1>9, TotalIsSum DEF counts

-----------------------------------------------------------------------------
(* What the queries over the mentions add up to                            *)

LEMMA BucketsTotal ==
    ASSUME IsFiniteSet(rows), NEW c
    PROVE  Total(Buckets(c)) = Volume(c)
<1> DEFINE mine == Of(c) \cap Within(Window)
           key == [r \in mine |-> Week(r.day)]
           K == {key[r] : r \in mine}
<1>1. IsFiniteSet(mine)
  BY FS_Subset DEF Of
<1>2. key \in [mine -> K]
  OBVIOUS
<1>3. Buckets(c) = Tally(mine, key)
  <2>1. {key[r] : r \in mine} = {Week(r.day) : r \in mine}
    OBVIOUS
  <2>2. \A w : {r \in mine : key[r] = w} = {r \in mine : Week(r.day) = w}
    OBVIOUS
  <2> HIDE DEF key
  <2> QED
    BY <2>1, <2>2 DEF Buckets, Tally
<1> HIDE DEF key, K
<1>4. Total(Tally(mine, key)) = Cardinality(mine)
  BY <1>1, <1>2, TallyTotal
<1> QED
  BY <1>3, <1>4 DEF Volume

LEMMA BySourceTotal ==
    ASSUME IsFiniteSet(rows), NEW c
    PROVE  Total(BySource(c)) = Cardinality(Of(c))
<1> DEFINE mine == Of(c)
           key == [r \in mine |-> TypeOf[r.source]]
           K == {key[r] : r \in mine}
<1>1. IsFiniteSet(mine)
  BY FS_Subset DEF Of
<1>2. key \in [mine -> K]
  OBVIOUS
<1>3. BySource(c) = Tally(mine, key)
  <2>1. {key[r] : r \in mine} = {TypeOf[r.source] : r \in mine}
    OBVIOUS
  <2>2. \A y : {r \in mine : key[r] = y} = {r \in mine : TypeOf[r.source] = y}
    OBVIOUS
  <2> HIDE DEF key
  <2> QED
    BY <2>1, <2>2 DEF BySource, Tally
<1> HIDE DEF key, K, mine
<1>4. Total(Tally(mine, key)) = Cardinality(mine)
  BY <1>1, <1>2, TallyTotal
<1> QED
  BY <1>3, <1>4 DEF mine

-----------------------------------------------------------------------------
(* The table only grows                                                    *)

TableOK ==
    /\ rows \subseteq Rows
    /\ IsFiniteSet(rows)
    /\ today \in Nat

\* While the table or the day changes, a request waits, and what changes is
\* noted.
Waits ==
    /\ rows \subseteq rows' /\ UNCHANGED <<task, about, got>>
    /\ task = "none" => changed' = changed
    /\ changed \subseteq changed'
    /\ task # "none" /\ changed' = {} => UNCHANGED table
    /\ task # "none" /\ "day" \notin changed' => today' = today
    /\ task # "none" => \A c \in Concepts \ changed' : Of(c)' = Of(c)
    /\ today \in Nat => today <= today'

LEMMA WritesAreWaitedFor ==
    ASSUME Writes \/ UNCHANGED vars
    PROVE  Waits
<1>1. CASE NextDay
  BY <1>1 DEF NextDay, Note, Waits, Of
<1>2. ASSUME NEW row \in Rows, RecordMention(row) PROVE Waits
  <2>1. rows' = rows \/ rows' = rows \cup {row}
    BY <1>2 DEF RecordMention, Recorded
  <2>2. task # "none" => row.concept \in changed'
    BY <1>2 DEF RecordMention, Note
  <2>3. task # "none" => \A c \in Concepts \ changed' : Of(c)' = Of(c)
    BY <2>1, <2>2 DEF Of
  <2> QED
    BY <1>2, <2>1, <2>2, <2>3 DEF RecordMention, Note, Waits
<1>3. CASE UNCHANGED vars
  BY <1>3 DEF vars, table, Waits, Of
<1> QED
  BY <1>1, <1>2, <1>3 DEF Writes

LEMMA TableStep ==
    ASSUME TableOK, [PlannerNext]_vars
    PROVE  TableOK'
<1>1. CASE UNCHANGED table
  BY <1>1 DEF TableOK, table
<1>2. CASE NextDay
  BY <1>2 DEF NextDay, TableOK
<1>3. ASSUME NEW row \in Rows, RecordMention(row)
      PROVE  TableOK'
  <2>1. IsFiniteSet(rows \cup {row})
    BY FS_AddElement DEF TableOK
  <2>2. rows' = rows \/ rows' = rows \cup {row}
    BY <1>3 DEF RecordMention, Recorded
  <2> QED
    BY <1>3, <2>1, <2>2 DEF TableOK, RecordMention
<1>4. CASE Reads
  BY <1>1, <1>4 DEF Reads, AskEvidence, Ask, EvidenceQuery, Query, AskPage, PageQuery,
                   EndRequest
<1>5. CASE AskPlan \/ Corroborate \/ FindSpikes \/ FindAdjacent
  BY <1>1, <1>5 DEF AskPlan, Ask, Corroborate, FindSpikes, FindAdjacent, Strategy
<1>6. CASE UNCHANGED vars
  BY <1>1, <1>6 DEF vars, table
<1> QED
  BY <1>2, <1>3, <1>4, <1>5, <1>6 DEF PlannerNext, Next, Writes

\* What is counted only grows with the table, while the day is the same.
LEMMA CountsGrow ==
    ASSUME TableOK, TableOK', rows \subseteq rows', NEW c
    PROVE  /\ Cardinality(Of(c)) \in Nat /\ Cardinality(Of(c))' \in Nat
           /\ Cardinality(Of(c)) <= Cardinality(Of(c))'
           /\ Volume(c) \in Nat /\ Volume(c) <= Cardinality(Of(c))
           /\ today' = today => Volume(c)' \in Nat /\ Volume(c) <= Volume(c)'
<1> DEFINE mine == Of(c) \cap Within(Window)
           next == Of(c)' \cap Within(Window)'
<1>1. IsFiniteSet(Of(c)) /\ IsFiniteSet(Of(c)')
  BY FS_Subset DEF TableOK, Of
<1>2. Of(c) \in SUBSET Of(c)'
  BY DEF Of
<1>3. mine \in SUBSET Of(c) /\ next \in SUBSET Of(c)'
  OBVIOUS
<1>4. today' = today => mine \in SUBSET next
  BY DEF Of, Within
<1>5. Volume(c) = Cardinality(mine) /\ Volume(c)' = Cardinality(next)
  BY DEF Volume
<1>6. Cardinality(Of(c))' = Cardinality(Of(c)')
  OBVIOUS
<1> HIDE DEF mine, next
<1>7. /\ IsFiniteSet(mine) /\ Cardinality(mine) <= Cardinality(Of(c))
      /\ IsFiniteSet(next)
  BY <1>1, <1>3, FS_Subset
<1>8. Cardinality(Of(c)) <= Cardinality(Of(c)')
  BY <1>1, <1>2, FS_Subset
<1>9. today' = today => Cardinality(mine) <= Cardinality(next)
  BY <1>4, <1>7, FS_Subset
<1> QED
  BY <1>1, <1>5, <1>6, <1>7, <1>8, <1>9, FS_CardinalityType

-----------------------------------------------------------------------------
(* Answers                                                                 *)

IsSeq(s) == \E S : s \in Seq(S)

LEMMA AppendSeq ==
    ASSUME NEW s, IsSeq(s), NEW e
    PROVE  /\ IsSeq(Append(s, e))
           /\ Len(s) \in Nat /\ Len(Append(s, e)) = Len(s) + 1
           /\ \A i \in 1 .. Len(s) : Append(s, e)[i] = s[i]
           /\ Append(s, e)[Len(s) + 1] = e
<1>1. PICK S : s \in Seq(S)
  BY DEF IsSeq
<1>2. s \in Seq(S \cup {e}) /\ e \in S \cup {e}
  BY <1>1
<1> DEFINE T == S \cup {e}
<1>3. s \in Seq(T) /\ e \in T
  BY <1>2
<1> HIDE DEF T
<1> QED
  BY <1>3, AppendProperties DEF IsSeq

LEMMA OneAnswer ==
    ASSUME NEW e
    PROVE  IsSeq(<<e>>) /\ Len(<<e>>) = 1 /\ <<e>>[1] = e /\ <<e>> = Append(<<>>, e)
<1>1. <<e>> \in Seq({e})
  OBVIOUS
<1>2. \E S : <<e>> \in Seq(S)
  BY <1>1
<1>3. Len(<<e>>) = 1 /\ <<e>>[1] = e /\ <<e>> = Append(<<>>, e)
  OBVIOUS
<1> QED
  BY <1>2, <1>3 DEF IsSeq

LEMMA NoAnswers == IsSeq(<<>>) /\ Len(<<>>) = 0
<1>1. <<>> \in Seq({})
  OBVIOUS
<1>2. \E S : <<>> \in Seq(S)
  BY <1>1
<1>3. Len(<<>>) = 0
  OBVIOUS
<1> QED
  BY <1>2, <1>3 DEF IsSeq

-----------------------------------------------------------------------------
(* The requests                                                            *)

Unasked == task = "none" => got = <<>> /\ changed = {}

\* The weeks were counted before the sources and from no more of the table.
EvidenceSoFar ==
    task = "evidence" =>
        /\ IsSeq(got) /\ Len(got) \in 0 .. 2
        /\ Len(got) > 0 => /\ Total(got[1]) \in Nat
                           /\ Total(got[1]) <= Cardinality(Of(about[1]))
        /\ Len(got) = 2 => Total(got[1]) <= Total(got[2])

\* The steps beside the ones of the table.
Handles == Reads \/ AskPlan \/ Corroborate \/ FindSpikes \/ FindAdjacent

LEMMA StepKinds ==
    ASSUME [PlannerNext]_vars
    PROVE  Waits \/ (Handles /\ UNCHANGED table)
<1>1. CASE Writes \/ UNCHANGED vars
  BY <1>1, WritesAreWaitedFor
<1>2. CASE Handles
  BY <1>2 DEF Handles, Reads, AskEvidence, Ask, EvidenceQuery, Query, AskPage, PageQuery,
              EndRequest, AskPlan, Ask, Corroborate, FindSpikes, FindAdjacent, Strategy, table
<1> QED
  BY <1>1, <1>2 DEF PlannerNext, Next, Handles

LEMMA UnaskedStep ==
    ASSUME Unasked, [PlannerNext]_vars
    PROVE  Unasked'
<1>1. CASE Waits
  BY <1>1 DEF Waits, Unasked
<1>2. CASE Handles
  BY <1>2 DEF Handles, Reads, AskEvidence, Ask, EvidenceQuery, Query, AskPage, PageQuery,
              EndRequest, AskPlan, Ask, Corroborate, FindSpikes, FindAdjacent, Strategy, Unasked
<1> QED
  BY <1>1, <1>2, StepKinds

\* Both sides of a total grow apart while the request waits.
LEMMA EvidenceWaits ==
    ASSUME TableOK, TableOK', EvidenceSoFar, Waits
    PROVE  EvidenceSoFar'
<1>1. SUFFICES ASSUME task = "evidence" PROVE EvidenceSoFar'
  BY DEF Waits, EvidenceSoFar
<1>2. UNCHANGED <<task, about, got>> /\ rows \subseteq rows'
  BY DEF Waits
<1>3. PICK c : c = about[1]
  OBVIOUS
<1>4. /\ Cardinality(Of(c)) \in Nat /\ Cardinality(Of(c)') \in Nat
      /\ Cardinality(Of(c)) <= Cardinality(Of(c)')
  BY <1>2, CountsGrow
<1>5. Of(about[1]) = Of(c) /\ Of(about[1])' = Of(c)'
  BY <1>2, <1>3 DEF Of
<1> HIDE <1>3
<1> QED
  BY <1>1, <1>2, <1>4, <1>5 DEF EvidenceSoFar

LEMMA EvidenceQueried ==
    ASSUME TableOK, EvidenceSoFar, EvidenceQuery
    PROVE  EvidenceSoFar'
<1>1. PICK c : c = about[1]
  OBVIOUS
<1>2. /\ task = "evidence" /\ task' = "evidence" /\ about' = about /\ rows' = rows
      /\ got' = Append(got, IF got = <<>> THEN Buckets(c) ELSE BySource(c))
      /\ IsSeq(got) /\ Len(got) < 2 /\ Len(got) \in Nat
  BY <1>1 DEF EvidenceQuery, Query, EvidenceSoFar, table
<1>3. /\ Cardinality(Of(c)) \in Nat /\ Volume(c) \in Nat /\ Volume(c) <= Cardinality(Of(c))
      /\ Total(Buckets(c)) = Volume(c) /\ Total(BySource(c)) = Cardinality(Of(c))
  <2>1. IsFiniteSet(Of(c))
    BY FS_Subset DEF TableOK, Of
  <2>2. IsFiniteSet(Of(c) \cap Within(Window))
        /\ Cardinality(Of(c) \cap Within(Window)) <= Cardinality(Of(c))
    BY <2>1, FS_Subset
  <2>3. Total(Buckets(c)) = Volume(c) /\ Total(BySource(c)) = Cardinality(Of(c))
    BY BucketsTotal, BySourceTotal DEF TableOK
  <2> QED
    BY <2>1, <2>2, <2>3, FS_CardinalityType DEF Volume
<1>4. Of(about[1])' = Of(c)
  BY <1>1, <1>2 DEF Of
<1>5. CASE got = <<>>
  <2>1. IsSeq(got') /\ Len(got') = 1 /\ got'[1] = Buckets(c)
    BY <1>2, <1>5, OneAnswer
  <2> QED
    BY <1>2, <1>3, <1>4, <2>1 DEF EvidenceSoFar
<1>6. CASE got # <<>>
  <2>1. Len(got) = 1
    <3>1. PICK S : got \in Seq(S)
      BY <1>2 DEF IsSeq
    <3>2. Len(got) # 0
      BY <1>6, <3>1
    <3>3. \A m \in Nat : m < 2 /\ m # 0 => m = 1
      OBVIOUS
    <3> QED
      BY <1>2, <3>2, <3>3, Zenon
  <2>2. IsSeq(got') /\ Len(got') = 2 /\ got'[1] = got[1] /\ got'[2] = BySource(c)
    <3> DEFINE e == BySource(c)
    <3>1. got' = Append(got, e)
      BY <1>2, <1>6
    <3> HIDE DEF e
    <3>2. /\ IsSeq(Append(got, e)) /\ Len(Append(got, e)) = Len(got) + 1
          /\ \A i \in 1 .. Len(got) : Append(got, e)[i] = got[i]
          /\ Append(got, e)[Len(got) + 1] = e
      BY <1>2, AppendSeq
    <3> QED
      BY <2>1, <3>1, <3>2 DEF e
  <2>3. Total(got[1]) \in Nat /\ Total(got[1]) <= Cardinality(Of(c))
    BY <1>1, <1>2, <2>1 DEF EvidenceSoFar
  <2> QED
    BY <1>2, <1>3, <1>4, <2>2, <2>3 DEF EvidenceSoFar
<1> QED
  BY <1>5, <1>6

LEMMA EvidenceStep ==
    ASSUME TableOK, TableOK', Unasked, EvidenceSoFar, [PlannerNext]_vars
    PROVE  EvidenceSoFar'
<1>1. CASE Waits
  BY <1>1, EvidenceWaits
<1>2. CASE EvidenceQuery
  BY <1>2, EvidenceQueried
<1>3. ASSUME NEW c \in Concepts, AskEvidence(c) PROVE EvidenceSoFar'
  BY <1>3, NoAnswers DEF AskEvidence, Ask, Unasked, EvidenceSoFar
<1>4. CASE AskPage \/ PageQuery \/ EndRequest \/ AskPlan \/ Corroborate \/ FindSpikes
           \/ FindAdjacent
  <2>1. task' # "evidence"
    BY <1>4 DEF AskPage, PageQuery, Query, EndRequest, AskPlan, Ask, Corroborate, FindSpikes,
                FindAdjacent, Strategy
  <2> QED
    BY <2>1 DEF EvidenceSoFar
<1> QED
  BY <1>1, <1>2, <1>3, <1>4, StepKinds DEF Handles, Reads

\* SetToSeq finds the sequence it chooses.
LEMMA SetToSeqLists ==
    ASSUME NEW T, IsFiniteSet(T)
    PROVE  /\ SetToSeq(T) \in Seq(T)
           /\ Len(SetToSeq(T)) = Cardinality(T)
<1> DEFINE n == Cardinality(T)
<1>1. n \in Nat /\ ExistsBijection(1 .. n, T)
  BY FS_CardinalityType
<1>2. \E f \in [1 .. n -> T] : IsInjective(f)
  BY <1>1 DEF ExistsBijection, Bijection, Injection
<1>3. SetToSeq(T) \in [1 .. n -> T]
  BY <1>2 DEF SetToSeq
<1> HIDE DEF n
<1>4. SetToSeq(T) \in Seq(T) /\ Len(SetToSeq(T)) = n
  BY <1>1, <1>3
<1> QED
  BY <1>4 DEF n

\* A figure of the ranking is what its weeks would add up to, and no more than
\* that when mentions were added; each of the weekly answers was checked
\* against its figure when it came.
RankingHolds ==
    \A j \in 1 .. Len(about) :
        /\ got[1][j] \in Nat
        /\ changed = {} => got[1][j] = Volume(about[j])
        /\ "day" \notin changed => got[1][j] <= Volume(about[j])

WeeksAgree ==
    \A i \in 2 .. Len(got) :
        /\ changed = {} => Total(got[i]) = got[1][i - 1]
        /\ "day" \notin changed => Total(got[i]) >= got[1][i - 1]

PageSoFar ==
    task = "page" =>
        /\ IsSeq(about) /\ IsSeq(got)
        /\ Len(about) \in Nat /\ Len(got) \in 1 .. Len(about) + 1
        /\ RankingHolds
        /\ WeeksAgree

LEMMA PageWaits ==
    ASSUME TableOK, TableOK', PageSoFar, Waits
    PROVE  PageSoFar'
<1>1. SUFFICES ASSUME task = "page" PROVE PageSoFar'
  BY DEF Waits, PageSoFar
<1>2. /\ UNCHANGED <<task, about, got>> /\ rows \subseteq rows'
      /\ changed \subseteq changed'
      /\ changed' = {} => changed = {} /\ rows' = rows /\ today' = today
      /\ "day" \notin changed' => "day" \notin changed /\ today' = today
  BY <1>1 DEF Waits, table
<1>3. RankingHolds'
  <2>1. SUFFICES ASSUME NEW j \in 1 .. Len(about)
                 PROVE  /\ got[1][j] \in Nat
                        /\ changed' = {} => got[1][j] = Volume(about[j])'
                        /\ "day" \notin changed' => got[1][j] <= Volume(about[j])'
    BY <1>2 DEF RankingHolds
  <2>2. /\ got[1][j] \in Nat
        /\ changed = {} => got[1][j] = Volume(about[j])
        /\ "day" \notin changed => got[1][j] <= Volume(about[j])
    BY <1>1 DEF PageSoFar, RankingHolds
  <2>3. PICK c : c = about[j]
    OBVIOUS
  <2>4. Volume(about[j]) = Volume(c) /\ Volume(about[j])' = Volume(c)'
    BY <1>2, <2>3 DEF Volume, Of, Within
  <2>5. /\ Volume(c) \in Nat
        /\ today' = today => Volume(c)' \in Nat /\ Volume(c) <= Volume(c)'
    BY <1>2, CountsGrow
  <2>6. changed' = {} => Volume(c)' = Volume(c)
    BY <1>2 DEF Volume, Of, Within
  <2> QED
    BY <1>2, <2>2, <2>4, <2>5, <2>6
<1>4. WeeksAgree'
  BY <1>1, <1>2 DEF PageSoFar, WeeksAgree
<1> QED
  BY <1>1, <1>2, <1>3, <1>4 DEF PageSoFar

LEMMA PageAsked ==
    ASSUME TableOK, Unasked, AskPage
    PROVE  PageSoFar'
<1>1. PICK T : /\ T \subseteq {r.concept : r \in Within(Window)}
               /\ about' = SetToSeq(T)
               /\ got' = << [i \in DOMAIN SetToSeq(T) |-> Volume(SetToSeq(T)[i])] >>
  BY DEF AskPage, TopOf
<1>2. changed' = {} /\ rows' = rows /\ today' = today
  BY DEF AskPage, Unasked, table
<1>3. IsFiniteSet(T)
  <2>1. T \subseteq Concepts
    BY <1>1 DEF TableOK, Rows, Within
  <2> QED
    BY <2>1, MentionsAssumption, FS_Subset
<1> DEFINE A == SetToSeq(T)
           ranking == [i \in DOMAIN A |-> Volume(A[i])]
<1>4. A \in Seq(T)
  BY <1>3, SetToSeqLists
<1>5. about' = A /\ got' = <<ranking>>
  BY <1>1
<1> HIDE DEF A
<1>6. IsSeq(A) /\ Len(A) \in Nat /\ DOMAIN A = 1 .. Len(A)
  BY <1>4 DEF IsSeq
<1>7. \A j \in 1 .. Len(A) : ranking[j] = Volume(A[j]) /\ Volume(A[j]) \in Nat
  <2>1. SUFFICES ASSUME NEW j \in 1 .. Len(A) PROVE Volume(A[j]) \in Nat
    BY <1>6
  <2>2. IsFiniteSet(Of(A[j]) \cap Within(Window))
    BY FS_Subset DEF TableOK, Of
  <2> QED
    BY <2>2, FS_CardinalityType DEF Volume
<1>8. \A j \in 1 .. Len(A) : Volume(about[j])' = Volume(A[j])
  BY <1>2, <1>5 DEF Volume, Of, Within
<1> HIDE DEF ranking
<1>9. IsSeq(got') /\ Len(got') = 1 /\ got'[1] = ranking
  BY <1>5, OneAnswer
<1>10. RankingHolds'
  <2>1. SUFFICES ASSUME NEW j \in 1 .. Len(A)
                 PROVE  got'[1][j] \in Nat /\ got'[1][j] = Volume(about[j])'
    BY <1>5 DEF RankingHolds
  <2> QED
    BY <1>7, <1>8, <1>9
<1>11. WeeksAgree'
  BY <1>9 DEF WeeksAgree
<1> QED
  BY <1>5, <1>6, <1>9, <1>10, <1>11 DEF PageSoFar

LEMMA PageQueried ==
    ASSUME TableOK, PageSoFar, PageQuery
    PROVE  PageSoFar'
<1>1. /\ task = "page" /\ task' = "page" /\ about' = about /\ changed' = changed
      /\ rows' = rows /\ today' = today
      /\ got' = Append(got, Buckets(about[Len(got)]))
      /\ Len(got) <= Len(about)
  BY DEF PageQuery, Query, table
<1>2. /\ IsSeq(about) /\ IsSeq(got) /\ Len(about) \in Nat /\ Len(got) \in 1 .. Len(about) + 1
      /\ RankingHolds /\ WeeksAgree
  BY <1>1 DEF PageSoFar
<1> DEFINE e == Buckets(about[Len(got)])
           n == Len(got)
<1>3. Total(e) = Volume(about[n])
  BY BucketsTotal DEF TableOK
<1>4. got' = Append(got, e)
  BY <1>1
<1> HIDE DEF e
<1>5. /\ IsSeq(got') /\ n \in Nat /\ Len(got') = n + 1
      /\ \A i \in 1 .. n : got'[i] = got[i]
      /\ got'[n + 1] = e
  BY <1>2, <1>4, AppendSeq
<1>6. n \in 1 .. Len(about) /\ n \in Nat
  BY <1>1, <1>2, <1>5
<1>7. got'[1] = got[1] /\ Len(got') \in 1 .. Len(about) + 1
  BY <1>2, <1>5, <1>6
<1>8. RankingHolds'
  <2>1. \A j \in 1 .. Len(about) : Volume(about[j])' = Volume(about[j])
    BY <1>1 DEF Volume, Of, Within
  <2>2. about' = about /\ changed' = changed /\ RankingHolds
    BY <1>1, <1>2
  <2> QED
    BY <1>7, <2>1, <2>2 DEF RankingHolds
<1>9. WeeksAgree'
  <2>1. SUFFICES ASSUME NEW i \in 2 .. Len(got')
                 PROVE  /\ changed = {} => Total(got'[i]) = got[1][i - 1]
                        /\ "day" \notin changed => Total(got'[i]) >= got[1][i - 1]
    BY <1>1, <1>7 DEF WeeksAgree
  <2>2. CASE i \in 2 .. n
    <3>1. got'[i] = got[i]
      BY <1>5, <1>6, <2>2
    <3> QED
      BY <1>2, <2>2, <3>1 DEF WeeksAgree
  <2>3. CASE i = n + 1
    <3>1. i - 1 = n /\ got'[i] = e
      BY <1>5, <1>6, <2>3
    <3>2. /\ changed = {} => got[1][n] = Volume(about[n])
          /\ "day" \notin changed => got[1][n] <= Volume(about[n])
          /\ got[1][n] \in Nat
      BY <1>2, <1>6 DEF RankingHolds
    <3>3. Volume(about[n]) \in Nat
      <4>1. IsFiniteSet(Of(about[n]) \cap Within(Window))
        BY FS_Subset DEF TableOK, Of
      <4> QED
        BY <4>1, FS_CardinalityType DEF Volume
    <3> QED
      BY <1>3, <3>1, <3>2, <3>3
  <2> QED
    BY <1>5, <1>6, <2>1, <2>2, <2>3
<1> HIDE DEF n
<1> QED
  BY <1>1, <1>2, <1>5, <1>7, <1>8, <1>9 DEF PageSoFar

LEMMA PageStep ==
    ASSUME TableOK, TableOK', Unasked, PageSoFar, [PlannerNext]_vars
    PROVE  PageSoFar'
<1>1. CASE Waits
  BY <1>1, PageWaits
<1>2. CASE AskPage
  BY <1>2, PageAsked
<1>3. CASE PageQuery
  BY <1>3, PageQueried
<1>4. CASE EvidenceQuery \/ EndRequest \/ AskPlan \/ Corroborate \/ FindSpikes \/ FindAdjacent
  <2>1. task' # "page"
    BY <1>4 DEF EvidenceQuery, Query, EndRequest, AskPlan, Ask, Corroborate, FindSpikes,
                FindAdjacent, Strategy
  <2> QED
    BY <2>1 DEF PageSoFar
<1>5. ASSUME NEW c \in Concepts, AskEvidence(c) PROVE PageSoFar'
  BY <1>5 DEF AskEvidence, Ask, PageSoFar
<1> QED
  BY <1>1, <1>2, <1>3, <1>4, <1>5, StepKinds DEF Handles, Reads

-----------------------------------------------------------------------------
(* What keeping some of the queries keeps                                  *)

\* Keeping is the function its recursion describes.
LEMMA KeepingRecurs ==
    ASSUME NEW I, NEW S, NEW queries \in Seq(S)
    PROVE  Keeping(I, queries) =
              [i \in 0 .. Len(queries) |->
                  IF i = 0 THEN <<>>
                  ELSE IF i \in I THEN Append(Keeping(I, queries)[i - 1], queries[i])
                  ELSE Keeping(I, queries)[i - 1]]
<1> DEFINE Next1(f, i) == IF i = 0 THEN <<>>
                          ELSE IF i \in I THEN Append(f[i - 1], queries[i]) ELSE f[i - 1]
           Recurs(f, n) == f = [i \in 0 .. n |-> Next1(f, i)]
           Known == {n \in Nat : \E f : Recurs(f, n)}
<1>1. Len(queries) \in Nat
  OBVIOUS
<1>2. 0 \in Known
  <2>1. Recurs([i \in 0 .. 0 |-> <<>>], 0)
    OBVIOUS
  <2> QED
    BY <2>1
<1>3. ASSUME NEW n \in 0 .. Len(queries), n \in Known PROVE n + 1 \in Known
  <2>1. PICK f : Recurs(f, n)
    BY <1>3
  <2> DEFINE g == [i \in 0 .. n + 1 |-> IF i = n + 1 THEN Next1(f, i) ELSE f[i]]
  <2>2. ASSUME NEW i \in 0 .. n + 1 PROVE g[i] = Next1(g, i)
    <3>1. CASE i = n + 1
      <4>1. g[i] = Next1(f, i) /\ g[i - 1] = f[i - 1]
        BY <3>1, <1>3
      <4> QED
        BY <4>1
    <3>2. CASE i # n + 1
      <4>1. i \in 0 .. n /\ g[i] = f[i]
        BY <3>2
      <4>2. f[i] = Next1(f, i)
        BY <4>1, <2>1
      <4>3. i # 0 => g[i - 1] = f[i - 1]
        BY <4>1
      <4> QED
        BY <4>1, <4>2, <4>3
    <3> QED
      BY <3>1, <3>2
  <2>3. Recurs(g, n + 1)
    BY <2>2
  <2>4. \E h : Recurs(h, n + 1)
    <3> HIDE DEF Recurs, g
    <3> QED
      BY <2>3
  <2>5. n + 1 \in Nat
    OBVIOUS
  <2> HIDE DEF Recurs
  <2> QED
    BY <2>4, <2>5
<1>4. Len(queries) \in Known
  <2> DEFINE top == Len(queries)
  <2>1. /\ top \in Nat /\ 0 \in Known
        /\ \A n \in 0 .. top : n \in Known /\ n < top => n + 1 \in Known
    BY <1>1, <1>2, <1>3
  <2> HIDE DEF Known, top
  <2>2. 0 .. top \subseteq Known
    BY <2>1, UpToInduction
  <2> QED
    BY <2>1, <2>2 DEF top
<1>5. \E f : Recurs(f, Len(queries))
  BY <1>4
<1>6. Keeping(I, queries) = CHOOSE f : Recurs(f, Len(queries))
  BY DEF Keeping
<1> QED
  <2> HIDE DEF Recurs
  <2>1. Recurs(Keeping(I, queries), Len(queries))
    BY <1>5, <1>6
  <2> QED
    BY <2>1 DEF Recurs

Distinct(s) == \A i, k \in 1 .. Len(s) : s[i] = s[k] => i = k

\* What is kept are queries at the positions asked for, no two of the same.
LEMMA AtKeeps ==
    ASSUME NEW S, NEW queries \in Seq(S), NEW I \in SUBSET (1 .. Len(queries)),
           \A p, r \in I : queries[p] = queries[r] => p = r
    PROVE  /\ At(I, queries) \in Seq(S)
           /\ Len(At(I, queries)) <= Len(queries)
           /\ \A j \in 1 .. Len(At(I, queries)) : \E p \in I : At(I, queries)[j] = queries[p]
           /\ Distinct(At(I, queries))
<1> DEFINE K == Keeping(I, queries)
           top == Len(queries)
           Keeps(i) ==
              /\ K[i] \in Seq(S) /\ Len(K[i]) <= i
              /\ \A j \in 1 .. Len(K[i]) : \E p \in I : p <= i /\ K[i][j] = queries[p]
              /\ Distinct(K[i])
           Kept == {i \in Nat : Keeps(i)}
<1>1. top \in Nat
  OBVIOUS
<1>2. /\ K[0] = <<>>
      /\ \A i \in 0 .. top : i < top =>
            K[i + 1] = IF i + 1 \in I THEN Append(K[i], queries[i + 1]) ELSE K[i]
  <2>1. K = [i \in 0 .. top |-> IF i = 0 THEN <<>>
                                ELSE IF i \in I THEN Append(K[i - 1], queries[i])
                                ELSE K[i - 1]]
    BY KeepingRecurs
  <2> HIDE DEF K
  <2>2. K[0] = <<>>
    BY <1>1, <2>1
  <2>3. ASSUME NEW i \in 0 .. top, i < top
        PROVE  K[i + 1] = IF i + 1 \in I THEN Append(K[i], queries[i + 1]) ELSE K[i]
    <3>1. i + 1 \in 0 .. top /\ i + 1 # 0 /\ (i + 1) - 1 = i
      BY <1>1, <2>3
    <3> QED
      BY <2>1, <3>1
  <2> QED
    BY <2>2, <2>3
<1> HIDE DEF K
<1>3. Keeps(0)
  BY <1>2 DEF Distinct
<1>4. ASSUME NEW i \in 0 .. top, Keeps(i), i < top PROVE Keeps(i + 1)
  <2>1. CASE i + 1 \notin I
    <3>1. K[i + 1] = K[i]
      BY <1>2, <1>4, <2>1
    <3>2. \A p \in I : p <= i => p <= i + 1
      OBVIOUS
    <3>3. Len(K[i]) <= i + 1
      BY <1>4
    <3> QED
      BY <1>4, <3>1, <3>2, <3>3
  <2>2. CASE i + 1 \in I
    <3> DEFINE so_far == K[i]
               q == queries[i + 1]
               n == Len(so_far)
    <3>1. K[i + 1] = Append(so_far, q)
      BY <1>2, <1>4, <2>2
    <3>2. /\ so_far \in Seq(S) /\ n <= i /\ Distinct(so_far) /\ q \in S
          /\ \A j \in 1 .. n : \E p \in I : p <= i /\ so_far[j] = queries[p]
      BY <1>1, <1>4
    <3> HIDE DEF so_far, q
    <3>3. n \in Nat
      BY <3>2
    <3>4. /\ Append(so_far, q) \in Seq(S) /\ Len(Append(so_far, q)) = n + 1
          /\ \A j \in 1 .. n : Append(so_far, q)[j] = so_far[j]
          /\ Append(so_far, q)[n + 1] = q
      BY <3>2, AppendProperties
    <3> HIDE DEF n
    <3>5. \A j \in 1 .. n : so_far[j] # q
      BY <2>2, <3>2 DEF q
    <3>6. \A j \in 1 .. n + 1 : \E p \in I : p <= i + 1 /\ K[i + 1][j] = queries[p]
      <4>1. ASSUME NEW j \in 1 .. n
            PROVE  \E p \in I : p <= i + 1 /\ K[i + 1][j] = queries[p]
        <5>1. PICK p \in I : p <= i /\ so_far[j] = queries[p]
          BY <3>2
        <5>2. K[i + 1][j] = so_far[j]
          BY <3>1, <3>4
        <5>3. p \in Nat /\ p <= i + 1
          BY <5>1
        <5> QED
          BY <5>1, <5>2, <5>3
      <4>2. K[i + 1][n + 1] = queries[i + 1]
        BY <3>1, <3>4 DEF q
      <4> QED
        BY <2>2, <3>3, <4>1, <4>2
    <3>7. Distinct(K[i + 1])
      <4> DEFINE more == K[i + 1]
      <4>1. /\ Len(more) = n + 1 /\ more[n + 1] = q
            /\ \A j \in 1 .. n : more[j] = so_far[j] /\ more[j] # q
        BY <3>1, <3>4, <3>5
      <4>2. \A j, l \in 1 .. n : so_far[j] = so_far[l] => j = l
        BY <3>2 DEF Distinct, n
      <4> HIDE DEF more
      <4>3. \A j \in 1 .. n + 1 : j \in 1 .. n \/ j = n + 1
        BY <3>3
      <4>4. \A j, l \in 1 .. n + 1 : more[j] = more[l] => j = l
        BY <4>1, <4>2, <4>3
      <4> QED
        BY <4>1, <4>4 DEF Distinct, more
    <3>8. n + 1 <= i + 1
      BY <3>2, <3>3 DEF n
    <3> QED
      BY <3>1, <3>4, <3>6, <3>7, <3>8
  <2> QED
    BY <2>1, <2>2
<1>5. Keeps(top)
  <2> HIDE DEF Keeps, top
  <2>1. 0 \in Kept /\ \A i \in 0 .. top : i \in Kept /\ i < top => i + 1 \in Kept
    BY <1>1, <1>3, <1>4
  <2> HIDE DEF Kept
  <2>2. 0 .. top \subseteq Kept
    BY <1>1, <2>1, UpToInduction
  <2>3. top \in Kept
    BY <1>1, <2>2
  <2> QED
    BY <2>3 DEF Kept
<1> QED
  BY <1>5 DEF At, K

-----------------------------------------------------------------------------
(* What the strategies bring                                               *)

TextsFor(strategy, C) == {Text(strategy, name) : name \in C}

LEMMA TextsList ==
    ASSUME NEW strategy, NEW T, IsFiniteSet(T)
    PROVE  /\ Texts(strategy, T) \in Seq(TextsFor(strategy, T))
           /\ Len(Texts(strategy, T)) <= Cardinality(T)
<1> DEFINE f == [name \in T |-> Text(strategy, name)]
           V == {f[name] : name \in T}
<1>1. f \in [T -> V]
  OBVIOUS
<1>2. V = TextsFor(strategy, T)
  BY DEF TextsFor
<1>3. IsFiniteSet(V) /\ Cardinality(V) <= Cardinality(T)
  <2> HIDE DEF f
  <2> QED
    BY <1>1, ValuesAreFewer
<1> HIDE DEF V
<1>4. Texts(strategy, T) = SetToSeq(V)
  BY <1>2 DEF Texts, TextsFor
<1> QED
  BY <1>2, <1>3, <1>4, SetToSeqLists

\* A query of a strategy, over some names and with a limit.
Brings(list, strategy, C, limit) ==
    list \in Seq(TextsFor(strategy, C)) /\ Len(list) <= limit

LEMMA TextsBring ==
    ASSUME NEW strategy, NEW C, IsFiniteSet(C), NEW T \in SUBSET C, NEW limit \in Nat,
           Cardinality(T) = IF Cardinality(C) < limit THEN Cardinality(C) ELSE limit
    PROVE  Brings(Texts(strategy, T), strategy, C, limit)
<1>1. IsFiniteSet(T) /\ Cardinality(C) \in Nat
  BY FS_Subset, FS_CardinalityType
<1>2. Cardinality(T) \in Nat /\ Cardinality(T) <= limit
  BY <1>1
<1>3. /\ Texts(strategy, T) \in Seq(TextsFor(strategy, T))
      /\ Len(Texts(strategy, T)) <= Cardinality(T)
  BY <1>1, TextsList
<1>4. TextsFor(strategy, T) \subseteq TextsFor(strategy, C)
  BY DEF TextsFor
<1> DEFINE list == Texts(strategy, T)
           V == TextsFor(strategy, T)
           W == TextsFor(strategy, C)
<1>5. list \in Seq(V) /\ V \subseteq W /\ Len(list) <= Cardinality(T)
  BY <1>3, <1>4
<1> HIDE DEF list, V, W
<1>6. list \in Seq(W) /\ Len(list) <= limit
  BY <1>2, <1>5
<1> QED
  BY <1>6 DEF Brings, list, W

LEMMA EmptyBrings ==
    ASSUME NEW strategy, NEW C, NEW limit \in Nat
    PROVE  Brings(<<>>, strategy, C, limit)
BY DEF Brings

LEMMA StrategiesBring ==
    /\ \A list \in Corroborations :
            Brings(list, "corroboration", Singletons, CorroborationLimit)
    /\ \A list \in Spikes :
            Brings(list, "spikes", {c \in Concepts : Spiking(c)}, SpikeLimit)
    /\ \A list \in Adjacencies :
            Brings(list, "adjacency", Authorities, AdjacencyLimit)
<1>1. /\ CorroborationLimit \in Nat /\ SpikeLimit \in Nat /\ AdjacencyLimit \in Nat
      /\ IsFiniteSet(Authorities)
  BY PlannerAssumption
<1>2. IsFiniteSet(Singletons) /\ IsFiniteSet({c \in Concepts : Spiking(c)})
  BY MentionsAssumption, FS_Subset DEF Singletons
<1>3. ASSUME NEW list \in Corroborations
      PROVE  Brings(list, "corroboration", Singletons, CorroborationLimit)
  BY <1>1, <1>2, TextsBring DEF Corroborations, TopOf
<1>4. ASSUME NEW list \in Spikes
      PROVE  Brings(list, "spikes", {c \in Concepts : Spiking(c)}, SpikeLimit)
  BY <1>1, <1>2, TextsBring DEF Spikes, TopOf
<1>5. ASSUME NEW list \in Adjacencies
      PROVE  Brings(list, "adjacency", Authorities, AdjacencyLimit)
  BY <1>1, TextsBring DEF Adjacencies, TopOf
<1> QED
  BY <1>3, <1>4, <1>5

Names == Concepts \cup Authorities

\* What a strategy has brought stays what it was when its names are any.
LEMMA BringsSome ==
    ASSUME NEW list, NEW strategy, NEW C \in SUBSET Names, NEW limit,
           Brings(list, strategy, C, limit)
    PROVE  /\ Brings(list, strategy, Names, limit)
           /\ \A c : Text(strategy, c) \in ToSet(list) => c \in C
<1> DEFINE V == TextsFor(strategy, C)
           W == TextsFor(strategy, Names)
<1>1. list \in Seq(V) /\ Len(list) <= limit
  BY DEF Brings
<1>2. V \subseteq W
  BY DEF TextsFor
<1>3. ASSUME NEW c, Text(strategy, c) \in V PROVE c \in C
  <2>1. PICK d \in C : Text(strategy, c) = Text(strategy, d)
    BY <1>3 DEF TextsFor
  <2>2. Text(strategy, c).name = Text(strategy, d).name
    BY <2>1
  <2> QED
    BY <2>2 DEF Text
<1> HIDE DEF V, W
<1>4. list \in Seq(W) /\ ToSet(list) \subseteq V
  BY <1>1, <1>2 DEF ToSet
<1> QED
  BY <1>1, <1>3, <1>4 DEF Brings, W

-----------------------------------------------------------------------------
(* The plan                                                                *)

\* At most one mention in the long window.
Once(c) == Cardinality(Of(c) \cap Within(SingletonDays)) <= 1

\* It stays so while days go by and the concept is not mentioned.
LEMMA OnceStays ==
    ASSUME TableOK, TableOK', NEW c \in Concepts, Of(c)' = Of(c), today <= today', Once(c)
    PROVE  Once(c)'
<1> DEFINE long == Of(c) \cap Within(SingletonDays)
           next == Of(c)' \cap Within(SingletonDays)'
<1>1. SingletonDays \in Nat /\ \A r \in rows : r.day \in Nat
  BY PlannerAssumption, MentionsAssumption DEF TableOK, Rows, Days
<1>2. next \subseteq long
  BY <1>1 DEF TableOK, Of, Within
<1>3. IsFiniteSet(long)
  BY FS_Subset DEF TableOK, Of
<1>4. Once(c)' <=> Cardinality(next) <= 1
  BY DEF Once
<1>5. Cardinality(long) <= 1
  BY DEF Once
<1> HIDE DEF long, next
<1>6. /\ Cardinality(long) \in Nat /\ Cardinality(next) \in Nat
      /\ Cardinality(next) <= Cardinality(long)
  BY <1>2, <1>3, FS_Subset, FS_CardinalityType
<1> QED
  BY <1>4, <1>5, <1>6

\* A concept with no more than one mention in the long window has no minimum
\* of two in the last half of the short one.
LEMMA SpikesAreMany ==
    ASSUME TableOK, NEW c \in Concepts
    PROVE  ~ (Once(c) /\ Spiking(c))
<1>1. SUFFICES ASSUME Once(c), Spiking(c) PROVE FALSE
  OBVIOUS
<1> DEFINE long == Of(c) \cap Within(SingletonDays)
           short == Of(c) \cap Within(SpikeDays)
           half == Of(c) \cap Within(SpikeDays \div 2)
<1>2. SpikeDays \div 2 <= SpikeDays /\ SpikeDays <= SingletonDays
      /\ SpikeDays \in Nat /\ SingletonDays \in Nat /\ SpikeDays \div 2 \in Nat
  BY PlannerAssumption
<1>3. \A r \in rows : r.day \in Nat
  BY MentionsAssumption DEF TableOK, Rows, Days
<1>4. half \subseteq long
  BY <1>2, <1>3 DEF TableOK, Of, Within
<1>5. IsFiniteSet(long) /\ IsFiniteSet(short)
  BY FS_Subset DEF TableOK, Of
<1>6. Cardinality(long) <= 1
  BY <1>1 DEF Once
<1>7. Cardinality(half) = Recent(c) /\ Cardinality(short) - Recent(c) = Prior(c)
  BY DEF Recent, Prior
<1> HIDE DEF long, short, half
<1>8. Cardinality(long) \in Nat
  BY <1>5, FS_CardinalityType
<1>9. Cardinality(half) \in Nat /\ Cardinality(half) <= 1 /\ Cardinality(short) \in Nat
  BY <1>4, <1>5, <1>6, <1>8, FS_Subset, FS_CardinalityType
<1>10. AtLeastOne(Prior(c)) \in Int /\ AtLeastOne(Prior(c)) >= 1
  BY <1>7, <1>9 DEF AtLeastOne
<1>11. Recent(c) >= 2 * AtLeastOne(Prior(c))
  BY <1>1 DEF Spiking
<1> QED
  BY <1>7, <1>9, <1>10, <1>11

\* The strategies' answers in their order, each of its own texts.  A concept that
\* was a singleton has not been mentioned since or is noted as mentioned.
PlanSoFar ==
    task = "plan" =>
        /\ IsSeq(got) /\ Len(got) \in 0 .. 3
        /\ Len(got) > 0 => Brings(got[1], "corroboration", Names, CorroborationLimit)
        /\ Len(got) > 1 => Brings(got[2], "spikes", Names, SpikeLimit)
        /\ Len(got) > 2 => Brings(got[3], "adjacency", Names, AdjacencyLimit)
        /\ Len(got) > 0 =>
              \A c \in Concepts : Text("corroboration", c) \in ToSet(got[1]) =>
                                     c \in changed \/ Once(c)
        /\ Len(got) > 1 =>
              \A c \in Concepts :
                 Text("corroboration", c) \in ToSet(got[1]) /\ Text("spikes", c) \in ToSet(got[2])
                    => c \in changed

LEMMA PlanWaits ==
    ASSUME TableOK, TableOK', PlanSoFar, Waits
    PROVE  PlanSoFar'
<1>1. SUFFICES ASSUME task = "plan" PROVE PlanSoFar'
  BY DEF Waits, PlanSoFar
<1>2. /\ task' = task /\ got' = got /\ changed \subseteq changed' /\ today <= today'
      /\ \A c \in Concepts \ changed' : Of(c)' = Of(c)
  BY <1>1 DEF Waits, TableOK
<1>3. ASSUME NEW c \in Concepts, c \in changed \/ Once(c)
      PROVE  c \in changed' \/ Once(c)'
  BY <1>2, <1>3, OnceStays
<1> QED
  BY <1>1, <1>2, <1>3 DEF PlanSoFar

LEMMA CorroborateKeeps ==
    ASSUME PlanSoFar, Corroborate
    PROVE  PlanSoFar'
<1>1. CorroborationLimit \in Nat
  BY PlannerAssumption
<1>2. PICK list : got' = Append(got, list) /\ (list \in Corroborations \/ list = <<>>)
  BY DEF Corroborate, Strategy
<1>3. Brings(list, "corroboration", Singletons, CorroborationLimit)
  BY <1>1, <1>2, StrategiesBring, EmptyBrings
<1>4. Singletons \in SUBSET Names
  BY DEF Singletons, Names
<1>5. /\ Brings(list, "corroboration", Names, CorroborationLimit)
      /\ \A c : Text("corroboration", c) \in ToSet(list) => c \in Singletons
  BY <1>3, <1>4, BringsSome
<1>6. got' = <<list>>
  BY <1>2 DEF Corroborate
<1>7. IsSeq(got') /\ Len(got') = 1 /\ got'[1] = list
  BY <1>6, OneAnswer
<1>8. ASSUME NEW c \in Singletons PROVE Once(c)'
  <2>1. Cardinality(Of(c) \cap Within(SingletonDays)) = 1
    BY DEF Singletons
  <2>2. Once(c)
    BY <2>1 DEF Once
  <2> QED
    BY <2>2 DEF Corroborate, Strategy, table, Once, Of, Within
<1> QED
  BY <1>5, <1>7, <1>8 DEF PlanSoFar

LEMMA FindSpikesKeeps ==
    ASSUME TableOK, PlanSoFar, FindSpikes
    PROVE  PlanSoFar'
<1> DEFINE P == {d \in Concepts : Spiking(d)}
<1>1. SpikeLimit \in Nat
  BY PlannerAssumption
<1>2. PICK list : got' = Append(got, list) /\ (list \in Spikes \/ list = <<>>)
  BY DEF FindSpikes, Strategy
<1>3. Brings(list, "spikes", P, SpikeLimit)
  BY <1>1, <1>2, StrategiesBring, EmptyBrings
<1>4. P \in SUBSET Names
  BY DEF Names
<1>5. changed' = changed
  BY DEF FindSpikes, Strategy
<1>6. \A c : Once(c)' = Once(c)
  BY DEF FindSpikes, Strategy, table, Once, Of, Within
<1>7. /\ Brings(list, "spikes", Names, SpikeLimit)
      /\ \A c : Text("spikes", c) \in ToSet(list) => c \in P
  <2> HIDE DEF P
  <2> QED
    BY <1>3, <1>4, BringsSome
<1>8. task = "plan" /\ IsSeq(got) /\ Len(got) = 1
  BY DEF FindSpikes, Strategy, PlanSoFar
<1>9. IsSeq(got') /\ Len(got') = 2 /\ got'[1] = got[1] /\ got'[2] = list
  <2>1. /\ IsSeq(Append(got, list)) /\ Len(Append(got, list)) = Len(got) + 1
        /\ \A i \in 1 .. Len(got) : Append(got, list)[i] = got[i]
        /\ Append(got, list)[Len(got) + 1] = list
    <3>1. IsSeq(got) => /\ IsSeq(Append(got, list)) /\ Len(Append(got, list)) = Len(got) + 1
                        /\ \A i \in 1 .. Len(got) : Append(got, list)[i] = got[i]
                        /\ Append(got, list)[Len(got) + 1] = list
      BY AppendSeq
    <3> QED
      BY <1>8, <3>1
  <2>2. 1 \in 1 .. Len(got) /\ Len(got) + 1 = 2
    BY <1>8
  <2> QED
    BY <1>2, <2>1, <2>2
<1>10. /\ Brings(got[1], "corroboration", Names, CorroborationLimit)
       /\ \A c \in Concepts : Text("corroboration", c) \in ToSet(got[1]) =>
                              c \in changed \/ Once(c)
  BY <1>8 DEF PlanSoFar
<1>11. ASSUME NEW c \in Concepts, Text("corroboration", c) \in ToSet(got[1]),
              Text("spikes", c) \in ToSet(list)
       PROVE  c \in changed
  <2>1. Spiking(c)
    BY <1>7, <1>11
  <2>2. ~ Once(c)
    BY <2>1, SpikesAreMany
  <2>3. c \in changed \/ Once(c)
    BY <1>10, <1>11
  <2> QED
    BY <2>2, <2>3
<1> HIDE DEF P
<1>12. /\ \A c \in Concepts : Text("corroboration", c) \in ToSet(got'[1]) =>
                              c \in changed' \/ Once(c)'
       /\ \A c \in Concepts :
             Text("corroboration", c) \in ToSet(got'[1]) /\ Text("spikes", c) \in ToSet(got'[2])
                => c \in changed'
  BY <1>5, <1>6, <1>9, <1>10, <1>11
<1>13. /\ Brings(got'[1], "corroboration", Names, CorroborationLimit)
       /\ Brings(got'[2], "spikes", Names, SpikeLimit)
       /\ ~ Len(got') > 2 /\ Len(got') \in 0 .. 3
  BY <1>7, <1>9, <1>10
<1> QED
  BY <1>9, <1>12, <1>13 DEF PlanSoFar, Brings, Names

LEMMA FindAdjacentKeeps ==
    ASSUME PlanSoFar, FindAdjacent
    PROVE  PlanSoFar'
<1>1. AdjacencyLimit \in Nat
  BY PlannerAssumption
<1>2. PICK list : got' = Append(got, list) /\ (list \in Adjacencies \/ list = <<>>)
  BY DEF FindAdjacent, Strategy
<1>3. Brings(list, "adjacency", Authorities, AdjacencyLimit)
  BY <1>1, <1>2, StrategiesBring, EmptyBrings
<1>4. Authorities \in SUBSET Names
  BY DEF Names
<1>5. changed' = changed
  BY DEF FindAdjacent, Strategy
<1>6. \A c : Once(c)' = Once(c)
  BY DEF FindAdjacent, Strategy, table, Once, Of, Within
<1>7. Brings(list, "adjacency", Names, AdjacencyLimit)
  BY <1>3, <1>4, BringsSome
<1>8. task = "plan" /\ IsSeq(got) /\ Len(got) = 2
  BY DEF FindAdjacent, Strategy, PlanSoFar
<1>9. /\ IsSeq(got') /\ Len(got') = 3
      /\ got'[1] = got[1] /\ got'[2] = got[2] /\ got'[3] = list
  <2>1. /\ IsSeq(Append(got, list)) /\ Len(Append(got, list)) = Len(got) + 1
        /\ \A i \in 1 .. Len(got) : Append(got, list)[i] = got[i]
        /\ Append(got, list)[Len(got) + 1] = list
    <3>1. IsSeq(got) => /\ IsSeq(Append(got, list)) /\ Len(Append(got, list)) = Len(got) + 1
                        /\ \A i \in 1 .. Len(got) : Append(got, list)[i] = got[i]
                        /\ Append(got, list)[Len(got) + 1] = list
      BY AppendSeq
    <3> QED
      BY <1>8, <3>1
  <2>2. 1 \in 1 .. Len(got) /\ 2 \in 1 .. Len(got) /\ Len(got) + 1 = 3
    BY <1>8
  <2> QED
    BY <1>2, <2>1, <2>2
<1>10. /\ Brings(got[1], "corroboration", Names, CorroborationLimit)
       /\ Brings(got[2], "spikes", Names, SpikeLimit)
       /\ \A c \in Concepts : Text("corroboration", c) \in ToSet(got[1]) =>
                              c \in changed \/ Once(c)
       /\ \A c \in Concepts :
             Text("corroboration", c) \in ToSet(got[1]) /\ Text("spikes", c) \in ToSet(got[2])
                => c \in changed
  BY <1>8 DEF PlanSoFar
<1> QED
  BY <1>5, <1>6, <1>7, <1>9, <1>10 DEF PlanSoFar

LEMMA PlanStep ==
    ASSUME TableOK, TableOK', Unasked, PlanSoFar, [PlannerNext]_vars
    PROVE  PlanSoFar'
<1>1. CASE Waits
  BY <1>1, PlanWaits
<1>2. CASE AskPlan
  BY <1>2, NoAnswers DEF AskPlan, Ask, Unasked, PlanSoFar
<1>3. CASE Corroborate \/ FindSpikes \/ FindAdjacent
  BY <1>3, CorroborateKeeps, FindSpikesKeeps, FindAdjacentKeeps
<1>4. CASE EvidenceQuery \/ AskPage \/ PageQuery \/ EndRequest
  <2>1. task' # "plan"
    BY <1>4 DEF EvidenceQuery, Query, AskPage, PageQuery, EndRequest
  <2> QED
    BY <2>1 DEF PlanSoFar
<1>5. ASSUME NEW c \in Concepts, AskEvidence(c) PROVE PlanSoFar'
  BY <1>5 DEF AskEvidence, Ask, PlanSoFar
<1> QED
  BY <1>1, <1>2, <1>3, <1>4, <1>5, StepKinds DEF Handles, Reads

-----------------------------------------------------------------------------
(* The pool                                                                *)

LEMMA ConcatElements ==
    ASSUME NEW S, NEW s \in Seq(S), NEW t \in Seq(S)
    PROVE  ToSet(s \o t) \subseteq ToSet(s) \cup ToSet(t)
<1>1. ASSUME NEW i \in 1 .. Len(s) + Len(t)
      PROVE  (s \o t)[i] \in ToSet(s) \cup ToSet(t)
  <2>1. (s \o t)[i] = IF i <= Len(s) THEN s[i] ELSE t[i - Len(s)]
    BY ConcatProperties
  <2>2. CASE i <= Len(s)
    <3>1. i \in DOMAIN s
      BY <2>2
    <3> QED
      BY <2>1, <2>2, <3>1 DEF ToSet
  <2>3. CASE ~ (i <= Len(s))
    <3>1. i - Len(s) \in DOMAIN t
      BY <2>3
    <3> QED
      BY <2>1, <2>3, <3>1 DEF ToSet
  <2> QED
    BY <2>2, <2>3
<1>2. DOMAIN (s \o t) = 1 .. Len(s) + Len(t)
  OBVIOUS
<1> QED
  BY <1>1, <1>2 DEF ToSet

AllTexts == [strategy : {"corroboration", "spikes", "adjacency"}, name : Names]

\* What has been derived are texts, no more than the limits allow, each from
\* the strategy that its form tells.
LEMMA DerivedTexts ==
    ASSUME PlanSoFar, Planned
    PROVE  /\ Derived \in Seq(AllTexts)
           /\ Len(Derived) <= CorroborationLimit + SpikeLimit + AdjacencyLimit
           /\ \A c : Text("corroboration", c) \in ToSet(Derived) =>
                        Text("corroboration", c) \in ToSet(got[1])
           /\ \A c : Text("spikes", c) \in ToSet(Derived) =>
                        Text("spikes", c) \in ToSet(got[2])
<1>1. /\ Brings(got[1], "corroboration", Names, CorroborationLimit)
      /\ Brings(got[2], "spikes", Names, SpikeLimit)
      /\ Brings(got[3], "adjacency", Names, AdjacencyLimit)
  BY DEF PlanSoFar, Planned
<1>2. CorroborationLimit \in Nat /\ SpikeLimit \in Nat /\ AdjacencyLimit \in Nat
  BY PlannerAssumption
<1> DEFINE a == got[1]
           b == got[2]
           c == got[3]
           A == TextsFor("corroboration", Names)
           B == TextsFor("spikes", Names)
           C == TextsFor("adjacency", Names)
<1>3. /\ a \in Seq(A) /\ b \in Seq(B) /\ c \in Seq(C)
      /\ Len(a) <= CorroborationLimit /\ Len(b) <= SpikeLimit /\ Len(c) <= AdjacencyLimit
  BY <1>1 DEF Brings
<1>4. A \subseteq AllTexts /\ B \subseteq AllTexts /\ C \subseteq AllTexts
  BY DEF TextsFor, Text, AllTexts
<1>5. \A e : /\ Text("corroboration", e) \notin B /\ Text("corroboration", e) \notin C
             /\ Text("spikes", e) \notin A /\ Text("spikes", e) \notin C
  BY DEF TextsFor, Text
<1>6. Derived = a \o b \o c
  BY DEF Derived
<1> HIDE DEF a, b, c, A, B, C
<1>7. a \in Seq(AllTexts) /\ b \in Seq(AllTexts) /\ c \in Seq(AllTexts)
  BY <1>3, <1>4
<1>8. /\ a \o b \in Seq(AllTexts) /\ a \o b \o c \in Seq(AllTexts)
      /\ Len(a \o b \o c) = Len(a) + Len(b) + Len(c)
  BY <1>7
<1>9. /\ ToSet(a \o b) \subseteq ToSet(a) \cup ToSet(b)
      /\ ToSet(a \o b \o c) \subseteq ToSet(a \o b) \cup ToSet(c)
  BY <1>7, <1>8, ConcatElements
<1>10. ToSet(a) \subseteq A /\ ToSet(b) \subseteq B /\ ToSet(c) \subseteq C
  BY <1>3 DEF ToSet
<1>11. Len(a) \in Nat /\ Len(b) \in Nat /\ Len(c) \in Nat
  BY <1>7
<1>12. Len(a) + Len(b) + Len(c) <= CorroborationLimit + SpikeLimit + AdjacencyLimit
  BY <1>2, <1>3, <1>11
<1>13. \A e : /\ Text("corroboration", e) \in ToSet(Derived) =>
                    Text("corroboration", e) \in ToSet(a)
              /\ Text("spikes", e) \in ToSet(Derived) => Text("spikes", e) \in ToSet(b)
  BY <1>5, <1>6, <1>9, <1>10
<1> QED
  BY <1>6, <1>8, <1>12, <1>13 DEF a, b

\* The positions the two loops keep are of different queries, so that the pool
\* has the curated list first and then texts that are neither in it nor twice.
LEMMA PoolIsFair ==
    ASSUME PlanSoFar, Planned
    PROVE  \E extra \in Seq(AllTexts) :
              /\ Pool = Static \o extra
              /\ Len(extra) <= CorroborationLimit + SpikeLimit + AdjacencyLimit
              /\ ToSet(extra) \cap ToSet(Static) = {}
              /\ Distinct(extra)
<1> DEFINE S == AllTexts
           q == Derived
           I == {i \in 1 .. Len(q) : \A k \in 1 .. i - 1 : q[k] # q[i]}
           once == At(I, q)
           J == {i \in 1 .. Len(once) : once[i] \notin ToSet(Static)}
           extra == At(J, once)
<1>1. q \in Seq(S) /\ Len(q) <= CorroborationLimit + SpikeLimit + AdjacencyLimit
  BY DerivedTexts
<1>2. Pool = Static \o extra
  BY DEF Pool, Combined, Deduped
<1>3. Len(q) \in Nat
  BY <1>1
<1> HIDE DEF q, S
<1>4. \A p, r \in I : q[p] = q[r] => p = r
  <2>1. SUFFICES ASSUME NEW p \in I, NEW r \in I, q[p] = q[r], p # r PROVE FALSE
    OBVIOUS
  <2>2. p \in Nat /\ r \in Nat /\ p >= 1 /\ r >= 1
    BY <1>3
  <2>3. p < r \/ r < p
    BY <2>1, <2>2
  <2>4. CASE p < r
    BY <2>1, <2>2, <2>4
  <2>5. CASE r < p
    BY <2>1, <2>2, <2>5
  <2> QED
    BY <2>3, <2>4, <2>5
<1>5. I \in SUBSET (1 .. Len(q))
  OBVIOUS
<1> HIDE DEF I
<1>6. once \in Seq(S) /\ Len(once) <= Len(q) /\ Distinct(once)
  BY <1>1, <1>4, <1>5, AtKeeps
<1> HIDE DEF once
<1>7. J \in SUBSET (1 .. Len(once)) /\ \A p, r \in J : once[p] = once[r] => p = r
  BY <1>6 DEF Distinct
<1>8. \A p \in J : once[p] \notin ToSet(Static)
  OBVIOUS
<1> HIDE DEF J
<1>9. /\ extra \in Seq(S) /\ Len(extra) <= Len(once) /\ Distinct(extra)
      /\ \A j \in 1 .. Len(extra) : \E p \in J : extra[j] = once[p]
  BY <1>6, <1>7, AtKeeps
<1> HIDE DEF extra
<1>10. ToSet(extra) \cap ToSet(Static) = {}
  BY <1>8, <1>9 DEF ToSet
<1>11. Len(extra) \in Nat /\ Len(once) \in Nat
  BY <1>6, <1>9
<1>12. Len(extra) <= CorroborationLimit + SpikeLimit + AdjacencyLimit
  <2>1. CorroborationLimit + SpikeLimit + AdjacencyLimit \in Nat
    BY PlannerAssumption
  <2> QED
    BY <1>1, <1>3, <1>6, <1>9, <1>11, <2>1
<1> QED
  BY <1>2, <1>9, <1>10, <1>12 DEF S

LEMMA ConcatParts ==
    ASSUME NEW S, NEW s \in Seq(S), NEW t \in Seq(S)
    PROVE  /\ IsPrefix(s, s \o t)
           /\ SubSeq(s \o t, Len(s) + 1, Len(s \o t)) = t
<1> DEFINE u == s \o t
           v == SubSeq(u, Len(s) + 1, Len(u))
<1>1. /\ u \in Seq(S) /\ Len(u) = Len(s) + Len(t) /\ Len(s) \in Nat /\ Len(t) \in Nat
      /\ \A i \in 1 .. Len(s) + Len(t) : u[i] = IF i <= Len(s) THEN s[i] ELSE t[i - Len(s)]
  BY ConcatProperties
<1> HIDE DEF u
<1>2. SubSeq(u, 1, Len(s)) = SubSeq(s, 1, Len(s))
  BY <1>1
<1>3. v = t
  <2>1. v = [i \in 1 .. Len(t) |-> u[i + Len(s)]]
    BY <1>1
  <2>2. \A i \in 1 .. Len(t) : u[i + Len(s)] = t[i]
    BY <1>1
  <2>3. t = [i \in 1 .. Len(t) |-> t[i]]
    OBVIOUS
  <2> QED
    BY <2>1, <2>2, <2>3
<1> QED
  BY <1>1, <1>2, <1>3 DEF IsPrefix, u

\* A sequence without repetitions has as many elements as places.
LEMMA DistinctCounts ==
    ASSUME NEW S, NEW s \in Seq(S), Distinct(s)
    PROVE  Cardinality(ToSet(s)) = Len(s)
<1> DEFINE n == Len(s)
<1>1. n \in Nat /\ s \in [1 .. n -> S] /\ DOMAIN s = 1 .. n
  OBVIOUS
<1>2. IsFiniteSet(1 .. n) /\ Cardinality(1 .. n) = n
  BY <1>1, FS_Interval
<1>3. s \in [1 .. n -> ToSet(s)]
  BY <1>1 DEF ToSet
<1>4. \A x \in ToSet(s) : \E i \in 1 .. n : s[i] = x
  BY <1>1 DEF ToSet
<1>5. \A i, k \in 1 .. n : s[i] = s[k] => i = k
  BY DEF Distinct
<1> HIDE DEF n
<1>6. s \in Surjection(1 .. n, ToSet(s))
  BY <1>3, <1>4 DEF Surjection
<1>7. s \in Injection(1 .. n, ToSet(s))
  BY <1>3, <1>5 DEF Injection, IsInjective
<1> QED
  BY <1>2, <1>6, <1>7, FS_Surjection DEF n

-----------------------------------------------------------------------------
(* The theorems                                                            *)

\* What the requests agree on, which is inductive.
RequestsOK ==
    TableOK /\ Unasked /\ EvidenceSoFar /\ PageSoFar /\ PlanSoFar

LEMMA RequestsInvariant == PlannerSpec => []RequestsOK
<1>1. Init => RequestsOK
  BY FS_EmptySet, NoAnswers
     DEF Init, RequestsOK, TableOK, Unasked, EvidenceSoFar, PageSoFar, PlanSoFar
<1>2. RequestsOK /\ [PlannerNext]_vars => RequestsOK'
  BY TableStep, UnaskedStep, EvidenceStep, PageStep, PlanStep DEF RequestsOK
<1> QED
  BY <1>1, <1>2, PTL DEF PlannerSpec

\* The requests alone are the requests beside a planner that is never asked,
\* so that what holds with it holds without it.
LEMMA MentionsAreBeside == Spec => PlannerSpec
<1>1. [Next]_vars => [PlannerNext]_vars
  BY DEF PlannerNext
<1> QED
  BY <1>1, PTL DEF Spec, PlannerSpec

\* The evidence of a forecast adds up, however many mentions come in and days
\* go by between its two queries.
THEOREM EvidenceAddsHolds == PlannerSpec => []EvidenceAdds
<1>1. RequestsOK => EvidenceAdds
  BY DEF RequestsOK, EvidenceSoFar, EvidenceAdds
<1> QED
  BY <1>1, RequestsInvariant, PTL

\* The page's weekly counts agree with the figures of its ranking, for any
\* number of concepts and any window.
THEOREM PreviewAgreesHolds == PlannerSpec => []PreviewAgrees
<1>1. RequestsOK => PreviewAgrees
  BY DEF RequestsOK, PageSoFar, WeeksAgree, PreviewAgrees
<1> QED
  BY <1>1, RequestsInvariant, PTL

\* Both hold of the requests on their own.
THEOREM MentionsReadTruly == Spec => [](EvidenceAdds /\ PreviewAgrees)
BY MentionsAreBeside, EvidenceAddsHolds, PreviewAgreesHolds, PTL

\* The pool is the curated list, whole and first, with at most the sum of the
\* limits beside it and no repetition, whichever strategies fail.
THEOREM FairShareHolds == PlannerSpec => []FairShare
<1>1. ASSUME PlanSoFar PROVE FairShare
  <2>1. SUFFICES ASSUME Planned
                 PROVE  LET extra == SubSeq(Pool, Len(Static) + 1, Len(Pool))
                        IN  /\ IsPrefix(Static, Pool)
                            /\ Len(extra) <= CorroborationLimit + SpikeLimit + AdjacencyLimit
                            /\ ToSet(extra) \cap ToSet(Static) = {}
                            /\ Cardinality(ToSet(extra)) = Len(extra)
    BY DEF FairShare
  <2>2. PICK more \in Seq(AllTexts) :
              /\ Pool = Static \o more
              /\ Len(more) <= CorroborationLimit + SpikeLimit + AdjacencyLimit
              /\ ToSet(more) \cap ToSet(Static) = {}
              /\ Distinct(more)
    BY <1>1, <2>1, PoolIsFair
  <2> DEFINE Q == AllTexts \cup ToSet(Static)
  <2>3. Static \in Seq(ToSet(Static))
    BY PlannerAssumption
  <2>4. Static \in Seq(Q) /\ more \in Seq(Q)
    BY <2>3
  <2> HIDE DEF Q
  <2>5. IsPrefix(Static, Pool) /\ SubSeq(Pool, Len(Static) + 1, Len(Pool)) = more
    BY <2>2, <2>4, ConcatParts
  <2>6. Cardinality(ToSet(more)) = Len(more)
    BY <2>2, DistinctCounts
  <2> QED
    BY <2>2, <2>5, <2>6
<1>2. RequestsOK => FairShare
  BY <1>1 DEF RequestsOK
<1> QED
  BY <1>2, RequestsInvariant, PTL

\* A concept that is searched for as mentioned once and as mentioned more and
\* more was mentioned in between, whatever else happened.
THEOREM OneReasonEachHolds == PlannerSpec => []OneReasonEach
<1>1. ASSUME PlanSoFar PROVE OneReasonEach
  <2>1. SUFFICES ASSUME Planned, NEW c \in Concepts,
                        Text("corroboration", c) \in ToSet(Derived),
                        Text("spikes", c) \in ToSet(Derived)
                 PROVE  c \in changed
    BY DEF OneReasonEach
  <2>2. /\ Text("corroboration", c) \in ToSet(got[1])
        /\ Text("spikes", c) \in ToSet(got[2])
    BY <1>1, <2>1, DerivedTexts
  <2> QED
    BY <1>1, <2>1, <2>2 DEF PlanSoFar, Planned
<1>2. RequestsOK => OneReasonEach
  BY <1>1 DEF RequestsOK
<1> QED
  BY <1>2, RequestsInvariant, PTL
=============================================================================
