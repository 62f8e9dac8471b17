--------------------------- MODULE ForecastsProofs ---------------------------
(***************************************************************************)
(* Forecasts, proved for any concepts, runs, top_n, cooldown and depth cap *)
(* and every combination of faults.                                        *)
(***************************************************************************)
EXTENDS Forecasts, FiniteSetTheorems, WellFoundedInduction, TLAPS

-----------------------------------------------------------------------------
(* Induction over the natural numbers, as a statement about a set          *)

\* The order of the numbers, as a relation.
Before == {mn \in Nat \X Nat : mn[1] < mn[2]}

LEMMA BeforeIsWellFounded == IsWellFoundedOn(Before, Nat)
<1>1. OpToRel(<, Nat) = Before
  BY DEF OpToRel, Before
<1> QED
  BY <1>1, NatLessThanWellFounded, Zenon

\* A set that has 0, and below a bound the successor of each of its members,
\* has every number up to the bound.
LEMMA UpToInduction ==
    ASSUME NEW top \in Nat, NEW S, 0 \in S,
           \A n \in 0 .. top : n \in S /\ n < top => n + 1 \in S
    PROVE  0 .. top \subseteq S
<1> DEFINE Missing == {n \in 0 .. top : n \notin S}
<1>1. SUFFICES ASSUME Missing # {} PROVE FALSE
  OBVIOUS
<1>2. Missing \in SUBSET Nat
  OBVIOUS
<1>3. PICK m \in Missing : \A n \in Missing : ~(<<n, m>> \in Before)
  <2> HIDE DEF Missing
  <2> QED
    BY <1>1, <1>2, BeforeIsWellFounded, WFMin
<1>4. m \in Nat /\ m # 0 /\ m <= top
  BY <1>3
<1>5. m - 1 \in 0 .. top /\ m - 1 < top /\ <<m - 1, m>> \in Before
  BY <1>4 DEF Before
<1>6. m - 1 \in S
  BY <1>3, <1>5
<1> QED
  BY <1>3, <1>4, <1>5, <1>6

-----------------------------------------------------------------------------
(* What gathering the results of the subtasks computes                     *)

\* Gathered is the function its recursion describes.
LEMMA GatheredRecurs ==
    ASSUME NEW results \in Seq(Results)
    PROVE  Gathered(results) =
              [i \in 0 .. Len(results) |->
                  IF i = 0 THEN <<>> ELSE Gathered(results)[i - 1] \o results[i].names]
<1> DEFINE Next1(f, i) == IF i = 0 THEN <<>> ELSE f[i - 1] \o results[i].names
           Recurs(f, n) == f = [i \in 0 .. n |-> Next1(f, i)]
           Known == {n \in Nat : \E f : Recurs(f, n)}
<1>1. Len(results) \in Nat
  OBVIOUS
<1>2. 0 \in Known
  <2>1. Recurs([i \in 0 .. 0 |-> <<>>], 0)
    OBVIOUS
  <2> QED
    BY <2>1
<1>3. ASSUME NEW n \in 0 .. Len(results), n \in Known PROVE n + 1 \in Known
  <2>1. PICK f : Recurs(f, n)
    BY <1>3
  <2> DEFINE g == [i \in 0 .. n + 1 |-> IF i = n + 1 THEN Next1(f, i) ELSE f[i]]
  <2>2. ASSUME NEW i \in 0 .. n + 1 PROVE g[i] = Next1(g, i)
    <3>1. CASE i = n + 1
      <4>1. g[i] = Next1(f, i) /\ g[i - 1] = f[i - 1]
        BY <3>1, <1>3
      <4> QED
        BY <4>1
    <3>2. CASE i # n + 1
      <4>1. i \in 0 .. n /\ g[i] = f[i]
        BY <3>2
      <4>2. f[i] = Next1(f, i)
        BY <4>1, <2>1
      <4>3. i # 0 => g[i - 1] = f[i - 1]
        BY <4>1
      <4> QED
        BY <4>1, <4>2, <4>3
    <3> QED
      BY <3>1, <3>2
  <2>3. Recurs(g, n + 1)
    BY <2>2
  <2>4. \E h : Recurs(h, n + 1)
    <3> HIDE DEF Recurs, g
    <3> QED
      BY <2>3
  <2> QED
    BY <1>3, <2>4
<1>4. Len(results) \in Known
  <2> DEFINE top == Len(results)
  <2>1. top \in Nat /\ 0 \in Known /\ \A n \in 0 .. top : n \in Known /\ n < top => n + 1 \in Known
    BY <1>1, <1>2, <1>3
  <2> HIDE DEF Known, top
  <2>2. 0 .. top \subseteq Known
    BY <2>1, UpToInduction
  <2> QED
    BY <2>1, <2>2 DEF top
<1>5. \E f : Recurs(f, Len(results))
  BY <1>4
<1>6. Gathered(results) = CHOOSE f : Recurs(f, Len(results))
  BY DEF Gathered
<1> QED
  <2> HIDE DEF Recurs
  <2>1. Recurs(Gathered(results), Len(results))
    BY <1>5, <1>6
  <2> QED
    BY <2>1 DEF Recurs

\* Nothing is gathered before the first result, and each adds its own names.
LEMMA GatheredSteps ==
    ASSUME NEW results \in Seq(Results)
    PROVE  /\ Gathered(results)[0] = <<>>
           /\ \A i \in 0 .. Len(results) : i < Len(results) =>
                  Gathered(results)[i + 1] = Gathered(results)[i] \o results[i + 1].names
<1>1. Len(results) \in Nat
  OBVIOUS
<1> DEFINE G == Gathered(results)
<1>2. G = [i \in 0 .. Len(results) |-> IF i = 0 THEN <<>> ELSE G[i - 1] \o results[i].names]
  BY GatheredRecurs
<1> HIDE DEF G
<1>3. G[0] = <<>>
  BY <1>1, <1>2
<1>4. ASSUME NEW i \in 0 .. Len(results), i < Len(results)
      PROVE  G[i + 1] = G[i] \o results[i + 1].names
  <2>1. i + 1 \in 0 .. Len(results) /\ i + 1 # 0 /\ (i + 1) - 1 = i
    BY <1>1, <1>4
  <2> QED
    BY <1>2, <2>1
<1> QED
  BY <1>3, <1>4 DEF G

LEMMA FlatTypes ==
    ASSUME NEW results \in Seq(Results)
    PROVE  Flat(results) \in Seq(Concepts)
<1> DEFINE G == Gathered(results)
           top == Len(results)
           Typed == {i \in Nat : G[i] \in Seq(Concepts)}
<1>1. top \in Nat
  OBVIOUS
<1>2. G[0] = <<>> /\ \A i \in 0 .. top : i < top => G[i + 1] = G[i] \o results[i + 1].names
  BY GatheredSteps
<1>3. \A i \in 0 .. top : i < top => results[i + 1].names \in Seq(Concepts)
  <2>1. ASSUME NEW i \in 0 .. top, i < top PROVE results[i + 1].names \in Seq(Concepts)
    <3>1. results[i + 1] \in Results
      BY <2>1
    <3> QED
      BY <3>1 DEF Results
  <2> QED
    BY <2>1
<1> HIDE DEF G, top
<1>4. 0 \in Typed
  <2>1. <<>> \in Seq(Concepts)
    OBVIOUS
  <2> QED
    BY <1>2, <2>1
<1>5. \A i \in 0 .. top : i \in Typed /\ i < top => i + 1 \in Typed
  <2>1. ASSUME NEW i \in 0 .. top, NEW so_far, so_far = G[i],
               so_far \in Seq(Concepts), i < top
        PROVE  i + 1 \in Nat /\ G[i + 1] \in Seq(Concepts)
    <3> DEFINE names == results[i + 1].names
    <3>1. names \in Seq(Concepts) /\ G[i + 1] = so_far \o names
      BY <1>2, <1>3, <2>1
    <3> HIDE DEF names
    <3>2. so_far \o names \in Seq(Concepts)
      BY <2>1, <3>1
    <3> QED
      BY <1>1, <2>1, <3>1, <3>2
  <2> QED
    BY <2>1
<1>6. 0 .. top \subseteq Typed
  <2> HIDE DEF Typed
  <2> QED
    BY <1>1, <1>4, <1>5, UpToInduction
<1>7. G[top] \in Seq(Concepts)
  BY <1>1, <1>6
<1> QED
  BY <1>7 DEF Flat, G, top

\* When each result that is no error has one name and each error none, as many
\* names are gathered as there are results that are no errors.
LEMMA FlatCounts ==
    ASSUME NEW results \in Seq(Results),
           \A i \in 1 .. Len(results) :
               Len(results[i].names) = IF results[i].ok THEN 1 ELSE 0
    PROVE  Len(Flat(results)) = Cardinality({i \in 1 .. Len(results) : results[i].ok})
<1> DEFINE G == Gathered(results)
           top == Len(results)
           Good(i) == {j \in 1 .. i : results[j].ok}
           Counts(i) == /\ G[i] \in Seq(Concepts) /\ IsFiniteSet(Good(i))
                        /\ Len(G[i]) = Cardinality(Good(i))
           Counted == {i \in Nat : Counts(i)}
<1>1. top \in Nat
  OBVIOUS
<1>2. G[0] = <<>> /\ \A i \in 0 .. top : i < top => G[i + 1] = G[i] \o results[i + 1].names
  BY GatheredSteps
<1>3. Counts(0)
  <2>1. Good(0) = {}
    OBVIOUS
  <2> HIDE DEF Good, G
  <2> QED
    BY <1>2, <2>1, FS_EmptySet
<1>4. ASSUME NEW i \in 0 .. top, Counts(i), i < top PROVE Counts(i + 1)
  <2> DEFINE names == results[i + 1].names
  <2>1. i + 1 \in 1 .. top /\ results[i + 1] \in Results
    BY <1>1, <1>4
  <2>2. names \in Seq(Concepts)
    BY <2>1 DEF Results
  <2>3. Len(names) = IF results[i + 1].ok THEN 1 ELSE 0
    BY <2>1
  <2>4. G[i + 1] = G[i] \o names
    BY <1>2, <1>4
  <2>5. G[i + 1] \in Seq(Concepts) /\ Len(G[i + 1]) = Len(G[i]) + Len(names)
    <3> DEFINE so_far == G[i]
    <3>1. so_far \in Seq(Concepts) /\ G[i + 1] = so_far \o names
      BY <1>4, <2>4
    <3> HIDE DEF G, names, so_far
    <3>2. so_far \o names \in Seq(Concepts) /\ Len(so_far \o names) = Len(so_far) + Len(names)
      BY <2>2, <3>1
    <3> QED
      BY <3>1, <3>2 DEF so_far
  <2>6. CASE results[i + 1].ok
    <3>1. Good(i + 1) = Good(i) \cup {i + 1} /\ i + 1 \notin Good(i)
      BY <2>1, <2>6
    <3>2. Len(names) = 1
      BY <2>3, <2>6
    <3> HIDE DEF Good, G, names
    <3>3. IsFiniteSet(Good(i + 1)) /\ Cardinality(Good(i + 1)) = Cardinality(Good(i)) + 1
      BY <1>4, <3>1, FS_AddElement
    <3> QED
      BY <1>4, <2>5, <3>2, <3>3
  <2>7. CASE ~results[i + 1].ok
    <3>1. Good(i + 1) = Good(i)
      BY <2>1, <2>7
    <3>2. Len(names) = 0
      BY <2>3, <2>7
    <3> HIDE DEF Good, G, names
    <3> QED
      BY <1>4, <2>5, <3>1, <3>2
  <2> QED
    BY <2>6, <2>7
<1> HIDE DEF Counts
<1>5. 0 \in Counted
  BY <1>3
<1>6. \A i \in 0 .. top : i \in Counted /\ i < top => i + 1 \in Counted
  BY <1>1, <1>4
<1>7. 0 .. top \subseteq Counted
  <2> HIDE DEF Counted, top
  <2> QED
    BY <1>1, <1>5, <1>6, UpToInduction
<1>8. Counts(top)
  BY <1>1, <1>7
<1> QED
  BY <1>8 DEF Flat, Counts

-----------------------------------------------------------------------------
(* What the invocations of a run agree on                                  *)

\* What a caller may make of a subtask's result: one of a concept is its
\* forecast or an error without one.
Accounts(result, task) ==
    task.kind = "concept" =>
        result.names = IF result.ok THEN <<task.name>> ELSE <<>>

\* A concept's task names it and is never planned; the subtasks of a top_n
\* task are concepts; results come in the order of the subtasks, and aggregate
\* has them all.
FrameOK(f) ==
    /\ f.task.kind = "concept" => f.task.name \in Concepts /\ f.subtasks = <<>>
    /\ f.node \in {"atomize", "plan"} => f.subtasks = <<>>
    /\ \A i \in 1 .. Len(f.subtasks) :
            /\ f.task.kind = "top_n" => f.subtasks[i].kind = "concept"
            /\ f.subtasks[i].kind = "concept" => f.subtasks[i].name \in Concepts
    /\ Len(f.results) <= Len(f.subtasks)
    /\ f.node = "aggregate" => Len(f.results) = Len(f.subtasks)
    /\ \A i \in 1 .. Len(f.results) : Accounts(f.results[i], f.subtasks[i])

\* f waits inside execute for g, the invocation for its next subtask.
Waiting(f, g) ==
    /\ f.node = "execute" /\ Len(f.results) < Len(f.subtasks)
    /\ g.task = f.subtasks[Len(f.results) + 1]

StackOK(s) ==
    /\ s \in Seq(Frames)
    /\ \A d \in 1 .. Len(s) : FrameOK(s[d])
    /\ \A d \in 1 .. Len(s) - 1 : Waiting(s[d], s[d + 1])

\* The innermost frame moves on, with the same task.
LEMMA TopMoves ==
    ASSUME NEW s, StackOK(s), s # <<>>, NEW f \in Frames, FrameOK(f),
           f.task = s[Len(s)].task, NEW t, t = [s EXCEPT ![Len(s)] = f]
    PROVE  StackOK(t) /\ Len(t) = Len(s) /\ t[1].task = s[1].task
<1>1. Len(s) \in Nat /\ Len(s) > 0 /\ s \in Seq(Frames)
  BY DEF StackOK
<1>2. t \in Seq(Frames) /\ Len(t) = Len(s) /\ t[Len(s)] = f
  BY <1>1
<1>3. \A d \in 1 .. Len(s) : d # Len(s) => t[d] = s[d]
  BY <1>1
<1>4. \A d \in 1 .. Len(s) : FrameOK(t[d])
  BY <1>2, <1>3 DEF StackOK
<1>5. ASSUME NEW d \in 1 .. Len(s) PROVE t[d].task = s[d].task
  <2>1. CASE d = Len(s)
    BY <1>2, <2>1
  <2>2. CASE d # Len(s)
    BY <1>3, <2>2
  <2> QED
    BY <2>1, <2>2
<1>6. ASSUME NEW d \in 1 .. Len(s) - 1 PROVE Waiting(t[d], t[d + 1])
  <2>1. d \in 1 .. Len(s) /\ d # Len(s) /\ d + 1 \in 1 .. Len(s)
    BY <1>1
  <2>2. Waiting(s[d], s[d + 1]) /\ t[d] = s[d] /\ t[d + 1].task = s[d + 1].task
    BY <1>3, <1>5, <2>1 DEF StackOK
  <2> QED
    BY <2>2 DEF Waiting
<1>7. t[1].task = s[1].task
  BY <1>1, <1>5
<1> QED
  BY <1>2, <1>4, <1>6, <1>7 DEF StackOK

\* execute invokes the graph for its next subtask.
LEMMA InvokeMoves ==
    ASSUME NEW s, StackOK(s), s # <<>>, NEW g \in Frames, FrameOK(g),
           Waiting(s[Len(s)], g), NEW t, t = Append(s, g)
    PROVE  StackOK(t) /\ Len(t) = Len(s) + 1 /\ t[1].task = s[1].task
<1>1. Len(s) \in Nat /\ Len(s) > 0 /\ s \in Seq(Frames)
  BY DEF StackOK
<1>2. /\ t \in Seq(Frames) /\ Len(t) = Len(s) + 1 /\ t[Len(s) + 1] = g
      /\ \A d \in 1 .. Len(s) : t[d] = s[d]
  BY <1>1
<1>3. ASSUME NEW d \in 1 .. Len(t) PROVE FrameOK(t[d])
  <2>1. CASE d = Len(s) + 1
    BY <1>2, <2>1
  <2>2. CASE d # Len(s) + 1
    <3>1. d \in 1 .. Len(s)
      BY <1>1, <1>2, <2>2
    <3> QED
      BY <1>2, <3>1 DEF StackOK
  <2> QED
    BY <2>1, <2>2
<1>4. ASSUME NEW d \in 1 .. Len(t) - 1 PROVE Waiting(t[d], t[d + 1])
  <2>1. CASE d = Len(s)
    BY <1>1, <1>2, <2>1
  <2>2. CASE d # Len(s)
    <3>1. d \in 1 .. Len(s) - 1 /\ d \in 1 .. Len(s) /\ d + 1 \in 1 .. Len(s)
      BY <1>1, <1>2, <2>2
    <3> QED
      BY <1>2, <3>1 DEF StackOK
  <2> QED
    BY <2>1, <2>2
<1> QED
  BY <1>1, <1>2, <1>3, <1>4 DEF StackOK

\* What a caller that waited has once the result is there.
LEMMA CallerGoesOn ==
    ASSUME NEW f \in Frames, FrameOK(f), NEW g, Waiting(f, g),
           NEW result \in Results, Accounts(result, g.task),
           NEW h, h = [f EXCEPT !.results = Append(@, result)]
    PROVE  h \in Frames /\ FrameOK(h) /\ h.task = f.task
<1>1. /\ f.results \in Seq(Results) /\ f.subtasks \in Seq(Tasks)
      /\ Len(f.results) \in Nat /\ Len(f.subtasks) \in Nat
  BY DEF Frames
<1>2. /\ h.results = Append(f.results, result) /\ h.subtasks = f.subtasks
      /\ h.task = f.task /\ h.node = "execute" /\ h \in Frames
  <2> DEFINE results == Append(f.results, result)
  <2>1. results \in Seq(Results)
    BY <1>1
  <2> HIDE DEF results
  <2>2. h = [f EXCEPT !.results = results]
    BY DEF results
  <2>3. f.node = "execute"
    BY DEF Waiting
  <2>4. h.results = results /\ h.subtasks = f.subtasks /\ h.task = f.task /\ h.node = f.node
        /\ h \in Frames
    BY <2>1, <2>2 DEF Frames
  <2> QED
    BY <2>3, <2>4 DEF results
<1>3. /\ Len(h.results) = Len(f.results) + 1
      /\ h.results[Len(f.results) + 1] = result
      /\ \A i \in 1 .. Len(f.results) : h.results[i] = f.results[i]
  BY <1>1, <1>2
<1>4. ASSUME NEW i \in 1 .. Len(h.results)
      PROVE  Accounts(h.results[i], h.subtasks[i])
  <2>1. CASE i = Len(f.results) + 1
    BY <1>2, <1>3, <2>1 DEF Waiting
  <2>2. CASE i # Len(f.results) + 1
    <3>1. i \in 1 .. Len(f.results)
      BY <1>1, <1>3, <2>2
    <3> QED
      BY <1>2, <1>3, <3>1 DEF FrameOK
  <2> QED
    BY <2>1, <2>2
<1>5. Len(h.results) <= Len(h.subtasks)
  BY <1>1, <1>2, <1>3 DEF Waiting
<1> QED
  BY <1>2, <1>4, <1>5 DEF FrameOK

\* The innermost invocation is over and its caller goes on.
LEMMA ReturnMoves ==
    ASSUME NEW s, StackOK(s), NEW n \in Nat, n > 0, Len(s) = n + 1,
           NEW h \in Frames, FrameOK(h), h.task = s[n].task
    PROVE  /\ StackOK(Append(SubSeq(s, 1, n - 1), h))
           /\ Append(SubSeq(s, 1, n - 1), h)[1].task = s[1].task
<1> DEFINE t == Append(SubSeq(s, 1, n - 1), h)
<1>1. s \in Seq(Frames)
  BY DEF StackOK
<1>2. /\ t \in Seq(Frames) /\ Len(t) = n /\ t[n] = h
      /\ \A d \in 1 .. n - 1 : t[d] = s[d]
  <2> DEFINE u == SubSeq(s, 1, n - 1)
  <2>1. u \in Seq(Frames) /\ Len(u) = n - 1 /\ \A d \in 1 .. n - 1 : u[d] = s[d]
    BY <1>1
  <2> HIDE DEF u
  <2>2. t = Append(u, h)
    BY DEF u
  <2> QED
    BY <1>1, <2>1, <2>2
<1>3. ASSUME NEW d \in 1 .. n PROVE FrameOK(t[d]) /\ t[d].task = s[d].task
  <2>1. CASE d = n
    BY <1>2, <2>1
  <2>2. CASE d # n
    <3>1. d \in 1 .. n - 1 /\ d \in 1 .. Len(s)
      BY <1>1, <2>2
    <3> QED
      BY <1>2, <3>1 DEF StackOK
  <2> QED
    BY <2>1, <2>2
<1>4. ASSUME NEW d \in 1 .. n - 1 PROVE Waiting(t[d], t[d + 1])
  <2>1. d \in 1 .. Len(s) - 1 /\ d + 1 \in 1 .. n
    BY <1>1
  <2>2. Waiting(s[d], s[d + 1]) /\ t[d] = s[d] /\ t[d + 1].task = s[d + 1].task
    BY <1>2, <1>3, <2>1 DEF StackOK
  <2> QED
    BY <2>2 DEF Waiting
<1>5. t[1].task = s[1].task
  BY <1>1, <1>3
<1> QED
  BY <1>1, <1>2, <1>3, <1>4, <1>5 DEF StackOK

-----------------------------------------------------------------------------
(* Types                                                                   *)

\* What the proofs use of the constants.
LEMMA Settings ==
    /\ TopN \in Nat \ {0} /\ Cooldown \in Nat /\ Cooldown > 0 /\ MaxMentions \in Nat
    /\ \A r \in Runs : Kind[r] \in Kinds
    /\ IsFiniteSet(Concepts)
BY ForecastsAssumption

\* What a run's outermost invocation is about, and what it returned.
RunOK(r) ==
    /\ StackOK(stack[r])
    /\ stack[r] # <<>> => stack[r][1].task.kind = Kind[r]
    /\ Kind[r] = "concept" /\ final[r] # NotYet =>
            \E c \in Concepts : final[r].names = <<c>>

Typed == TypeOK /\ \A r \in Runs : RunOK(r)

\* A selection is a list of eligible concepts, and not empty when there are any.
LEMMA SelectionTypes ==
    ASSUME NEW n \in Nat \ {0}, NEW s \in Selections(n)
    PROVE  /\ s \in Seq(Concepts) /\ \A i \in 1 .. Len(s) : s[i] \in Eligible
           /\ Eligible # {} => s[1] \in Eligible
<1> DEFINE E == Eligible
           Long == IF Cardinality(E) < n THEN Cardinality(E) ELSE n
<1>1. IsFiniteSet(E) /\ E \in SUBSET Concepts
  <2>1. E \in SUBSET Concepts
    BY DEF Eligible
  <2> QED
    BY <2>1, Settings, FS_Subset
<1>2. s \in [1 .. Long -> E]
  BY DEF Selections
<1> HIDE DEF E
<1>3. Cardinality(E) \in Nat /\ (E # {} => Cardinality(E) # 0)
  BY <1>1, FS_CardinalityType, FS_EmptySet
<1>4. Long \in Nat /\ (E # {} => 1 \in 1 .. Long)
  BY <1>3
<1> HIDE DEF Long
<1>5. s \in Seq(Concepts) /\ Len(s) = Long
  BY <1>1, <1>2, <1>4
<1>6. E # {} => s[1] \in E
  BY <1>2, <1>4
<1>7. \A i \in 1 .. Len(s) : s[i] \in E
  BY <1>2, <1>5
<1> QED
  BY <1>5, <1>6, <1>7 DEF E

\* The innermost invocation.
LEMMA TopTypes ==
    ASSUME NEW s, StackOK(s), s # <<>>
    PROVE  /\ Len(s) \in Nat /\ Len(s) > 0
           /\ s[Len(s)] \in Frames /\ FrameOK(s[Len(s)])
           /\ s[1] \in Frames /\ FrameOK(s[1])
<1>1. s \in Seq(Frames) /\ Len(s) \in Nat /\ Len(s) > 0
  BY DEF StackOK
<1> QED
  BY <1>1 DEF StackOK

\* The invocation of a task.
LEMMA InvocationTypes ==
    ASSUME NEW task \in Tasks, task.kind = "concept" => task.name \in Concepts
    PROVE  /\ Invocation(task) \in Frames /\ FrameOK(Invocation(task))
           /\ Invocation(task).task = task
<1> DEFINE f == Invocation(task)
<1>1. /\ f.task = task /\ f.node = "atomize" /\ f.subtasks = <<>> /\ f.results = <<>>
      /\ f \in Frames
  BY DEF Invocation, Frames, Qualities
<1> HIDE DEF f
<1>2. FrameOK(f)
  BY <1>1 DEF FrameOK
<1> QED
  BY <1>1, <1>2 DEF f

\* What a step of the graph does to the run: its outermost task stays, or is
\* over; a concept's task then leaves a forecast of that concept.
GraphMove(r) ==
    /\ stack[r] # <<>>
    /\ stack' \in [Runs -> Seq(Frames)]
    /\ \A q \in Runs \ {r} : stack'[q] = stack[q]
    /\ StackOK(stack'[r])
    /\ stack'[r] # <<>> => stack'[r][1].task = stack[r][1].task
    /\ \/ final' = final
       \/ \E result \in Results :
            /\ final' = [final EXCEPT ![r] = result]
            /\ Kind[r] = "concept" =>
                    result.names = <<stack[r][1].task.name>>
    /\ UNCHANGED <<tables, reported>>
    /\ ran' \in SUBSET Runs

\* A step inside the innermost invocation.
LEMMA SetTopMoves ==
    ASSUME Typed, NEW r \in Runs, stack[r] # <<>>, NEW f \in Frames, FrameOK(f),
           f.task = Top(r).task, SetTop(r, f), UNCHANGED <<tables, final, reported, ran>>
    PROVE  GraphMove(r)
<1> DEFINE s == stack[r]
           t == [s EXCEPT ![Len(s)] = f]
<1>1. stack \in [Runs -> Seq(Frames)] /\ StackOK(s) /\ ran \in SUBSET Runs
  BY DEF Typed, TypeOK, RunOK
<1>2. stack' = [stack EXCEPT ![r] = t]
  BY DEF SetTop
<1>3. StackOK(t) /\ Len(t) = Len(s) /\ t[1].task = s[1].task
  <2> HIDE DEF s
  <2> SUFFICES ASSUME NEW u, u = [s EXCEPT ![Len(s)] = f]
               PROVE  StackOK(u) /\ Len(u) = Len(s) /\ u[1].task = s[1].task
    OBVIOUS
  <2> QED
    BY <1>1, TopMoves DEF s, Top
<1>4. t \in Seq(Frames)
  BY <1>3 DEF StackOK
<1> HIDE DEF t
<1> QED
  BY <1>1, <1>2, <1>3, <1>4 DEF GraphMove

LEMMA AtomizeMoves ==
    ASSUME Typed, NEW r \in Runs, Atomize(r)
    PROVE  GraphMove(r)
<1> DEFINE f == Top(r)
           node == IF IsAtomic(r) THEN "execute" ELSE "plan"
           g == [f EXCEPT !.node = node]
<1>1. stack[r] # <<>> /\ f.node = "atomize" /\ SetTop(r, g)
      /\ UNCHANGED <<tables, final, reported, ran>>
  BY DEF Atomize, At
<1>2. f \in Frames /\ FrameOK(f)
  BY <1>1, TopTypes DEF Typed, RunOK, Top
<1>3. node \in {"execute", "plan"}
  OBVIOUS
<1> HIDE DEF f, node
<1>4. /\ g \in Frames /\ g.task = f.task /\ g.subtasks = f.subtasks
      /\ g.results = f.results /\ g.node = node
  BY <1>2, <1>3 DEF Frames
<1> HIDE DEF g
<1>5. FrameOK(g)
  BY <1>1, <1>2, <1>3, <1>4 DEF FrameOK
<1> QED
  BY <1>1, <1>4, <1>5, SetTopMoves DEF f

\* Planning gives an invocation subtasks it had none of before.
LEMMA PlannedMoves ==
    ASSUME Typed, NEW r \in Runs, At(r, "plan"), NEW subtasks \in Seq(Tasks),
           Top(r).task.kind # "concept", Planned(r, subtasks),
           UNCHANGED <<tables, final, reported, ran>>,
           \A i \in 1 .. Len(subtasks) :
               /\ Top(r).task.kind = "top_n" => subtasks[i].kind = "concept"
               /\ subtasks[i].kind = "concept" => subtasks[i].name \in Concepts
    PROVE  GraphMove(r)
<1> DEFINE f == Top(r)
           node == IF subtasks = <<>> THEN "aggregate" ELSE "execute"
           g == [f EXCEPT !.subtasks = subtasks, !.node = node]
<1>1. stack[r] # <<>> /\ f.node = "plan" /\ SetTop(r, g)
  BY DEF At, Planned
<1>2. f \in Frames /\ FrameOK(f)
  BY <1>1, TopTypes DEF Typed, RunOK, Top
<1>3. node \in {"execute", "aggregate"} /\ (node = "aggregate" => Len(subtasks) = 0)
  OBVIOUS
<1>4. f.task.kind # "concept"
      /\ \A i \in 1 .. Len(subtasks) :
               /\ f.task.kind = "top_n" => subtasks[i].kind = "concept"
               /\ subtasks[i].kind = "concept" => subtasks[i].name \in Concepts
  OBVIOUS
<1> HIDE DEF f, node
<1>5. /\ g \in Frames /\ g.task = f.task /\ g.subtasks = subtasks
      /\ g.results = f.results /\ g.node = node
  BY <1>2, <1>3 DEF Frames
<1> HIDE DEF g
<1>6. Len(f.results) = 0
  <2>1. f.results \in Seq(Results) /\ f.subtasks = <<>>
    BY <1>1, <1>2 DEF Frames, FrameOK
  <2> QED
    BY <1>2, <2>1 DEF FrameOK
<1>7. FrameOK(g)
  BY <1>3, <1>4, <1>5, <1>6 DEF FrameOK
<1> QED
  BY <1>1, <1>5, <1>7, SetTopMoves DEF f

LEMMA PlanMoves ==
    ASSUME Typed, NEW r \in Runs, Plan(r)
    PROVE  GraphMove(r)
<1>1. At(r, "plan") /\ UNCHANGED <<tables, final, reported, ran>>
  BY DEF Plan
<1>2. ASSUME Top(r).task.kind = "digest", Planned(r, <<DigestSubtask>>)
      PROVE  GraphMove(r)
  <2> DEFINE subtasks == <<DigestSubtask>>
  <2>1. DigestSubtask \in Tasks /\ DigestSubtask.kind = "top_n"
    BY DEF DigestSubtask, Tasks, Kinds
  <2>2. subtasks \in Seq(Tasks) /\ Len(subtasks) = 1 /\ subtasks[1] = DigestSubtask
    BY <2>1
  <2>3. Planned(r, subtasks)
    BY <1>2
  <2> HIDE DEF subtasks
  <2> QED
    BY <1>1, <1>2, <2>1, <2>2, <2>3, PlannedMoves
<1>3. ASSUME Top(r).task.kind = "top_n", NEW s \in Selections(TopN),
             Planned(r, [i \in 1 .. Len(s) |-> [kind |-> "concept", name |-> s[i]]])
      PROVE  GraphMove(r)
  <2> DEFINE subtasks == [i \in 1 .. Len(s) |-> [kind |-> "concept", name |-> s[i]]]
  <2>1. s \in Seq(Concepts)
    BY SelectionTypes, Settings
  <2>2. Len(s) \in Nat /\ \A i \in 1 .. Len(s) : s[i] \in Concepts
    BY <2>1
  <2>3. /\ subtasks \in Seq(Tasks) /\ Len(subtasks) = Len(s)
        /\ \A i \in 1 .. Len(s) : subtasks[i].kind = "concept" /\ subtasks[i].name \in Concepts
    BY <2>2 DEF Tasks, Kinds
  <2>4. Planned(r, subtasks)
    BY <1>3
  <2> HIDE DEF subtasks
  <2> QED
    BY <1>1, <1>3, <2>3, <2>4, PlannedMoves
<1>4. ASSUME Top(r).task.kind = "top_n", Planned(r, <<>>)
      PROVE  GraphMove(r)
  <2> DEFINE subtasks == <<>>
  <2>1. subtasks \in Seq(Tasks) /\ Len(subtasks) = 0 /\ Planned(r, subtasks)
    BY <1>4
  <2>2. Top(r).task.kind # "concept" /\ 1 .. Len(subtasks) = {}
    BY <1>4
  <2> HIDE DEF subtasks
  <2> QED
    BY <1>1, <2>1, <2>2, PlannedMoves
<1> QED
  BY <1>2, <1>3, <1>4 DEF Plan

LEMMA RecurseMoves ==
    ASSUME Typed, NEW r \in Runs, Recurse(r)
    PROVE  GraphMove(r)
<1> DEFINE s == stack[r]
           f == Top(r)
           next == f.subtasks[Len(f.results) + 1]
           g == Invocation(next)
           t == Append(s, g)
<1>1. /\ s # <<>> /\ f.node = "execute" /\ Len(f.results) < Len(f.subtasks)
      /\ stack' = [stack EXCEPT ![r] = t]
      /\ UNCHANGED <<tables, final, reported, ran>>
  BY DEF Recurse, At
<1>2. /\ stack \in [Runs -> Seq(Frames)] /\ StackOK(s) /\ ran \in SUBSET Runs
      /\ f \in Frames /\ FrameOK(f) /\ f = s[Len(s)]
  BY <1>1, TopTypes DEF Typed, TypeOK, RunOK, Top
<1> HIDE DEF f, s
<1>3. /\ next \in Tasks
      /\ Len(f.results) + 1 \in 1 .. Len(f.subtasks)
  BY <1>1, <1>2 DEF Frames
<1>4. next.kind = "concept" => next.name \in Concepts
  BY <1>2, <1>3 DEF FrameOK
<1> HIDE DEF next
<1>5. g \in Frames /\ FrameOK(g) /\ g.task = next
  BY <1>3, <1>4, InvocationTypes
<1>6. Waiting(f, g)
  BY <1>1, <1>5 DEF Waiting, next
<1> HIDE DEF g
<1>7. StackOK(t) /\ t[1].task = s[1].task
  BY <1>1, <1>2, <1>5, <1>6, InvokeMoves
<1>8. t \in Seq(Frames)
  BY <1>7 DEF StackOK
<1> HIDE DEF t
<1> QED
  BY <1>1, <1>2, <1>7, <1>8 DEF GraphMove, s

LEMMA RecursionDoneMoves ==
    ASSUME Typed, NEW r \in Runs, RecursionDone(r)
    PROVE  GraphMove(r)
<1> DEFINE f == Top(r)
           g == [f EXCEPT !.node = "aggregate"]
<1>1. /\ stack[r] # <<>> /\ Len(f.results) = Len(f.subtasks) /\ SetTop(r, g)
      /\ f.node = "execute" /\ UNCHANGED <<tables, final, reported, ran>>
  BY DEF RecursionDone, At
<1>2. f \in Frames /\ FrameOK(f)
  BY <1>1, TopTypes DEF Typed, RunOK, Top
<1> HIDE DEF f
<1>3. /\ g \in Frames /\ g.task = f.task /\ g.subtasks = f.subtasks
      /\ g.results = f.results /\ g.node = "aggregate"
  BY <1>2 DEF Frames
<1> HIDE DEF g
<1>4. FrameOK(g)
  BY <1>1, <1>2, <1>3 DEF FrameOK
<1> QED
  BY <1>1, <1>3, <1>4, SetTopMoves DEF f

LEMMA ExecuteAtomicMoves ==
    ASSUME Typed, NEW r \in Runs, ExecuteAtomic(r)
    PROVE  GraphMove(r)
<1> DEFINE f == Top(r)
<1>1. PICK q \in {"parsed", "fallback"} :
          SetTop(r, [f EXCEPT !.node = "aggregate", !.candidate = q])
  BY DEF ExecuteAtomic
<1> DEFINE g == [f EXCEPT !.node = "aggregate", !.candidate = q]
<1>2. /\ stack[r] # <<>> /\ f.subtasks = <<>> /\ SetTop(r, g)
      /\ f.node = "execute" /\ UNCHANGED <<tables, final, reported, ran>>
  BY <1>1 DEF ExecuteAtomic, At
<1>3. f \in Frames /\ FrameOK(f)
  BY <1>2, TopTypes DEF Typed, RunOK, Top
<1> HIDE DEF f
<1>4. /\ g \in Frames /\ g.task = f.task /\ g.subtasks = f.subtasks
      /\ g.results = f.results /\ g.node = "aggregate"
  BY <1>3 DEF Frames, Qualities
<1> HIDE DEF g
<1>5. Len(f.results) = Len(f.subtasks)
  <2>1. f.results \in Seq(Results) /\ Len(f.results) <= Len(f.subtasks)
    BY <1>3 DEF Frames, FrameOK
  <2> QED
    BY <1>2, <2>1
<1>6. FrameOK(g)
  BY <1>2, <1>3, <1>4, <1>5 DEF FrameOK
<1> QED
  BY <1>2, <1>4, <1>6, SetTopMoves DEF f

\* An invocation that returns a result which accounts for its task.
LEMMA ReturnsMove ==
    ASSUME Typed, NEW r \in Runs, stack[r] # <<>>, NEW result \in Results,
           Accounts(result, Top(r).task), Return(r, result),
           Kind[r] = "concept" /\ Len(stack[r]) = 1 =>
               result.names = <<Top(r).task.name>>,
           UNCHANGED <<tables, reported, ran>>
    PROVE  GraphMove(r)
<1> DEFINE s == stack[r]
<1>1. /\ stack \in [Runs -> Seq(Frames)] /\ StackOK(s) /\ ran \in SUBSET Runs
      /\ final \in [Runs -> Results]
      /\ Len(s) \in Nat /\ Len(s) > 0 /\ Top(r) = s[Len(s)]
  BY TopTypes DEF Typed, TypeOK, RunOK, Top
<1>2. CASE Len(s) = 1
  <2>1. stack' = [stack EXCEPT ![r] = <<>>] /\ final' = [final EXCEPT ![r] = result]
    BY <1>2 DEF Return
  <2>2. <<>> \in Seq(Frames) /\ StackOK(<<>>)
    BY DEF StackOK
  <2>3. Kind[r] = "concept" => result.names = <<s[1].task.name>>
    BY <1>1, <1>2
  <2> QED
    BY <1>1, <2>1, <2>2, <2>3 DEF GraphMove
<1>3. CASE Len(s) # 1
  <2> DEFINE n == Len(s) - 1
             f == s[n]
             h == [f EXCEPT !.results = Append(@, result)]
             t == Append(SubSeq(s, 1, n - 1), h)
  <2>1. n \in Nat /\ n \in 1 .. Len(s) /\ n \in 1 .. Len(s) - 1 /\ n + 1 = Len(s)
        /\ n - 1 = Len(s) - 2
    <3>1. \A m \in Nat : m > 0 /\ m # 1 =>
              /\ m - 1 \in Nat /\ m - 1 \in 1 .. m /\ m - 1 \in 1 .. m - 1
              /\ (m - 1) + 1 = m /\ (m - 1) - 1 = m - 2
      OBVIOUS
    <3> QED
      BY <1>1, <1>3, <3>1, Zenon
  <2>2. stack' = [stack EXCEPT ![r] = t] /\ final' = final
    BY <1>3, <2>1 DEF Return
  <2>3. f \in Frames /\ FrameOK(f) /\ Waiting(f, s[Len(s)])
    BY <1>1, <2>1 DEF StackOK
  <2>4. Accounts(result, s[Len(s)].task)
    BY <1>1
  <2> HIDE DEF f
  <2>5. h \in Frames /\ FrameOK(h) /\ h.task = f.task
    <3> DEFINE g == s[Len(s)]
    <3>1. Waiting(f, g) /\ Accounts(result, g.task)
      BY <2>3, <2>4
    <3> HIDE DEF g
    <3> QED
      BY <2>3, <3>1, CallerGoesOn
  <2> HIDE DEF h
  <2>6. StackOK(t) /\ t[1].task = s[1].task
    <3>1. h.task = s[n].task
      BY <2>5 DEF f
    <3>2. n \in Nat /\ n > 0 /\ Len(s) = n + 1 /\ StackOK(s)
      BY <1>1, <2>1
    <3> HIDE DEF s, n
    <3> QED
      BY <2>5, <3>1, <3>2, ReturnMoves
  <2>7. t \in Seq(Frames)
    BY <2>6 DEF StackOK
  <2> HIDE DEF t
  <2> QED
    BY <1>1, <2>2, <2>6, <2>7 DEF GraphMove
<1> QED
  BY <1>2, <1>3

LEMMA AggregateMoves ==
    ASSUME Typed, NEW r \in Runs, Aggregate(r)
    PROVE  GraphMove(r)
<1> DEFINE f == Top(r)
           result == Aggregated(f)
<1>1. /\ stack[r] # <<>> /\ Return(r, result) /\ f.node = "aggregate"
      /\ UNCHANGED <<tables, reported, ran>>
  BY DEF Aggregate, At
<1>2. f \in Frames /\ FrameOK(f) /\ f = stack[r][Len(stack[r])]
  BY <1>1, TopTypes DEF Typed, RunOK, Top
<1>3. Kind[r] = "concept" /\ Len(stack[r]) = 1 => f.task.kind = "concept"
  BY <1>1, <1>2 DEF Typed, RunOK
<1> HIDE DEF f
<1>4. CASE f.task.kind = "concept"
  <2>1. result = [ok |-> TRUE, names |-> <<f.task.name>>, quality |-> f.candidate]
    BY <1>4 DEF Aggregated
  <2>2. f.task.name \in Concepts /\ f.candidate \in Qualities
    BY <1>2, <1>4 DEF FrameOK, Frames
  <2>3. result \in Results /\ result.ok /\ result.names = <<f.task.name>>
    BY <2>1, <2>2 DEF Results
  <2> HIDE DEF result
  <2> QED
    BY <1>1, <2>3, ReturnsMove DEF Accounts, f
<1>5. CASE f.task.kind # "concept"
  <2>1. result = [ok |-> Flat(f.results) # <<>>, names |-> Flat(f.results),
                  quality |-> "none"]
    BY <1>5 DEF Aggregated
  <2>2. Flat(f.results) \in Seq(Concepts)
    BY <1>2, FlatTypes DEF Frames
  <2>3. (Flat(f.results) # <<>>) \in BOOLEAN
    OBVIOUS
  <2>4. result \in Results
    BY <2>1, <2>2, <2>3 DEF Results, Qualities
  <2>5. Accounts(result, f.task)
    BY <1>5 DEF Accounts
  <2> HIDE DEF result
  <2> QED
    BY <1>1, <1>3, <1>5, <2>4, <2>5, ReturnsMove DEF f
<1> QED
  BY <1>4, <1>5

LEMMA SlmRaisesMoves ==
    ASSUME Typed, NEW r \in Runs, SlmRaises(r)
    PROVE  GraphMove(r)
<1>1. /\ stack[r] # <<>> /\ UNCHANGED <<tables, reported>>
      /\ stack \in [Runs -> Seq(Frames)] /\ ran \in SUBSET Runs
  BY DEF SlmRaises, At, Typed, TypeOK
<1>2. CASE Depth(r) > 0 /\ Return(r, Nothing) /\ UNCHANGED ran
  <2>1. Nothing \in Results /\ Accounts(Nothing, Top(r).task)
    BY DEF Nothing, Results, Accounts, Qualities
  <2>2. Len(stack[r]) # 1
    <3>1. Len(stack[r]) \in Nat
      BY <1>1
    <3>2. \A m \in Nat : m - 1 > 0 => m # 1
      OBVIOUS
    <3> QED
      BY <1>2, <3>1, <3>2, Zenon DEF Depth
  <2> QED
    BY <1>1, <1>2, <2>1, <2>2, ReturnsMove
<1>3. CASE stack' = [stack EXCEPT ![r] = <<>>] /\ ran' = ran \cup {r} /\ UNCHANGED final
  <2>1. <<>> \in Seq(Frames) /\ StackOK(<<>>)
    BY DEF StackOK
  <2> QED
    BY <1>1, <1>3, <2>1 DEF GraphMove
<1> QED
  BY <1>2, <1>3 DEF SlmRaises

LEMMA GraphMoves ==
    ASSUME Typed, NEW r \in Runs, Graph(r)
    PROVE  GraphMove(r)
BY AtomizeMoves, PlanMoves, RecurseMoves, RecursionDoneMoves, ExecuteAtomicMoves,
   SlmRaisesMoves, AggregateMoves DEF Graph

\* A run begins: it may end at once, or it invokes the graph for its task.
BeginMove(r) ==
    /\ stack[r] = <<>> /\ final[r] = NotYet /\ UNCHANGED <<tables, final>>
    /\ ran' \in SUBSET Runs
    /\ reported' \in [Runs -> SUBSET Concepts]
    /\ \/ stack' = stack
       \/ \E task \in Tasks :
            /\ task.kind = Kind[r]
            /\ task.kind = "concept" => task.name \in Eligible
            /\ stack' = [stack EXCEPT ![r] = <<Invocation(task)>>]

LEMMA BeginMoves ==
    ASSUME Typed, NEW r \in Runs, BeginConcept(r) \/ BeginComposite(r)
    PROVE  BeginMove(r)
<1>1. /\ Idle(r) /\ UNCHANGED <<tables, final>>
      /\ reported' \in [Runs -> SUBSET Concepts] /\ ran \in SUBSET Runs
  BY DEF BeginConcept, BeginComposite, Typed, TypeOK
<1>2. ASSUME NEW s \in Selections(1), Eligible # {}, Kind[r] = "concept",
             Start(r, [kind |-> "concept", name |-> s[1]]), UNCHANGED ran
      PROVE  BeginMove(r)
  <2> DEFINE task == [kind |-> "concept", name |-> s[1]]
  <2>1. s[1] \in Eligible /\ s[1] \in Concepts
    <3>1. 1 \in Nat \ {0}
      OBVIOUS
    <3> QED
      BY <1>2, <3>1, SelectionTypes DEF Eligible
  <2>2. task \in Tasks /\ task.kind = Kind[r] /\ task.name \in Eligible
    BY <1>2, <2>1 DEF Tasks, Kinds
  <2> QED
    BY <1>1, <1>2, <2>2 DEF BeginMove, Idle, Start
<1>3. CASE ran' = ran \cup {r} /\ UNCHANGED stack
  BY <1>1, <1>3 DEF BeginMove, Idle
<1>4. CASE BeginComposite(r)
  <2> DEFINE task == [kind |-> Kind[r], name |-> NoConcept]
  <2>1. task \in Tasks /\ task.kind = Kind[r] /\ task.kind # "concept"
    BY <1>4, Settings DEF Tasks, BeginComposite
  <2>2. stack' = [stack EXCEPT ![r] = <<Invocation(task)>>] /\ UNCHANGED ran
    BY <1>4 DEF BeginComposite, Start
  <2> QED
    BY <1>1, <2>1, <2>2 DEF BeginMove, Idle
<1> QED
  BY <1>2, <1>3, <1>4 DEF BeginConcept

\* A run is over: its result is stored, if it is one concept's, or reported.
PersistMove(r) ==
    /\ stack[r] = <<>> /\ final[r] # NotYet
    /\ stack' = stack /\ final' = [final EXCEPT ![r] = NotYet]
    /\ ran' \in SUBSET Runs
    /\ reported' \in [Runs -> SUBSET Concepts]
    /\ digests' \in SUBSET SUBSET Concepts
    /\ volume' = volume
    /\ \/ UNCHANGED <<fresh, days, quality>>
       \/ /\ Kind[r] = "concept"
          /\ \E c \in Concepts :
                final[r].names = <<c>> /\ InsertForecast(c, final[r].quality)

LEMMA PersistMoves ==
    ASSUME Typed, NEW r \in Runs, Persist(r) \/ PersistFails(r)
    PROVE  PersistMove(r)
<1>1. /\ final[r] \in Results /\ ran \in SUBSET Runs
      /\ reported \in [Runs -> SUBSET Concepts] /\ digests \in SUBSET SUBSET Concepts
  BY DEF Typed, TypeOK
<1>2. Names(r) \in SUBSET Concepts
  <2>1. final[r].names \in Seq(Concepts)
    BY <1>1 DEF Results
  <2> QED
    BY <2>1 DEF Names
<1>3. CASE PersistFails(r)
  BY <1>1, <1>3 DEF PersistFails, PersistMove, tables
<1>4. ASSUME Persist(r), Kind[r] = "concept",
             InsertForecast(final[r].names[1], final[r].quality)
      PROVE  PersistMove(r)
  <2>1. PICK c \in Concepts : final[r].names = <<c>>
    BY <1>4 DEF Persist, Typed, RunOK
  <2>2. final[r].names[1] = c
    BY <2>1
  <2>3. InsertForecast(c, final[r].quality)
    BY <1>4, <2>2
  <2>4. volume' = volume /\ digests' = digests
    BY <2>3 DEF InsertForecast
  <2> QED
    BY <1>1, <1>2, <1>4, <2>1, <2>3, <2>4 DEF Persist, PersistMove
<1>5. ASSUME Persist(r), UNCHANGED <<volume, fresh, days, quality>>,
             digests' = IF Kind[r] = "digest" /\ final[r].ok
                        THEN digests \cup {Names(r)} ELSE digests
      PROVE  PersistMove(r)
  <2>1. digests' \in SUBSET SUBSET Concepts
    BY <1>1, <1>2, <1>5
  <2> QED
    BY <1>1, <1>2, <1>5, <2>1 DEF Persist, PersistMove
<1> QED
  BY <1>3, <1>4, <1>5 DEF Persist

LEMMA NotYetTypes == NotYet \in Results
BY DEF NotYet, Results, Qualities

LEMMA StepCases ==
    ASSUME Typed, [Next]_vars
    PROVE  \/ \E c \in Concepts : Mention(c)
           \/ \E r \in Runs : GraphMove(r) \/ BeginMove(r) \/ PersistMove(r)
           \/ Day
           \/ UNCHANGED vars
BY GraphMoves, BeginMoves, PersistMoves DEF Next, Work

LEMMA TypedStep == Typed /\ [Next]_vars => Typed'
<1> SUFFICES ASSUME Typed, [Next]_vars PROVE Typed'
  OBVIOUS
<1> DEFINE Tables ==
      /\ volume' \in [Concepts -> 0 .. MaxMentions] /\ fresh' \in [Concepts -> Nat]
      /\ days' \in [Concepts -> 0 .. Cooldown] /\ quality' \in [Concepts -> Qualities]
      /\ digests' \subseteq SUBSET Concepts
    Rest ==
      /\ stack' \in [Runs -> Seq(Frames)] /\ final' \in [Runs -> Results]
      /\ reported' \in [Runs -> SUBSET Concepts] /\ ran' \subseteq Runs
<1>1. Tables /\ Rest => TypeOK'
  BY DEF TypeOK
<1>2. UNCHANGED tables => Tables
  BY DEF tables, Typed, TypeOK
<1>3. UNCHANGED <<stack, final>> => \A r \in Runs : RunOK(r)'
  BY DEF Typed, RunOK
<1>4. ASSUME NEW r \in Runs, RunOK(r)',
             \A q \in Runs \ {r} : stack'[q] = stack[q] /\ final'[q] = final[q]
      PROVE  \A q \in Runs : RunOK(q)'
  BY <1>4 DEF Typed, RunOK
<1>5. ASSUME NEW c \in Concepts, Mention(c) PROVE Typed'
  <2>1. volume[c] + 1 \in 0 .. MaxMentions
    BY <1>5, Settings DEF Mention, Typed, TypeOK
  <2>2. Tables /\ Rest
    BY <1>5, <2>1 DEF Mention, Typed, TypeOK
  <2> QED
    BY <1>1, <1>3, <1>5, <2>2 DEF Mention, Typed
<1>6. ASSUME NEW r \in Runs, GraphMove(r) PROVE Typed'
  <2>1. Rest
    BY <1>6 DEF GraphMove, Typed, TypeOK
  <2>2. stack[r] # <<>> /\ RunOK(r) /\ final \in [Runs -> Results]
    BY <1>6 DEF GraphMove, Typed, TypeOK
  <2>3. Kind[r] = "concept" => stack[r][1].task.name \in Concepts
    BY <2>2, TopTypes DEF RunOK, FrameOK
  <2>4. RunOK(r)'
    <3>1. StackOK(stack'[r]) /\ (stack'[r] # <<>> => stack'[r][1].task.kind = Kind[r])
      BY <1>6, <2>2 DEF GraphMove, RunOK
    <3>2. CASE final' = final
      BY <2>2, <3>1, <3>2 DEF RunOK
    <3>3. ASSUME NEW result \in Results, final' = [final EXCEPT ![r] = result],
                 Kind[r] = "concept" => result.names = <<stack[r][1].task.name>>
          PROVE  RunOK(r)'
      <4>1. final'[r] = result
        BY <2>2, <3>3
      <4> QED
        BY <2>3, <3>1, <3>3, <4>1 DEF RunOK
    <3> QED
      BY <1>6, <3>2, <3>3 DEF GraphMove
  <2>5. \A q \in Runs \ {r} : stack'[q] = stack[q] /\ final'[q] = final[q]
    BY <1>6, <2>2 DEF GraphMove
  <2>6. Tables
    BY <1>2, <1>6 DEF GraphMove
  <2> QED
    BY <1>1, <1>4, <2>1, <2>4, <2>5, <2>6 DEF Typed
<1>7. ASSUME NEW r \in Runs, BeginMove(r) PROVE Typed'
  <2>1. stack \in [Runs -> Seq(Frames)] /\ final' = final /\ final[r] = NotYet /\ RunOK(r)
    BY <1>7 DEF BeginMove, Typed, TypeOK
  <2>2. CASE stack' = stack
    BY <1>1, <1>2, <1>3, <1>7, <2>2 DEF BeginMove, Typed, TypeOK
  <2>3. ASSUME NEW task \in Tasks, task.kind = Kind[r],
               task.kind = "concept" => task.name \in Eligible,
               stack' = [stack EXCEPT ![r] = <<Invocation(task)>>]
        PROVE  Typed'
    <3> DEFINE g == Invocation(task)
    <3>1. g \in Frames /\ FrameOK(g) /\ g.task = task
      BY <2>3, InvocationTypes DEF Eligible
    <3> HIDE DEF g
    <3>2. <<g>> \in Seq(Frames) /\ Len(<<g>>) = 1 /\ <<g>>[1] = g
      BY <3>1
    <3>3. StackOK(<<g>>)
      BY <3>1, <3>2 DEF StackOK
    <3>4. stack'[r] = <<g>> /\ Rest
      BY <1>7, <2>1, <2>3, <3>2 DEF BeginMove, Typed, TypeOK, g
    <3>5. RunOK(r)'
      BY <2>1, <2>3, <3>1, <3>2, <3>3, <3>4 DEF RunOK
    <3>6. \A q \in Runs \ {r} : stack'[q] = stack[q] /\ final'[q] = final[q]
      BY <2>1, <2>3
    <3>7. Tables
      BY <1>2, <1>7 DEF BeginMove
    <3> QED
      BY <1>1, <1>4, <3>4, <3>5, <3>6, <3>7 DEF Typed
  <2> QED
    BY <1>7, <2>2, <2>3 DEF BeginMove
<1>8. ASSUME NEW r \in Runs, PersistMove(r) PROVE Typed'
  <2>1. Rest /\ final \in [Runs -> Results] /\ RunOK(r)
    BY <1>8, NotYetTypes DEF PersistMove, Typed, TypeOK
  <2>2. RunOK(r)' /\ \A q \in Runs \ {r} : stack'[q] = stack[q] /\ final'[q] = final[q]
    BY <1>8, <2>1 DEF PersistMove, RunOK
  <2>3. Tables
    <3>1. CASE UNCHANGED <<fresh, days, quality>>
      BY <1>8, <3>1 DEF PersistMove, Typed, TypeOK
    <3>2. ASSUME NEW c \in Concepts, InsertForecast(c, final[r].quality) PROVE Tables
      <4>1. final[r].quality \in Qualities /\ Cooldown \in 0 .. Cooldown
        BY <2>1, Settings DEF Results
      <4> QED
        BY <1>8, <3>2, <4>1 DEF InsertForecast, PersistMove, Typed, TypeOK
    <3> QED
      BY <1>8, <3>1, <3>2 DEF PersistMove
  <2> QED
    BY <1>1, <1>4, <2>1, <2>2, <2>3 DEF Typed
<1>9. CASE Day
  <2>1. \A c \in Concepts : days[c] > 0 => days[c] - 1 \in 0 .. Cooldown
    BY Settings DEF Typed, TypeOK
  <2>2. Tables /\ Rest
    BY <1>9, <2>1, Settings DEF Day, Typed, TypeOK
  <2> QED
    BY <1>1, <1>3, <1>9, <2>2 DEF Day, Typed
<1>10. CASE UNCHANGED vars
  <2>1. Tables /\ Rest
    BY <1>10 DEF vars, Typed, TypeOK
  <2> QED
    BY <1>1, <1>3, <1>10, <2>1 DEF vars, Typed
<1> QED
  BY <1>5, <1>6, <1>7, <1>8, <1>9, <1>10, StepCases

LEMMA TypedAtFirst == Init => Typed
<1> SUFFICES ASSUME Init PROVE Typed
  OBVIOUS
<1>1. TypeOK
  <2>1. 0 \in 0 .. MaxMentions /\ 0 \in 0 .. Cooldown /\ 0 \in Nat
    BY Settings
  <2> QED
    BY <2>1, NotYetTypes DEF Init, TypeOK, Qualities
<1>2. ASSUME NEW r \in Runs PROVE RunOK(r)
  <2>1. stack[r] = <<>> /\ final[r] = NotYet
    BY DEF Init
  <2>2. StackOK(<<>>)
    BY DEF StackOK
  <2> QED
    BY <2>1, <2>2 DEF RunOK
<1> QED
  BY <1>1, <1>2 DEF Typed

LEMMA TypedAlways == Spec => []Typed
BY TypedAtFirst, TypedStep, PTL DEF Spec

\* Every variable keeps its type: invocations nest as the graph builds them,
\* their results are lists of concepts, and a row is of a concept that exists.
THEOREM TypeCorrect == Spec => []TypeOK
<1>1. Typed => TypeOK
  BY DEF Typed
<1> QED
  BY <1>1, TypedAlways, PTL

-----------------------------------------------------------------------------
(* Subtasks                                                                *)

\* At aggregate a top_n task has a result for every subtask, in order, and its
\* forecasts are exactly those of the subtasks that did not fail: a failed
\* subtask costs its own forecast only.
THEOREM SubtasksAccountedHolds == Spec => []SubtasksAccounted
<1>1. ASSUME Typed PROVE SubtasksAccounted
  <2> SUFFICES ASSUME NEW r \in Runs, NEW d \in 1 .. Len(stack[r]),
                      NEW f, f = stack[r][d],
                      f.node = "aggregate", f.task.kind = "top_n"
               PROVE  /\ Len(f.results) = Len(f.subtasks)
                      /\ \A i \in 1 .. Len(f.subtasks) :
                            f.results[i].ok => f.results[i].names = <<f.subtasks[i].name>>
                      /\ Len(Aggregated(f).names) =
                            Cardinality({i \in 1 .. Len(f.results) : f.results[i].ok})
    BY DEF SubtasksAccounted
  <2>1. f \in Frames /\ FrameOK(f)
    BY <1>1 DEF Typed, RunOK, StackOK
  <2>2. f.results \in Seq(Results) /\ Len(f.results) = Len(f.subtasks)
    BY <2>1 DEF Frames, FrameOK
  <2>3. ASSUME NEW i \in 1 .. Len(f.results)
        PROVE  f.results[i].names =
                    IF f.results[i].ok THEN <<f.subtasks[i].name>> ELSE <<>>
    BY <2>1, <2>2 DEF FrameOK, Accounts
  <2>4. ASSUME NEW i \in 1 .. Len(f.results)
        PROVE  Len(f.results[i].names) = IF f.results[i].ok THEN 1 ELSE 0
    <3>1. \A x : Len(<<x>>) = 1 /\ Len(<<>>) = 0
      OBVIOUS
    <3>2. CASE f.results[i].ok
      BY <2>3, <3>1, <3>2
    <3>3. CASE ~f.results[i].ok
      BY <2>3, <3>1, <3>3
    <3> QED
      BY <3>2, <3>3
  <2>5. Aggregated(f).names = Flat(f.results)
    BY DEF Aggregated
  <2>6. Len(Flat(f.results)) =
            Cardinality({i \in 1 .. Len(f.results) : f.results[i].ok})
    BY <2>2, <2>4, FlatCounts
  <2> QED
    BY <2>2, <2>3, <2>5, <2>6
<1> QED
  BY <1>1, TypedAlways, PTL

-----------------------------------------------------------------------------
(* One forecast in the cooldown                                            *)

OneConceptRun ==
    \A q, r \in Runs : Kind[q] = "concept" /\ Kind[r] = "concept" => q = r

\* A concept whose cooldown is over has no fresh row.
CooldownCounts ==
    \A c \in Concepts : fresh[c] <= 1 /\ (days[c] = 0 => fresh[c] = 0)

\* What a run of one concept works on, or is about to store, is still out of
\* its cooldown: nobody else stores forecasts of concepts.
StillDue ==
    \A r \in Runs : Kind[r] = "concept" =>
        /\ stack[r] # <<>> => days[stack[r][1].task.name] = 0
        /\ \A c \in Concepts :
              final[r] # NotYet /\ final[r].names = <<c>> => days[c] = 0

FreshInv == Typed /\ CooldownCounts /\ StillDue

LEMMA CooldownCountsStep == FreshInv /\ [Next]_vars => CooldownCounts'
<1> SUFFICES ASSUME FreshInv, [Next]_vars PROVE CooldownCounts'
  OBVIOUS
<1>1. /\ Typed /\ CooldownCounts /\ StillDue
      /\ fresh \in [Concepts -> Nat] /\ days \in [Concepts -> 0 .. Cooldown]
  BY DEF FreshInv, Typed, TypeOK
<1>2. UNCHANGED <<fresh, days>> => CooldownCounts'
  BY <1>1 DEF CooldownCounts
<1>3. ASSUME NEW r \in Runs, PersistMove(r) PROVE CooldownCounts'
  <2>1. ASSUME Kind[r] = "concept", NEW c \in Concepts, final[r].names = <<c>>,
               InsertForecast(c, final[r].quality)
        PROVE  CooldownCounts'
    <3>1. days[c] = 0
      BY <1>1, <1>3, <2>1 DEF StillDue, PersistMove
    <3>2. fresh[c] = 0
      BY <1>1, <3>1 DEF CooldownCounts
    <3>3. /\ fresh' = [fresh EXCEPT ![c] = @ + 1]
          /\ days' = [days EXCEPT ![c] = Cooldown]
      BY <2>1 DEF InsertForecast
    <3> QED
      BY <1>1, <3>2, <3>3, Settings DEF CooldownCounts
  <2> QED
    BY <1>2, <1>3, <2>1 DEF PersistMove
<1>4. CASE Day
  BY <1>1, <1>4 DEF Day, CooldownCounts
<1>5. ASSUME NEW c \in Concepts, Mention(c) PROVE CooldownCounts'
  BY <1>2, <1>5 DEF Mention
<1>6. ASSUME NEW r \in Runs, GraphMove(r) \/ BeginMove(r) PROVE CooldownCounts'
  BY <1>2, <1>6 DEF GraphMove, BeginMove, tables
<1> QED
  BY <1>1, <1>2, <1>3, <1>4, <1>5, <1>6, StepCases DEF vars

LEMMA StillDueStep == OneConceptRun /\ FreshInv /\ [Next]_vars => StillDue'
<1> SUFFICES ASSUME OneConceptRun, FreshInv, [Next]_vars PROVE StillDue'
  OBVIOUS
<1>1. /\ Typed /\ StillDue /\ days \in [Concepts -> 0 .. Cooldown]
      /\ stack \in [Runs -> Seq(Frames)] /\ final \in [Runs -> Results]
  BY DEF FreshInv, Typed, TypeOK
<1> DEFINE Due(r) ==
      /\ stack[r] # <<>> => days[stack[r][1].task.name] = 0
      /\ \A c \in Concepts :
            final[r] # NotYet /\ final[r].names = <<c>> => days[c] = 0
\* Only runs of one concept matter, and there is one.
<1>2. ASSUME NEW r \in Runs, Kind[r] = "concept" => Due(r)', UNCHANGED days,
             \A q \in Runs \ {r} : stack'[q] = stack[q] /\ final'[q] = final[q]
      PROVE  StillDue'
  BY <1>1, <1>2 DEF StillDue
<1>3. UNCHANGED <<days, stack, final>> => StillDue'
  BY <1>1 DEF StillDue
<1>4. ASSUME NEW r \in Runs, GraphMove(r) PROVE StillDue'
  <2>1. ASSUME Kind[r] = "concept" PROVE Due(r)'
    <3>1. Due(r) /\ stack[r] # <<>> /\ days' = days
      BY <1>1, <1>4, <2>1 DEF StillDue, GraphMove, tables
    <3>2. stack'[r] # <<>> => days'[stack'[r][1].task.name] = 0
      BY <1>4, <3>1 DEF GraphMove
    <3>3. \A c \in Concepts :
              final'[r] # NotYet /\ final'[r].names = <<c>> => days'[c] = 0
      <4>1. CASE final' = final
        BY <3>1, <4>1
      <4>2. ASSUME NEW result \in Results, final' = [final EXCEPT ![r] = result],
                   result.names = <<stack[r][1].task.name>>,
                   NEW c \in Concepts, final'[r].names = <<c>>
            PROVE  days'[c] = 0
        <5>1. final'[r] = result
          BY <1>1, <4>2
        <5>2. c = stack[r][1].task.name
          BY <4>2, <5>1
        <5> QED
          BY <3>1, <5>2
      <4> QED
        BY <1>4, <2>1, <4>1, <4>2 DEF GraphMove
    <3> QED
      BY <3>2, <3>3
  <2>2. \A q \in Runs \ {r} : stack'[q] = stack[q] /\ final'[q] = final[q]
    BY <1>1, <1>4 DEF GraphMove
  <2> QED
    BY <1>2, <1>4, <2>1, <2>2 DEF GraphMove, tables
<1>5. ASSUME NEW r \in Runs, BeginMove(r) PROVE StillDue'
  <2>1. days' = days /\ final' = final
    BY <1>5 DEF BeginMove, tables
  <2>2. CASE stack' = stack
    BY <1>3, <2>1, <2>2
  <2>3. ASSUME NEW task \in Tasks, task.kind = Kind[r],
               task.kind = "concept" => task.name \in Eligible,
               stack' = [stack EXCEPT ![r] = <<Invocation(task)>>]
        PROVE  StillDue'
    <3>1. stack'[r] = <<Invocation(task)>> /\ Invocation(task).task = task
      BY <1>1, <2>3 DEF Invocation
    <3>2. stack'[r][1].task = task
      BY <3>1
    <3>3. Kind[r] = "concept" => days[task.name] = 0
      BY <2>3 DEF Eligible
    <3>4. Kind[r] = "concept" => Due(r)'
      BY <1>1, <2>1, <3>2, <3>3 DEF StillDue
    <3> QED
      BY <1>1, <1>2, <2>1, <2>3, <3>4
  <2> QED
    BY <1>5, <2>2, <2>3 DEF BeginMove
<1>6. ASSUME NEW r \in Runs, PersistMove(r) PROVE StillDue'
  <2>1. /\ stack[r] = <<>> /\ stack' = stack /\ final'[r] = NotYet
        /\ \A q \in Runs \ {r} : final'[q] = final[q]
    BY <1>1, <1>6 DEF PersistMove
  <2>2. CASE UNCHANGED <<fresh, days, quality>>
    BY <1>2, <2>1, <2>2
  <2>3. CASE Kind[r] = "concept"
    <3>1. ASSUME NEW q \in Runs, Kind[q] = "concept" PROVE q = r
      BY <2>3, <3>1 DEF OneConceptRun
    <3> QED
      BY <2>1, <3>1 DEF StillDue
  <2> QED
    BY <1>6, <2>2, <2>3 DEF PersistMove
<1>7. CASE Day
  <2>1. stack' = stack /\ final' = final
    BY <1>7 DEF Day
  <2>2. \A c \in Concepts : days[c] = 0 => days'[c] = 0
    BY <1>1, <1>7 DEF Day
  <2>3. ASSUME NEW r \in Runs, Kind[r] = "concept", stack[r] # <<>>
        PROVE  stack[r][1].task.name \in Concepts
    <3>1. RunOK(r)
      BY <1>1 DEF Typed
    <3> QED
      BY <2>3, <3>1, TopTypes DEF RunOK, FrameOK
  <2> QED
    BY <1>1, <2>1, <2>2, <2>3 DEF StillDue
<1>8. ASSUME NEW c \in Concepts, Mention(c) PROVE StillDue'
  BY <1>3, <1>8 DEF Mention
<1> QED
  BY <1>1, <1>3, <1>4, <1>5, <1>6, <1>7, <1>8, StepCases DEF vars

\* One Forecaster at a time that works on single concepts stores no second
\* forecast of a concept within its cooldown, whatever fails in between and
\* whatever the composite runs beside it do.
THEOREM OneFreshForecastHolds ==
    ASSUME OneConceptRun PROVE Spec => []OneFreshForecast
<1>1. Init => FreshInv
  <2>1. Init => CooldownCounts /\ StillDue
    BY DEF Init, CooldownCounts, StillDue
  <2> QED
    BY <2>1, TypedAtFirst DEF FreshInv
<1>2. FreshInv /\ [Next]_vars => FreshInv'
  BY OneConceptRun, TypedStep, CooldownCountsStep, StillDueStep DEF FreshInv
<1>3. FreshInv => OneFreshForecast
  BY DEF FreshInv, CooldownCounts, OneFreshForecast
<1> QED
  BY <1>1, <1>2, <1>3, PTL DEF Spec
=============================================================================
