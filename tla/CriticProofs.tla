---------------------------- MODULE CriticProofs ----------------------------
(***************************************************************************)
(* Critic, proved for any number of critics and calls, every batch limit   *)
(* and window, every way reviews can end and every combination of faults.  *)
(* The gate's own theorems hold for it because each step of the critics'   *)
(* specification is a step of the gate's, or one the gate does not see.    *)
(***************************************************************************)
EXTENDS Critic, TripleGateProofs, WellFoundedInduction

-----------------------------------------------------------------------------
(* The oldest of some claims                                               *)

\* The order of the numbers, as a relation.
Before == {mn \in Nat \X Nat : mn[1] < mn[2]}

LEMMA BeforeIsWellFounded == IsWellFoundedOn(Before, Nat)
<1>1. OpToRel(<, Nat) = Before
  BY DEF OpToRel, Before
<1> QED
  BY <1>1, NatLessThanWellFounded, Zenon

\* A set of numbers with a member has a least one.
LEMMA SmallestExists ==
    ASSUME NEW S \in SUBSET Nat, S # {}
    PROVE  \E m \in S : \A n \in S : m <= n
<1>1. PICK m \in S : \A n \in S : ~(<<n, m>> \in Before)
  BY BeforeIsWellFounded, WFMin
<1>2. ASSUME NEW n \in S, n < m PROVE <<n, m>> \in Before
  BY <1>2 DEF Before
<1>3. ASSUME NEW n \in S PROVE m <= n
  <2>1. m \in Nat /\ n \in Nat /\ ~(n < m)
    BY <1>1, <1>2
  <2> QED
    BY <2>1
<1> QED
  BY <1>3

\* Among numbered claims one has the smallest number, and CHOOSE finds it.
LEMMA OldestExists ==
    ASSUME NEW number \in [Triples -> Nat], NEW T \in SUBSET Triples, T # {},
           NEW oldest, oldest = CHOOSE t \in T : \A u \in T : number[t] <= number[u]
    PROVE  /\ oldest \in T
           /\ \A u \in T : number[oldest] <= number[u]
<1> DEFINE Places == {number[t] : t \in T}
<1>1. Places \in SUBSET Nat /\ Places # {}
  OBVIOUS
<1>2. \E p \in Places : \A q \in Places : p <= q
  <2> HIDE DEF Places
  <2> QED
    BY <1>1, SmallestExists
<1>3. \E t \in T : \A u \in T : number[t] <= number[u]
  BY <1>2
<1> QED
  BY <1>3

\* The claim under review is of the batch, and none of the batch is older.
LEMMA UnderIsOldest ==
    ASSUME CriticTypeOK, NEW k \in Critics, batch[k] # {}
    PROVE  /\ Under(k) \in batch[k] /\ Under(k) \in Triples
           /\ \A u \in batch[k] : created[Under(k)] <= created[u]
<1>1. batch[k] \in SUBSET Triples /\ created \in [Triples -> Nat]
  BY DEF CriticTypeOK, TypeOK
<1> QED
  BY <1>1, OldestExists DEF Under

-----------------------------------------------------------------------------
(* Types, and the critics as clients of the gate                           *)

\* A critic that waits is inside a run and has the claim still in its batch.
Awaiting ==
    \A k \in Critics : call[k] # NoCall => running[k] /\ batch[k] # {}

CriticTyped == CriticTypeOK /\ Awaiting

\* What the pipeline may conclude.
LEMMA OpinionTypes ==
    ASSUME NEW t \in Triples
    PROVE  Opinions(t) \subseteq {"approved", "rejected", "raises"}
BY CriticAssumption DEF Opinions

\* Whatever critics do, the server makes one of its own steps or none.
LEMMA StepIsGateStep ==
    ASSUME CriticTyped, [CriticNext]_allVars PROVE [Next]_vars
<1>1. ASSUME NEW k \in Critics, Decide(k) PROVE Next
  <2>1. Under(k) \in Triples
    BY <1>1, UnderIsOldest DEF Decide, Reviewing, CriticTyped
  <2> QED
    BY <1>1, <2>1 DEF Decide, Next
<1>2. ASSUME NEW k \in Critics, Answered(k) PROVE Next
  <2>1. call[k] \in Calls
    BY <1>2 DEF Answered, CriticTyped, CriticTypeOK
  <2> QED
    BY <1>2, <2>1 DEF Answered, Next
<1>3. ASSUME NEW k \in Critics,
             ListPending(k) \/ DecideDry(k) \/ ReviewRaises(k) \/ FinishRun(k)
               \/ CallLost(k) \/ Die(k)
      PROVE  UNCHANGED vars
  BY <1>3 DEF ListPending, DecideDry, ReviewRaises, FinishRun, CallLost, Die
<1>4. ASSUME NEW c \in Calls, Serve(c) \/ ReleaseUnclaimed(c) PROVE Next
  BY <1>4 DEF Serve, ReleaseUnclaimed, Next, ServerStep
<1>5. CASE Environment
  BY <1>5 DEF Environment, Next, ServerStep
<1>6. CASE UNCHANGED allVars
  BY <1>6 DEF allVars
<1> QED
  BY <1>1, <1>2, <1>3, <1>4, <1>5, <1>6 DEF CriticNext, Step

\* A step leaves critic k alone.
Still(k) ==
    UNCHANGED <<running[k], batch[k], call[k], opinion[k], approvals[k], rejections[k]>>

Acts(k) == ListPending(k) \/ Step(k) \/ CallLost(k) \/ Die(k)

\* A critic that acts leaves the others alone.
LEMMA OthersStill ==
    ASSUME CriticTypeOK, NEW k \in Critics, Acts(k), NEW l \in Critics, l # k
    PROVE  Still(l)
<1> USE DEF CriticTypeOK
<1>1. CASE ListPending(k)
  BY <1>1 DEF ListPending, Still
<1>2. CASE Decide(k)
  BY <1>2 DEF Decide, Still
<1>3. CASE DecideDry(k)
  BY <1>3 DEF DecideDry, Count, Advance, Still
<1>4. CASE ReviewRaises(k) \/ CallLost(k)
  BY <1>4 DEF ReviewRaises, CallLost, Advance, Still
<1>5. CASE Answered(k)
  BY <1>5 DEF Answered, Count, Advance, Still
<1>6. CASE FinishRun(k) \/ Die(k)
  BY <1>6 DEF FinishRun, Die, Still
<1> QED
  BY <1>1, <1>2, <1>3, <1>4, <1>5, <1>6 DEF Acts, Step

\* At most one critic acts at a time.
LEMMA OneActs ==
    ASSUME CriticTypeOK, [CriticNext]_allVars
    PROVE  \/ \A k \in Critics : Still(k)
           \/ \E k \in Critics : Acts(k) /\ \A l \in Critics : l # k => Still(l)
<1>1. CASE UNCHANGED critics
  BY <1>1 DEF critics, Still
<1>2. UNCHANGED critics \/ \E k \in Critics : Acts(k)
  BY DEF CriticNext, Acts, Serve, ReleaseUnclaimed, Environment, allVars
<1> QED
  BY <1>1, <1>2, OthersStill

\* The variables of the critics stay in their types.
LEMMA ActsTypes ==
    ASSUME CriticTyped, NEW k \in Critics, Acts(k)
    PROVE  /\ running' \in [Critics -> BOOLEAN]
           /\ batch' \in [Critics -> SUBSET Triples]
           /\ call' \in [Critics -> Calls \cup {NoCall}]
           /\ opinion' \in [Critics -> {"none", "approved", "rejected"}]
           /\ approvals' \in [Critics -> SUBSET Triples]
           /\ rejections' \in [Critics -> SUBSET Triples]
           /\ call'[k] # NoCall => running'[k] /\ batch'[k] # {}
<1> USE DEF CriticTyped, CriticTypeOK, Awaiting
<1>1. CASE ListPending(k)
  <2>1. Listed(Clamped(Batch)) \subseteq Triples
    BY DEF Listed, Pending
  <2> QED
    BY <1>1, <2>1 DEF ListPending
<1>2. CASE Decide(k)
  <2>1. Under(k) \in Triples
    BY <1>2, UnderIsOldest DEF Decide, Reviewing
  <2> QED
    BY <1>2, <2>1, OpinionTypes DEF Decide, Reviewing
<1>3. CASE DecideDry(k)
  <2>1. Under(k) \in Triples
    BY <1>3, UnderIsOldest DEF DecideDry, Reviewing
  <2> QED
    BY <1>3, <2>1 DEF DecideDry, Count, Advance
<1>4. CASE ReviewRaises(k) \/ CallLost(k)
  BY <1>4 DEF ReviewRaises, CallLost, Advance
<1>5. CASE Answered(k)
  <2>1. Under(k) \in Triples
    BY <1>5, UnderIsOldest DEF Answered
  <2> QED
    BY <1>5, <2>1 DEF Answered, Count, Advance
<1>6. CASE FinishRun(k) \/ Die(k)
  BY <1>6 DEF FinishRun, Die
<1> QED
  BY <1>1, <1>2, <1>3, <1>4, <1>5, <1>6 DEF Acts, Step

LEMMA CriticTypedStep ==
    ASSUME CriticTyped, [CriticNext]_allVars PROVE CriticTyped'
<1>1. TypeOK'
  BY StepIsGateStep, TypeStep DEF CriticTyped, CriticTypeOK
<1>2. CASE UNCHANGED critics
  BY <1>1, <1>2 DEF CriticTyped, CriticTypeOK, Awaiting, critics
<1>3. ASSUME NEW k \in Critics, Acts(k) PROVE CriticTyped'
  <2>1. \A l \in Critics : l # k => Still(l)
    BY <1>3, OthersStill DEF CriticTyped
  <2>2. Awaiting'
    BY <1>3, <2>1, ActsTypes DEF CriticTyped, Awaiting, Still
  <2> QED
    BY <1>1, <1>3, <2>2, ActsTypes DEF CriticTyped, CriticTypeOK
<1> QED
  BY <1>2, <1>3 DEF CriticNext, Acts, Serve, ReleaseUnclaimed, Environment, allVars

LEMMA CriticTypedInvariant == CriticSpec => []CriticTyped
<1>1. CriticInit => CriticTyped
  <2> SUFFICES ASSUME CriticInit PROVE CriticTyped
    OBVIOUS
  <2>1. TypeOK
    BY GateAssumption DEF CriticInit, Init, TypeOK, Conf, InFlight, Decided, Answers
  <2> QED
    BY <2>1 DEF CriticInit, CriticTyped, CriticTypeOK, Awaiting
<1> QED
  BY <1>1, CriticTypedStep, PTL DEF CriticSpec

\* A critic's batch, call and counts stay in their types, through every fault.
THEOREM CriticTypeCorrect == CriticSpec => []CriticTypeOK
BY CriticTypedInvariant, PTL DEF CriticTyped

\* The critics use the gate as any client may: what is proved of the gate
\* holds of it while critics work against it.
THEOREM CriticsAreClients == CriticSpec => Spec
<1>1. CriticInit => Init
  BY DEF CriticInit
<1>2. CriticTyped /\ [CriticNext]_allVars => [Next]_vars
  BY StepIsGateStep
<1> QED
  BY <1>1, <1>2, CriticTypedInvariant, PTL DEF CriticSpec, Spec

-----------------------------------------------------------------------------
(* The queue and its window                                                *)

Known == {t \in Triples : status[t] # "absent"}

\* created_at numbers the rows, and there are finitely many of them.
Numbered ==
    /\ IsFiniteSet(Known)
    /\ \A t \in Known : created[t] < inserts
    /\ \A t, u \in Known : created[t] = created[u] => t = u

\* A step of the server inserts one row at the end of the queue, or leaves
\* every row in its place and makes none pending.
LEMMA QueueMoves ==
    ASSUME TypeOK, [Next]_vars
    PROVE  \/ /\ UNCHANGED <<created, inserts>>
              /\ \A t \in Triples : status'[t] = "absent" <=> status[t] = "absent"
              /\ \A t \in Triples : status'[t] = "pending" => status[t] = "pending"
           \/ \E t \in Triples :
                /\ status[t] = "absent"
                /\ status' = [status EXCEPT ![t] = "pending"]
                /\ created' = [created EXCEPT ![t] = inserts]
                /\ inserts' = inserts + 1
<1> DEFINE Stays ==
        /\ UNCHANGED <<created, inserts>>
        /\ \A t \in Triples : status'[t] = "absent" <=> status[t] = "absent"
        /\ \A t \in Triples : status'[t] = "pending" => status[t] = "pending"
<1> USE DEF TypeOK, store
<1>1. ASSUME NEW t \in Triples, NEW v \in Conf, Propose(t, v), status[t] # "absent"
      PROVE  Stays
  BY <1>1 DEF Propose
<1>2. ASSUME NEW c \in Calls, MarkApproved(c) \/ MarkRejected(c) \/ PgFails(c)
      PROVE  Stays
  BY <1>2 DEF MarkApproved, MarkRejected, PgFails, Decidable
<1>3. ASSUME NEW c \in Calls,
             ReadTarget(c) \/ CommitEdge(c) \/ Neo4jFails(c) \/ CypherFailsUnread(c)
               \/ Release(c)
      PROVE  Stays
  BY <1>3 DEF ReadTarget, CommitEdge, Neo4jFails, CypherFailsUnread, Release
<1>4. ASSUME NEW c \in Calls, NEW t \in Triples, BeginApprove(c, t) \/ BeginReject(c, t)
      PROVE  Stays
  BY <1>4 DEF BeginApprove, BeginReject, Begin
<1>5. ASSUME ApiCrash \/ UNCHANGED vars PROVE Stays
  BY <1>5 DEF ApiCrash, vars
<1>6. ASSUME NEW t \in Triples, NEW v \in Conf, Propose(t, v), status[t] = "absent"
      PROVE  /\ status' = [status EXCEPT ![t] = "pending"]
             /\ created' = [created EXCEPT ![t] = inserts]
             /\ inserts' = inserts + 1
  BY <1>6 DEF Propose
<1> HIDE DEF Stays, TypeOK, store
<1>7. Stays \/ \E t \in Triples :
                /\ status[t] = "absent"
                /\ status' = [status EXCEPT ![t] = "pending"]
                /\ created' = [created EXCEPT ![t] = inserts]
                /\ inserts' = inserts + 1
  BY <1>1, <1>2, <1>3, <1>4, <1>5, <1>6 DEF Next, ServerStep, Work
<1> QED
  BY <1>7 DEF Stays

LEMMA NumberedStep ==
    ASSUME TypeOK, Numbered, [Next]_vars PROVE Numbered'
<1> USE DEF TypeOK, Numbered
<1>1. ASSUME UNCHANGED <<created, inserts>>,
             \A t \in Triples : status'[t] = "absent" <=> status[t] = "absent"
      PROVE  Numbered'
  <2>1. Known' = Known
    BY <1>1 DEF Known
  <2> QED
    BY <1>1, <2>1
<1>2. ASSUME NEW t \in Triples, status[t] = "absent",
             status' = [status EXCEPT ![t] = "pending"],
             created' = [created EXCEPT ![t] = inserts], inserts' = inserts + 1
      PROVE  Numbered'
  <2>1. Known' = Known \cup {t} /\ t \notin Known
    BY <1>2 DEF Known
  <2>2. IsFiniteSet(Known')
    BY <2>1, FS_AddElement
  <2>3. /\ created'[t] = inserts
        /\ \A u \in Known : u \in Triples /\ created'[u] = created[u] /\ created'[u] < inserts
    BY <1>2, <2>1 DEF Known
  <2>4. \A u \in Known' : created'[u] < inserts'
    BY <1>2, <2>1, <2>3
  <2>5. \A u, v \in Known' : created'[u] = created'[v] => u = v
    BY <2>1, <2>3
  <2> QED
    BY <2>2, <2>4, <2>5
<1> QED
  BY <1>1, <1>2, QueueMoves

\* The claims ahead of t.
Ahead(t) == {u \in Pending : created[u] < created[t]}

\* Nobody overtakes: of a claim that has a row the claims ahead only become
\* fewer.
LEMMA AheadShrinks ==
    ASSUME TypeOK, Numbered, [Next]_vars, NEW t \in Known
    PROVE  Ahead(t)' \subseteq Ahead(t)
<1> SUFFICES ASSUME NEW u \in Pending', created'[u] < created'[t]
             PROVE  u \in Pending /\ created[u] < created[t]
  BY DEF Ahead
<1> USE DEF TypeOK, Numbered, Known, Pending
<1>1. t \in Triples /\ u \in Triples /\ created'[t] = created[t] /\ created[t] < inserts
  BY RowsMove
<1>2. ASSUME NEW w \in Triples, status[w] = "absent",
             status' = [status EXCEPT ![w] = "pending"],
             created' = [created EXCEPT ![w] = inserts]
      PROVE  u \in Pending /\ created[u] < created[t]
  BY <1>1, <1>2
<1>3. ASSUME UNCHANGED created,
             \A w \in Triples : status'[w] = "pending" => status[w] = "pending"
      PROVE  u \in Pending /\ created[u] < created[t]
  BY <1>1, <1>3
<1> QED
  BY <1>2, <1>3, QueueMoves

LEMMA AheadIsFinite ==
    ASSUME Numbered, NEW t PROVE IsFiniteSet(Ahead(t))
<1>1. Ahead(t) \subseteq Known
  BY DEF Ahead, Known, Pending
<1> QED
  BY <1>1, FS_Subset DEF Numbered

\* What the claim a critic listed is, however long ago that was: decided, or
\* inside the window approve_triple searches.
InWindow(t) == status[t] \in Decided \/ t \in Listed(Window)

LEMMA InWindowStays ==
    ASSUME TypeOK, TypeOK', Numbered, [Next]_vars, NEW t \in Triples, InWindow(t)
    PROVE  InWindow(t)'
<1>1. CASE status[t] \in Decided
  BY <1>1, RowsMove DEF InWindow
<1>2. CASE t \in Listed(Window) /\ status'[t] \notin Decided
  <2>1. t \in Known /\ Cardinality(Ahead(t)) < Window
    BY <1>2 DEF Listed, Pending, Known, Ahead
  <2>2. t \in Pending'
    BY <1>2, <2>1, RowsMove DEF TypeOK, Pending, Known
  <2>3. /\ IsFiniteSet(Ahead(t)) /\ IsFiniteSet(Ahead(t)')
        /\ Cardinality(Ahead(t)') <= Cardinality(Ahead(t))
    BY <2>1, AheadIsFinite, AheadShrinks, FS_Subset
  <2>4. Cardinality(Ahead(t)) \in Nat /\ Cardinality(Ahead(t)') \in Nat /\ Window \in Nat
    BY <2>3, FS_CardinalityType, GateAssumption
  <2>5. Cardinality(Ahead(t)') < Window
    BY <2>1, <2>3, <2>4
  <2> QED
    BY <2>2, <2>5 DEF InWindow, Listed, Ahead
<1> QED
  BY <1>1, <1>2 DEF InWindow

-----------------------------------------------------------------------------
(* What a critic listed, and the call it waits for                         *)

BatchesInWindow == \A k \in Critics : \A t \in batch[k] : InWindow(t)

LEMMA InWindowIsKnown ==
    ASSUME NEW t \in Triples, InWindow(t) PROVE t \in Known
BY DEF InWindow, Listed, Pending, Known, Decided

\* list_pending_triples returns no more than approve_triple looks at.
LEMMA ListedIsInWindow ==
    ASSUME Numbered, NEW t \in Listed(Clamped(Batch)) PROVE t \in Listed(Window)
<1>1. t \in Pending /\ Cardinality(Ahead(t)) < Clamped(Batch)
  BY DEF Listed, Ahead
<1>2. Clamped(Batch) \in Nat /\ Clamped(Batch) <= Window /\ Window \in Nat
  BY GateAssumption, CriticAssumption DEF Clamped
<1>3. Cardinality(Ahead(t)) \in Nat
  BY AheadIsFinite, FS_CardinalityType
<1>4. Cardinality(Ahead(t)) < Window
  BY <1>1, <1>2, <1>3
<1> QED
  BY <1>1, <1>4 DEF Listed, Ahead

\* Only a listing brings claims into a batch.
LEMMA BatchFromListing ==
    ASSUME CriticTyped, [CriticNext]_allVars, NEW k \in Critics, NEW t \in batch'[k],
           t \notin batch[k]
    PROVE  ListPending(k) /\ t \in Listed(Clamped(Batch))
<1>1. Acts(k)
  BY OneActs DEF CriticTyped, Still
<1> QED
  BY <1>1 DEF CriticTyped, CriticTypeOK, Acts, Step, ListPending, Decide, DecideDry,
              ReviewRaises, Answered, CallLost, Advance, FinishRun, Die

LEMMA BatchesStep ==
    ASSUME CriticTyped, Numbered, BatchesInWindow, [CriticNext]_allVars
    PROVE  BatchesInWindow'
<1> SUFFICES ASSUME NEW k \in Critics, NEW t \in batch'[k] PROVE InWindow(t)'
  BY DEF BatchesInWindow
<1>1. TypeOK /\ [Next]_vars /\ TypeOK' /\ t \in Triples
  BY StepIsGateStep, CriticTypedStep DEF CriticTyped, CriticTypeOK
<1>2. InWindow(t)
  <2>1. CASE t \in batch[k]
    BY <2>1 DEF BatchesInWindow
  <2>2. CASE t \notin batch[k]
    BY <2>2, BatchFromListing, ListedIsInWindow DEF InWindow
  <2> QED
    BY <2>1, <2>2
<1> QED
  BY <1>1, <1>2, InWindowStays

\* The call a critic waits for is its own and about the claim under review.
CallsOwned ==
    /\ \A k \in Critics :
          call[k] # NoCall => pc[call[k]] # "idle" /\ target[call[k]] = Under(k)
    /\ \A k, l \in Critics : call[k] = call[l] /\ call[k] # NoCall => k = l

\* The claim under review stays the same until the critic is through with it.
LEMMA UnderStays ==
    ASSUME CriticTyped, Numbered, BatchesInWindow, [CriticNext]_allVars,
           NEW k \in Critics, batch[k] # {}, batch'[k] = batch[k]
    PROVE  Under(k)' = Under(k)
<1>1. CriticTypeOK /\ CriticTypeOK' /\ TypeOK /\ [Next]_vars
  BY StepIsGateStep, CriticTypedStep DEF CriticTyped, CriticTypeOK
<1>2. \A t \in batch[k] : t \in Known /\ t \in Triples /\ created'[t] = created[t]
                          /\ created[t] \in Nat
  BY <1>1, InWindowIsKnown, RowsMove DEF BatchesInWindow, CriticTypeOK, TypeOK, Known
<1>3. Under(k) \in batch[k] /\ \A u \in batch[k] : created[Under(k)] <= created[u]
  BY <1>1, UnderIsOldest
<1>4. Under(k)' \in batch'[k] /\ \A u \in batch'[k] : created'[Under(k)'] <= created'[u]
  <2>1. batch'[k] \in SUBSET Triples /\ created' \in [Triples -> Nat]
    BY <1>1 DEF CriticTypeOK, TypeOK
  <2> QED
    BY <2>1, OldestExists DEF Under
<1>5. created[Under(k)] <= created[Under(k)'] /\ created[Under(k)'] <= created[Under(k)]
  BY <1>2, <1>3, <1>4
<1>6. created[Under(k)] = created[Under(k)']
  BY <1>2, <1>3, <1>4, <1>5
<1> QED
  BY <1>2, <1>3, <1>4, <1>6 DEF Numbered

\* Nobody releases the slot of a call a critic goes on waiting for.
LEMMA AwaitedStays ==
    ASSUME CriticTyped, CallsOwned, [CriticNext]_allVars, NEW k \in Critics,
           call[k] # NoCall, call'[k] = call[k]
    PROVE  pc'[call[k]] # "idle" /\ target'[call[k]] = target[call[k]]
<1>1. call[k] \in Calls /\ pc[call[k]] # "idle" /\ TypeOK /\ [Next]_vars
  BY StepIsGateStep DEF CriticTyped, CriticTypeOK, CallsOwned
<1>2. pc'[call[k]] # "idle"
  <2> USE DEF TypeOK
  <2>1. ASSUME NEW l \in Critics, Decide(l) PROVE pc'[call[k]] # "idle"
    BY <1>1, <2>1 DEF Decide, BeginApprove, BeginReject, Begin
  <2>2. ASSUME NEW l \in Critics, Answered(l) PROVE pc'[call[k]] # "idle"
    <3>1. call'[l] = NoCall /\ call[l] # NoCall /\ Release(call[l])
      BY <2>2 DEF Answered, Advance, CriticTyped, CriticTypeOK
    <3>2. call[l] # call[k]
      BY <3>1 DEF CallsOwned
    <3> QED
      BY <1>1, <3>1, <3>2 DEF Release
  <2>3. ASSUME NEW c \in Calls, ReleaseUnclaimed(c) PROVE pc'[call[k]] # "idle"
    BY <1>1, <2>3 DEF ReleaseUnclaimed, Release
  <2>4. ASSUME NEW c \in Calls, Work(c) \/ PgFails(c) \/ Neo4jFails(c) \/ CypherFailsUnread(c)
        PROVE  pc'[call[k]] # "idle"
    BY <1>1, <2>4 DEF Work, ReadTarget, MarkApproved, MarkRejected, CommitEdge, PgFails,
                      Neo4jFails, CypherFailsUnread, Finish
  <2>5. ASSUME ApiCrash \/ \E t \in Triples, v \in Conf : Propose(t, v)
        PROVE  pc'[call[k]] # "idle"
    BY <1>1, <2>5 DEF ApiCrash, Propose, slots
  <2>6. ASSUME UNCHANGED vars PROVE pc'[call[k]] # "idle"
    BY <1>1, <2>6 DEF vars
  <2> QED
    BY <2>1, <2>2, <2>3, <2>4, <2>5, <2>6
       DEF CriticNext, Step, ListPending, DecideDry, ReviewRaises, FinishRun, CallLost,
           Die, Serve, Environment, allVars
<1> QED
  BY <1>1, <1>2, SlotsMove

\* Only Decide makes a critic wait for a call it did not wait for before.
LEMMA CallFromDecide ==
    ASSUME CriticTyped, [CriticNext]_allVars, NEW k \in Critics,
           call'[k] # NoCall, call'[k] # call[k]
    PROVE  Decide(k)
<1>1. Acts(k)
  BY OneActs DEF CriticTyped, Still
<1> QED
  BY <1>1 DEF CriticTyped, CriticTypeOK, Acts, Step, ListPending, DecideDry,
              ReviewRaises, Answered, CallLost, Advance, FinishRun, Die

\* A critic that goes on waiting keeps its batch.
LEMMA BatchOfAwaiting ==
    ASSUME CriticTyped, [CriticNext]_allVars, NEW k \in Critics, call'[k] # NoCall
    PROVE  batch'[k] = batch[k] /\ batch[k] # {}
<1>1. CASE Still(k)
  BY <1>1 DEF Still, CriticTyped, Awaiting
<1>2. CASE Acts(k)
  BY <1>2 DEF CriticTyped, CriticTypeOK, Awaiting, Acts, Step, ListPending, Decide,
              DecideDry, Reviewing, ReviewRaises, Answered, CallLost, Advance,
              FinishRun, Die
<1> QED
  BY <1>1, <1>2, OneActs DEF CriticTyped

LEMMA CallsOwnedStep ==
    ASSUME CriticTyped, Numbered, BatchesInWindow, CallsOwned, [CriticNext]_allVars
    PROVE  CallsOwned'
<1>1. ASSUME NEW k \in Critics, call'[k] # NoCall
      PROVE  pc'[call'[k]] # "idle" /\ target'[call'[k]] = Under(k)'
  <2>1. Under(k)' = Under(k)
    BY <1>1, BatchOfAwaiting, UnderStays
  <2>2. CASE call'[k] = call[k]
    BY <1>1, <2>1, <2>2, AwaitedStays DEF CallsOwned
  <2>3. CASE call'[k] # call[k]
    <3>1. PICK c \in Calls : /\ BeginApprove(c, Under(k)) \/ BeginReject(c, Under(k))
                             /\ call' = [call EXCEPT ![k] = c]
      BY <1>1, <2>3, CallFromDecide DEF Decide
    <3> QED
      BY <2>1, <3>1 DEF BeginApprove, BeginReject, Begin, CriticTyped, CriticTypeOK, TypeOK
  <2> QED
    BY <2>2, <2>3
<1>2. ASSUME NEW k \in Critics, NEW l \in Critics, call'[k] = call'[l], call'[k] # NoCall
      PROVE  k = l
  <2>1. ASSUME NEW m \in Critics, NEW n \in Critics, Decide(m), m # n,
               call'[m] = call'[n]
        PROVE  FALSE
    <3>1. Still(n) /\ call'[m] \in Calls /\ pc[call'[m]] = "idle"
      BY <2>1, OthersStill DEF Decide, BeginApprove, BeginReject, Begin, CriticTyped,
                               CriticTypeOK, Acts, Step
    <3>2. call[n] = call'[m] /\ call[n] # NoCall
      BY <2>1, <3>1, CriticAssumption DEF Still
    <3> QED
      BY <3>1, <3>2 DEF CallsOwned
  <2>2. CASE call'[k] = call[k] /\ call'[l] = call[l]
    BY <1>2, <2>2 DEF CallsOwned
  <2>3. CASE call'[k] # call[k] \/ call'[l] # call[l]
    BY <1>2, <2>1, <2>3, CallFromDecide
  <2> QED
    BY <2>2, <2>3
<1> QED
  BY <1>1, <1>2 DEF CallsOwned

-----------------------------------------------------------------------------
(* Races and counts                                                        *)

\* What the following steps rest on.
Base ==
    /\ CriticTyped
    /\ IInv
    /\ TargetsExist
    /\ Numbered
    /\ BatchesInWindow
    /\ CallsOwned

\* "race" about a claim some critic listed means that it has been decided.
LEMMA RaceIsRealStep ==
    ASSUME Base, CriticRaceIsReal, [CriticNext]_allVars PROVE CriticRaceIsReal'
<1> SUFFICES ASSUME NEW k \in Critics, call'[k] # NoCall, answer'[call'[k]] = "race"
             PROVE  status'[target'[call'[k]]] \in Decided
  BY DEF CriticRaceIsReal
<1> USE DEF Base
<1>1. [Next]_vars /\ TypeOK
  BY StepIsGateStep DEF CriticTyped, CriticTypeOK
<1>2. call'[k] = call[k]
  <2> SUFFICES ASSUME call'[k] # call[k] PROVE FALSE
    OBVIOUS
  <2>1. Decide(k)
    BY CallFromDecide
  <2>2. PICK c \in Calls : call'[k] = c /\ pc[c] = "idle" /\ answer'[c] = answer[c]
    BY <2>1 DEF Decide, BeginApprove, BeginReject, Begin, CriticTyped, CriticTypeOK
  <2> QED
    BY <2>2 DEF IInv, SlotsConsistent
<1>3. call[k] \in Calls /\ target'[call[k]] = target[call[k]] /\ target[call[k]] = Under(k)
  BY <1>2, AwaitedStays DEF CallsOwned, CriticTyped, CriticTypeOK
<1>4. Under(k) \in Triples /\ InWindow(Under(k))
  BY <1>2, UnderIsOldest DEF CriticTyped, Awaiting, BatchesInWindow
<1>5. CASE answer[call[k]] = "race"
  BY <1>1, <1>2, <1>3, <1>4, <1>5, RowsMove DEF CriticRaceIsReal
<1>6. CASE answer[call[k]] # "race"
  <2>1. /\ Under(k) \notin Listed(Window) \/ status[Under(k)] # "pending"
        /\ UNCHANGED status
    BY <1>1, <1>2, <1>3, <1>6, RaceGiven
  <2> QED
    BY <1>2, <1>3, <1>4, <2>1 DEF InWindow, Listed, Pending
<1> QED
  BY <1>5, <1>6

\* A critic that is not on a dry run counts a claim only on an answer that is
\* not an exception.
LEMMA CountFromAnswer ==
    ASSUME CriticTyped, [CriticNext]_allVars, NEW k \in Critics, k \notin DryRun,
           NEW t \in approvals'[k] \cup rejections'[k],
           t \notin approvals[k] \cup rejections[k]
    PROVE  Answered(k) /\ t = Under(k) /\ answer[call[k]] # "error"
<1>1. Acts(k)
  BY OneActs DEF CriticTyped, Still
<1>2. Answered(k)
  BY <1>1 DEF CriticTyped, CriticTypeOK, Acts, Step, ListPending, Decide, DecideDry,
              ReviewRaises, CallLost, Advance, FinishRun, Die, Reviewing
<1> QED
  BY <1>2 DEF Answered, Count, CriticTyped, CriticTypeOK

\* A claim whose call was answered with anything but an exception is decided.
LEMMA AnsweredIsDecided ==
    ASSUME Base, CriticRaceIsReal, NEW k \in Critics, Answered(k),
           answer[call[k]] # "error"
    PROVE  status[Under(k)] \in Decided
<1> USE DEF Base
<1>1. /\ call[k] # NoCall /\ call[k] \in Calls /\ pc[call[k]] = "done"
      /\ target[call[k]] = Under(k)
  BY DEF Answered, Release, CallsOwned, CriticTyped, CriticTypeOK
<1>2. answer[call[k]] \in {"approved", "rejected", "race", "neo4j_failed"}
  BY <1>1 DEF IInv, SlotsConsistent, TypeOK, Answers
<1> QED
  BY <1>1, <1>2 DEF IInv, AnswersTrue, CriticRaceIsReal, Decided

LEMMA CountedStep ==
    ASSUME Base, CriticRaceIsReal, CountedAreDecided, [CriticNext]_allVars
    PROVE  CountedAreDecided'
<1> SUFFICES ASSUME NEW k \in Critics, k \notin DryRun,
                    NEW t \in approvals'[k] \cup rejections'[k]
             PROVE  status'[t] \in Decided
  BY DEF CountedAreDecided
<1> USE DEF Base
<1>1. [Next]_vars /\ TypeOK
  BY StepIsGateStep DEF CriticTyped, CriticTypeOK
<1>2. CASE t \in approvals[k] \cup rejections[k]
  BY <1>1, <1>2, RowsMove DEF CountedAreDecided, CriticTyped, CriticTypeOK
<1>3. CASE t \notin approvals[k] \cup rejections[k]
  <2>1. Answered(k) /\ t = Under(k) /\ answer[call[k]] # "error"
    BY <1>3, CountFromAnswer
  <2>2. status[t] \in Decided /\ UNCHANGED status
    BY <2>1, AnsweredIsDecided DEF Answered, Release, store
  <2> QED
    BY <2>2
<1> QED
  BY <1>2, <1>3

\* In every reachable state.
LEMMA BaseInvariant == CriticSpec => []Base
<1>1. CriticInit => Numbered /\ BatchesInWindow /\ CallsOwned /\ TargetsExist
  <2> SUFFICES ASSUME CriticInit PROVE Numbered /\ BatchesInWindow /\ CallsOwned /\ TargetsExist
    OBVIOUS
  <2>1. Known = {}
    BY DEF CriticInit, Init, Known
  <2> QED
    BY <2>1, FS_EmptySet DEF CriticInit, Init, Numbered, BatchesInWindow, CallsOwned, TargetsExist
<1>2. CriticTyped /\ CriticTyped' /\ Numbered /\ BatchesInWindow /\ CallsOwned /\ TargetsExist
        /\ [CriticNext]_allVars
        => (Numbered /\ BatchesInWindow /\ CallsOwned /\ TargetsExist)'
  BY StepIsGateStep, NumberedStep, BatchesStep, CallsOwnedStep, TargetsExistStep
     DEF CriticTyped, CriticTypeOK
<1> QED
  BY <1>1, <1>2, CriticTypedInvariant, CriticsAreClients, Invariance, PTL DEF CriticSpec, Base

\* For every batch limit, window and number of critics: a critic is never told
\* "race" about a claim that nobody has decided.
THEOREM CriticRaceIsAlwaysReal == CriticSpec => []CriticRaceIsReal
<1>1. CriticInit => CriticRaceIsReal
  BY DEF CriticInit, CriticRaceIsReal
<1>2. Base /\ CriticRaceIsReal /\ [CriticNext]_allVars => CriticRaceIsReal'
  BY RaceIsRealStep
<1> QED
  BY <1>1, <1>2, BaseInvariant, PTL DEF CriticSpec

\* A run's summary counts decided claims only, whatever calls raised, were
\* lost, or found the claim decided by somebody else.
THEOREM CountedAreReallyDecided == CriticSpec => []CountedAreDecided
<1>1. CriticInit => CountedAreDecided
  BY DEF CriticInit, CountedAreDecided
<1>2. Base /\ CriticRaceIsReal /\ CountedAreDecided /\ [CriticNext]_allVars
        => CountedAreDecided'
  BY CountedStep
<1> QED
  BY <1>1, <1>2, BaseInvariant, CriticRaceIsAlwaysReal, PTL DEF CriticSpec

-----------------------------------------------------------------------------
(* The graph holds what was reviewed                                       *)

Reviewed(t) ==
    /\ t \notin Blank \cup OffOntology
    /\ t \in Stored
    /\ "approved" \in Outcomes[t]

\* Every call on the way to an approval, and every approval, had a review.
OnlyReviewedApproved ==
    /\ \A t \in Triples : status[t] = "approved" => Reviewed(t)
    /\ \A c \in Calls : pc[c] \in {"read", "mark", "commit"} => Reviewed(target[c])

\* Only an approval under way makes a row approved, and only approve_triple's
\* beginning sets one under way.
LEMMA ApprovalMoves ==
    ASSUME TypeOK, [Next]_vars
    PROVE  /\ \A t \in Triples : status'[t] = "approved" =>
                \/ status[t] = "approved"
                \/ \E c \in Calls : pc[c] = "mark" /\ target[c] = t
           /\ \A c \in Calls : pc'[c] \in {"read", "mark", "commit"} =>
                \/ pc[c] \in {"read", "mark", "commit"} /\ target'[c] = target[c]
                \/ BeginApprove(c, target'[c])
<1> DEFINE Rows == \A t \in Triples : status'[t] = "approved" =>
                \/ status[t] = "approved"
                \/ \E c \in Calls : pc[c] = "mark" /\ target[c] = t
           Slots == \A c \in Calls : pc'[c] \in {"read", "mark", "commit"} =>
                \/ pc[c] \in {"read", "mark", "commit"} /\ target'[c] = target[c]
                \/ BeginApprove(c, target'[c])
<1> USE DEF TypeOK, store, graph, slots
<1>1. ASSUME NEW t \in Triples, NEW v \in Conf, Propose(t, v) PROVE Rows /\ Slots
  BY <1>1 DEF Propose
<1>2. ASSUME NEW c \in Calls, NEW t \in Triples, BeginApprove(c, t) PROVE Rows /\ Slots
  BY <1>2 DEF BeginApprove, Begin
<1>3. ASSUME NEW c \in Calls, NEW t \in Triples, BeginReject(c, t) PROVE Rows /\ Slots
  BY <1>3 DEF BeginReject, Begin
<1>4. ASSUME NEW c \in Calls, MarkApproved(c) \/ MarkRejected(c) PROVE Rows /\ Slots
  BY <1>4 DEF MarkApproved, MarkRejected, Finish
<1>5. ASSUME NEW c \in Calls, PgFails(c) PROVE Rows /\ Slots
  BY <1>5 DEF PgFails, Finish
<1>6. ASSUME NEW c \in Calls,
             ReadTarget(c) \/ CommitEdge(c) \/ Neo4jFails(c) \/ CypherFailsUnread(c)
               \/ Release(c)
      PROVE  Rows /\ Slots
  BY <1>6 DEF ReadTarget, CommitEdge, Neo4jFails, CypherFailsUnread, Release, Finish
<1>7. ASSUME ApiCrash \/ UNCHANGED vars PROVE Rows /\ Slots
  BY <1>7 DEF ApiCrash, vars, InFlight
<1> HIDE DEF Rows, Slots, TypeOK, store, graph, slots
<1>8. Rows /\ Slots
  BY <1>1, <1>2, <1>3, <1>4, <1>5, <1>6, <1>7 DEF Next, ServerStep, Work
<1> QED
  BY <1>8 DEF Rows, Slots

\* A slot begins to serve a call when a critic decides about a claim.
LEMMA BeginsFromDecide ==
    ASSUME CriticTyped, [CriticNext]_allVars, NEW c \in Calls,
           pc[c] = "idle", pc'[c] # "idle"
    PROVE  \E k \in Critics :
             /\ Decide(k) /\ target'[c] = Under(k) /\ UNCHANGED store
             /\ pc'[c] = "read" => "approved" \in Opinions(Under(k))
<1> USE DEF CriticTyped, CriticTypeOK, TypeOK
<1>1. \E k \in Critics : Decide(k)
  BY DEF CriticNext, Step, ListPending, DecideDry, ReviewRaises, Answered, FinishRun,
         CallLost, Die, Serve, ReleaseUnclaimed, Environment, allVars, vars, slots,
         Work, Propose, ReadTarget, MarkApproved, MarkRejected, CommitEdge, PgFails,
         Neo4jFails, CypherFailsUnread, ApiCrash, Release, Finish, InFlight
<1>2. PICK k \in Critics : Decide(k)
  BY <1>1
<1>3. PICK v \in Opinions(Under(k)) \ {"raises"}, d \in Calls :
         IF v = "approved" THEN BeginApprove(d, Under(k)) ELSE BeginReject(d, Under(k))
  BY <1>2 DEF Decide
<1>4. d = c /\ target'[c] = Under(k) /\ UNCHANGED store /\ (pc'[c] = "read" => v = "approved")
  BY <1>3 DEF BeginApprove, BeginReject, Begin
<1> QED
  BY <1>2, <1>3, <1>4

\* A critic asks for approval only of what its pipeline let through.
LEMMA ApprovalsAreReviewed ==
    ASSUME CriticTyped, [CriticNext]_allVars, NEW c \in Calls,
           pc[c] = "idle", pc'[c] = "read"
    PROVE  Reviewed(target'[c])
<1>1. "approved" \in Opinions(target'[c])
  BY BeginsFromDecide
<1> QED
  BY <1>1 DEF Opinions, StructurallySound, InOntology, Reviewed

\* What is in the graph passed both static checks, had a readable source and
\* found the SLM's approval, whatever failed and whoever else was deciding.
THEOREM GraphIsReviewed == CriticSpec => []OnlyReviewedReachGraph
<1>1. CriticInit => OnlyReviewedApproved
  BY DEF CriticInit, Init, OnlyReviewedApproved
<1>2. Base /\ OnlyReviewedApproved /\ [CriticNext]_allVars => OnlyReviewedApproved'
  <2> SUFFICES ASSUME Base, OnlyReviewedApproved, [CriticNext]_allVars
               PROVE  OnlyReviewedApproved'
    OBVIOUS
  <2>1. TypeOK /\ TypeOK' /\ [Next]_vars /\ CriticTyped
    BY StepIsGateStep, CriticTypedStep DEF Base, CriticTyped, CriticTypeOK
  <2>2. ASSUME NEW t \in Triples, status'[t] = "approved" PROVE Reviewed(t)
    BY <2>1, <2>2, ApprovalMoves DEF OnlyReviewedApproved
  <2>3. ASSUME NEW c \in Calls, pc'[c] \in {"read", "mark", "commit"}
        PROVE  Reviewed(target'[c])
    <3>1. CASE pc[c] \in {"read", "mark", "commit"} /\ target'[c] = target[c]
      BY <3>1 DEF OnlyReviewedApproved
    <3>2. CASE BeginApprove(c, target'[c])
      <4>1. pc[c] = "idle" /\ pc'[c] = "read" /\ target'[c] \in Triples
        BY <2>1, <2>3, <3>2 DEF BeginApprove, Begin, TypeOK
      <4> QED
        BY <2>1, <4>1, ApprovalsAreReviewed
    <3> QED
      BY <2>1, <2>3, <3>1, <3>2, ApprovalMoves
  <2> QED
    BY <2>2, <2>3 DEF OnlyReviewedApproved, Reviewed
<1>3. Base /\ OnlyReviewedApproved => OnlyReviewedReachGraph
  BY DEF Base, IInv, EdgeBehindGate, OnlyReviewedApproved, Reviewed, OnlyReviewedReachGraph
<1> QED
  BY <1>1, <1>2, <1>3, BaseInvariant, PTL DEF CriticSpec

-----------------------------------------------------------------------------
(* The order of decisions                                                  *)

\* Without failing statements, crashes and lost connections.
Calm == Faults \cap {"pg", "crash", "net"} = {}

MayRaise(u) == "raises" \in Outcomes[u]

\* No call ends in an exception of the tool.
NoError == \A c \in Calls : answer[c] # "error"

\* Of the pending claims older than one it has before it, a critic only lacks
\* those whose review raised.
OlderInBatch ==
    \A k \in Critics \ DryRun : \A t \in batch[k] : \A u \in Triples \ batch[k] :
        status[u] = "pending" /\ created[u] < created[t] => MayRaise(u)

\* The same of a claim a call is about to decide.
OlderThanCall ==
    \A c \in Calls : pc[c] \in {"read", "mark", "reject"} =>
        \A u \in Triples :
            status[u] = "pending" /\ created[u] < created[target[c]] => MayRaise(u)

\* A claim that is pending after a step and older than a known one was so
\* before it.
LEMMA OlderBefore ==
    ASSUME TypeOK, Numbered, [Next]_vars, NEW t \in Known, NEW u \in Triples,
           status'[u] = "pending", created'[u] < created'[t]
    PROVE  status[u] = "pending" /\ created[u] < created[t]
<1>1. u \in Ahead(t)'
  BY DEF Ahead, Pending
<1> QED
  BY <1>1, AheadShrinks DEF Ahead, Pending

\* Whoever lists a claim lists the pending ones before it.
LEMMA ListingIsPrefix ==
    ASSUME TypeOK, Numbered, NEW n \in Nat, NEW t \in Listed(n), NEW u \in Pending,
           created[u] < created[t]
    PROVE  u \in Listed(n)
<1>1. t \in Known /\ u \in Known /\ t \in Triples /\ u \in Triples
  BY DEF Listed, Pending, Known
<1>2. Ahead(u) \subseteq Ahead(t)
  BY <1>1 DEF Ahead, Pending, TypeOK
<1>3. IsFiniteSet(Ahead(t)) /\ IsFiniteSet(Ahead(u)) /\ Cardinality(Ahead(u)) <= Cardinality(Ahead(t))
  BY <1>2, AheadIsFinite, FS_Subset
<1>4. Cardinality(Ahead(t)) < n
  BY DEF Listed, Ahead
<1>5. Cardinality(Ahead(u)) < n
  BY <1>3, <1>4, FS_CardinalityType
<1> QED
  BY <1>5 DEF Listed, Ahead

LEMMA NoErrorStep ==
    ASSUME Calm, TypeOK, NoError, [Next]_vars PROVE NoError'
<1> USE DEF NoError, TypeOK
<1>1. ASSUME NEW t \in Triples, NEW v \in Conf, Propose(t, v) PROVE NoError'
  BY <1>1 DEF Propose, slots
<1>2. ASSUME NEW c \in Calls, NEW t \in Triples, BeginApprove(c, t) \/ BeginReject(c, t)
      PROVE  NoError'
  BY <1>2 DEF BeginApprove, BeginReject, Begin
<1>3. ASSUME NEW c \in Calls, Work(c) PROVE NoError'
  BY <1>3 DEF Work, ReadTarget, MarkApproved, MarkRejected, CommitEdge, Finish
<1>4. ASSUME NEW c \in Calls, Neo4jFails(c) \/ CypherFailsUnread(c) PROVE NoError'
  BY <1>4 DEF Neo4jFails, CypherFailsUnread, Finish
<1>5. ASSUME NEW c \in Calls, Release(c) PROVE NoError'
  BY <1>5 DEF Release
<1>6. ASSUME UNCHANGED vars PROVE NoError'
  BY <1>6 DEF vars
<1> QED
  BY <1>1, <1>2, <1>3, <1>4, <1>5, <1>6 DEF Calm, Next, ServerStep, PgFails, ApiCrash

\* A critic that goes on with its run drops a pending claim only when its
\* review raised.
LEMMA DroppedFromBatch ==
    ASSUME Calm, Base, CriticRaceIsReal, NoError, [CriticNext]_allVars,
           NEW k \in Critics, k \notin DryRun, ~ListPending(k),
           NEW u \in batch[k], u \notin batch'[k], batch'[k] # {}
    PROVE  status[u] \in Decided \/ MayRaise(u)
<1> USE DEF Base, CriticTyped, CriticTypeOK
<1>1. Acts(k)
  BY OneActs DEF Still
<1>2. CASE ReviewRaises(k)
  <2>1. u = Under(k) /\ "raises" \in Opinions(u)
    BY <1>2 DEF ReviewRaises, Advance, Calm
  <2> QED
    BY <2>1 DEF Opinions, MayRaise
<1>3. CASE Answered(k)
  <2>1. u = Under(k) /\ answer[call[k]] # "error"
    BY <1>3 DEF Answered, Advance, NoError
  <2> QED
    BY <1>3, <2>1, AnsweredIsDecided
<1>4. CASE Decide(k) \/ DecideDry(k) \/ CallLost(k) \/ FinishRun(k) \/ Die(k)
  BY <1>4 DEF Decide, DecideDry, CallLost, FinishRun, Die, Calm
<1> QED
  BY <1>1, <1>2, <1>3, <1>4 DEF Acts, Step

LEMMA OlderInBatchStep ==
    ASSUME Calm, Base, CriticRaceIsReal, NoError, OlderInBatch, [CriticNext]_allVars
    PROVE  OlderInBatch'
<1> SUFFICES ASSUME NEW k \in Critics, k \notin DryRun, NEW t \in batch'[k],
                    NEW u \in Triples, u \notin batch'[k],
                    status'[u] = "pending", created'[u] < created'[t]
             PROVE  MayRaise(u)
  BY DEF OlderInBatch, MayRaise
<1>1. CriticTypeOK /\ CriticTypeOK' /\ TypeOK /\ [Next]_vars /\ Numbered
  BY StepIsGateStep, CriticTypedStep DEF Base, CriticTyped, CriticTypeOK
<1>2. CASE ListPending(k)
  <2>1. batch'[k] = Listed(Clamped(Batch)) /\ UNCHANGED <<status, created>>
    BY <1>1, <1>2 DEF ListPending, vars, CriticTypeOK
  <2>2. Clamped(Batch) \in Nat
    BY GateAssumption, CriticAssumption DEF Clamped
  <2>3. u \in Pending /\ created[u] < created[t]
    BY <2>1 DEF Pending
  <2>4. u \in Listed(Clamped(Batch))
    BY <1>1, <2>1, <2>2, <2>3, ListingIsPrefix
  <2> QED
    BY <2>1, <2>4
<1>3. CASE ~ListPending(k)
  <2>1. t \in batch[k] /\ t \in Known
    BY <1>1, <1>3, BatchFromListing, InWindowIsKnown
       DEF Base, BatchesInWindow, CriticTypeOK
  <2>2. status[u] = "pending" /\ created[u] < created[t]
    BY <1>1, <2>1, OlderBefore
  <2>3. CASE u \in batch[k]
    BY <1>3, <2>2, <2>3, DroppedFromBatch DEF Decided
  <2>4. CASE u \notin batch[k]
    BY <2>1, <2>2, <2>4 DEF OlderInBatch
  <2> QED
    BY <2>3, <2>4
<1> QED
  BY <1>2, <1>3

\* Who decides a row, and how a call gets to where it decides.
LEMMA DecisionMoves ==
    ASSUME TypeOK, [Next]_vars
    PROVE  /\ \A t \in Triples : status'[t] \in Decided =>
                \/ status[t] \in Decided
                \/ \E c \in Calls : pc[c] \in {"mark", "reject"} /\ target[c] = t
           /\ \A c \in Calls : pc'[c] \in {"read", "mark", "reject"} =>
                \/ pc[c] \in {"read", "mark", "reject"} /\ target'[c] = target[c]
                \/ pc[c] = "idle"
<1> DEFINE Rows == \A t \in Triples : status'[t] \in Decided =>
                \/ status[t] \in Decided
                \/ \E c \in Calls : pc[c] \in {"mark", "reject"} /\ target[c] = t
           Slots == \A c \in Calls : pc'[c] \in {"read", "mark", "reject"} =>
                \/ pc[c] \in {"read", "mark", "reject"} /\ target'[c] = target[c]
                \/ pc[c] = "idle"
<1> USE DEF TypeOK, store, graph, slots, Decided
<1>1. ASSUME NEW t \in Triples, NEW v \in Conf, Propose(t, v) PROVE Rows /\ Slots
  BY <1>1 DEF Propose
<1>2. ASSUME NEW c \in Calls, NEW t \in Triples, BeginApprove(c, t) \/ BeginReject(c, t)
      PROVE  Rows /\ Slots
  BY <1>2 DEF BeginApprove, BeginReject, Begin
<1>3. ASSUME NEW c \in Calls, MarkApproved(c) \/ MarkRejected(c) PROVE Rows /\ Slots
  BY <1>3 DEF MarkApproved, MarkRejected, Finish
<1>4. ASSUME NEW c \in Calls, PgFails(c) PROVE Rows /\ Slots
  BY <1>4 DEF PgFails, Finish
<1>5. ASSUME NEW c \in Calls,
             ReadTarget(c) \/ CommitEdge(c) \/ Neo4jFails(c) \/ CypherFailsUnread(c)
               \/ Release(c)
      PROVE  Rows /\ Slots
  BY <1>5 DEF ReadTarget, CommitEdge, Neo4jFails, CypherFailsUnread, Release, Finish
<1>6. ASSUME ApiCrash \/ UNCHANGED vars PROVE Rows /\ Slots
  BY <1>6 DEF ApiCrash, vars, InFlight
<1> HIDE DEF Rows, Slots, TypeOK, store, graph, slots, Decided
<1>7. Rows /\ Slots
  BY <1>1, <1>2, <1>3, <1>4, <1>5, <1>6 DEF Next, ServerStep, Work
<1> QED
  BY <1>7 DEF Rows, Slots

LEMMA OlderThanCallStep ==
    ASSUME Calm, Base, OlderInBatch, OlderThanCall, [CriticNext]_allVars
    PROVE  OlderThanCall'
<1> SUFFICES ASSUME NEW c \in Calls, pc'[c] \in {"read", "mark", "reject"},
                    NEW u \in Triples,
                    status'[u] = "pending", created'[u] < created'[target'[c]]
             PROVE  MayRaise(u)
  BY DEF OlderThanCall, MayRaise
<1>1. CriticTyped /\ CriticTypeOK /\ TypeOK /\ [Next]_vars /\ Numbered
  BY StepIsGateStep DEF Base, CriticTyped, CriticTypeOK
<1>2. CASE pc[c] \in {"read", "mark", "reject"} /\ target'[c] = target[c]
  <2>1. target[c] \in Known
    BY <1>1, <1>2 DEF TypeOK, Base, TargetsExist, Known
  <2>2. status[u] = "pending" /\ created[u] < created[target[c]]
    BY <1>1, <1>2, <2>1, OlderBefore
  <2> QED
    BY <1>2, <2>2 DEF OlderThanCall
<1>3. CASE pc[c] = "idle"
  <2>1. PICK k \in Critics : Decide(k) /\ target'[c] = Under(k) /\ UNCHANGED store
    BY <1>1, <1>3, BeginsFromDecide
  <2>2. /\ k \notin DryRun /\ Under(k) \in batch[k] /\ Under(k) \in Triples
        /\ \A w \in batch[k] : created[Under(k)] <= created[w]
    BY <1>1, <2>1, UnderIsOldest DEF Decide, Reviewing
  <2>3. status[u] = "pending" /\ created[u] < created[Under(k)]
    BY <2>1 DEF store
  <2>4. u \notin batch[k]
    BY <1>1, <2>2, <2>3 DEF TypeOK
  <2> QED
    BY <2>2, <2>3, <2>4 DEF OlderInBatch
<1> QED
  BY <1>1, <1>2, <1>3, DecisionMoves

LEMMA OldestFirstStep ==
    ASSUME Base, OlderThanCall, OldestFirst, [CriticNext]_allVars
    PROVE  OldestFirst'
<1> SUFFICES ASSUME NEW t \in Triples, NEW u \in Triples, status'[t] \in Decided,
                    status'[u] = "pending", created'[u] < created'[t]
             PROVE  MayRaise(u)
  BY DEF OldestFirst, MayRaise
<1>1. TypeOK /\ [Next]_vars /\ Numbered
  BY StepIsGateStep DEF Base, CriticTyped, CriticTypeOK
<1>2. CASE status[t] \in Decided
  <2>1. status[u] = "pending" /\ created[u] < created[t]
    BY <1>1, <1>2, OlderBefore DEF Known, Decided
  <2> QED
    BY <1>2, <2>1 DEF OldestFirst, MayRaise
<1>3. ASSUME NEW c \in Calls, pc[c] \in {"mark", "reject"}, target[c] = t
      PROVE  MayRaise(u)
  <2>1. t \in Known
    BY <1>3 DEF Base, TargetsExist, Known
  <2>2. status[u] = "pending" /\ created[u] < created[t]
    BY <1>1, <2>1, OlderBefore
  <2> QED
    BY <1>3, <2>2 DEF OlderThanCall
<1> QED
  BY <1>1, <1>2, <1>3, DecisionMoves

\* As long as statements succeed and nothing crashes, claims are decided in
\* the order of their arrival by any number of critics, even when some die in
\* the middle of a run; only a claim whose review may raise is overtaken.
THEOREM OldestAreDecidedFirst ==
    ASSUME Faults \cap {"pg", "crash", "net"} = {}
    PROVE  CriticSpec => []OldestFirst
<1>1. CriticInit => NoError /\ OlderInBatch /\ OlderThanCall /\ OldestFirst
  BY DEF CriticInit, Init, NoError, OlderInBatch, OlderThanCall, OldestFirst, Decided
<1>2. Base /\ CriticRaceIsReal /\ NoError /\ OlderInBatch /\ OlderThanCall /\ OldestFirst
        /\ [CriticNext]_allVars
        => (NoError /\ OlderInBatch /\ OlderThanCall /\ OldestFirst)'
  <2>1. Calm
    BY DEF Calm
  <2>2. Base /\ NoError /\ [CriticNext]_allVars => NoError'
    BY <2>1, StepIsGateStep, NoErrorStep DEF Base, CriticTyped, CriticTypeOK
  <2> QED
    BY <2>1, <2>2, OlderInBatchStep, OlderThanCallStep, OldestFirstStep
<1> QED
  BY <1>1, <1>2, BaseInvariant, CriticRaceIsAlwaysReal, PTL DEF CriticSpec
=============================================================================
