-------------------------- MODULE TripleGateProofs --------------------------
(***************************************************************************)
(* TripleGate, proved for every set of claims, every number of open calls, *)
(* every window and every combination of faults.                           *)
(***************************************************************************)
EXTENDS TripleGate, FiniteSetTheorems, TLAPS

-----------------------------------------------------------------------------
(* Types                                                                   *)

\* GREATEST(row, proposal) is a confidence and never lower than the row's.
LEMMA GreatestBounds ==
    ASSUME NEW a \in Conf, NEW b \in Conf
    PROVE  /\ Greatest(a, b) \in Conf
           /\ Greatest(a, b) >= a
BY GateAssumption DEF Greatest, Conf

\* Every tool call, fault and crash keeps the variables in their types.
LEMMA TypeStep ==
    ASSUME TypeOK, [Next]_vars PROVE TypeOK'
<1> USE DEF TypeOK, store, graph, slots
<1>1. ASSUME NEW t \in Triples, NEW v \in Conf, Propose(t, v) PROVE TypeOK'
  BY <1>1, GreatestBounds DEF Propose
<1>2. ASSUME NEW c \in Calls, NEW t \in Triples,
             BeginApprove(c, t) \/ BeginReject(c, t)
      PROVE TypeOK'
  BY <1>2 DEF BeginApprove, BeginReject, Begin, InFlight
<1>3. ASSUME NEW c \in Calls, ReadTarget(c) PROVE TypeOK'
  BY <1>3 DEF ReadTarget, Finish, InFlight, Answers
<1>4. ASSUME NEW c \in Calls, MarkApproved(c) PROVE TypeOK'
  BY <1>4 DEF MarkApproved, Finish, InFlight, Answers, Decided
<1>5. ASSUME NEW c \in Calls, MarkRejected(c) PROVE TypeOK'
  BY <1>5 DEF MarkRejected, Finish, InFlight, Answers, Decided
<1>6. ASSUME NEW c \in Calls, CommitEdge(c) PROVE TypeOK'
  BY <1>6 DEF CommitEdge, AddEdge, Finish, InFlight, Answers
<1>7. ASSUME NEW c \in Calls, PgFails(c) PROVE TypeOK'
  BY <1>7 DEF PgFails, Finish, InFlight, Answers, Decided
<1>8. ASSUME NEW c \in Calls, Neo4jFails(c) PROVE TypeOK'
  BY <1>8 DEF Neo4jFails, AddEdge, Finish, InFlight, Answers
<1>12. ASSUME NEW c \in Calls, CypherFailsUnread(c) PROVE TypeOK'
  BY <1>12 DEF CypherFailsUnread, Finish, InFlight, Answers
<1>9. CASE ApiCrash
  BY <1>9 DEF ApiCrash, InFlight, Answers
<1>10. ASSUME NEW c \in Calls, Release(c) PROVE TypeOK'
  BY <1>10, GateAssumption DEF Release, InFlight, Answers, Conf
<1>11. CASE UNCHANGED vars
  BY <1>11 DEF vars
<1> QED
  BY <1>1, <1>2, <1>3, <1>4, <1>5, <1>6, <1>7, <1>8, <1>9, <1>10, <1>11, <1>12
     DEF Next, ServerStep, Work

\* The rows, the relationships and the slots of the calls are always what
\* their types say, and a slot that serves a call has a claim.
THEOREM TypeCorrect == Spec => []TypeOK
<1>1. Init => TypeOK
  BY GateAssumption DEF Init, TypeOK, Conf, InFlight, Decided, Answers
<1> QED
  BY <1>1, TypeStep, PTL DEF Spec

-----------------------------------------------------------------------------
(* One lemma per step of a call: the invariant survives it.                *)

\* propose_triple: the confidence of a row only grows, its status only starts.
LEMMA ProposeKeeps ==
    ASSUME IInv, TypeOK', NEW t \in Triples, NEW v \in Conf, Propose(t, v)
    PROVE  IInv'
<1> USE DEF IInv, TypeOK
<1>1. /\ UNCHANGED <<edges, edgeConf, pc, target, seen, answer>>
      /\ \A u \in Triples : status[u] # "absent" => status'[u] = status[u]
      /\ \A u \in Triples : status'[u] = "absent" => conf'[u] = conf[u] /\ status[u] = "absent"
  BY DEF Propose, graph, slots
<1>2. \A u \in Triples : conf'[u] >= conf[u]
  <2>1. CASE status[t] = "absent"
    BY <2>1, GateAssumption DEF Propose, AbsentIsBlank, Conf
  <2>2. CASE status[t] # "absent"
    BY <2>2, GateAssumption DEF Propose, Greatest, Conf
  <2> QED
    BY <2>1, <2>2
<1>3. AbsentIsBlank'
  BY <1>1 DEF AbsentIsBlank
<1>4. SlotsConsistent' /\ AtMostOneEdge' /\ OneHolder'
  BY <1>1 DEF SlotsConsistent, AtMostOneEdge, OneHolder, Holds
<1>5. EdgeBehindGate'
  BY <1>1, <1>2, GateAssumption DEF EdgeBehindGate, Conf
<1>6. CommitPending'
  BY <1>1, <1>2, GateAssumption DEF CommitPending, Conf
<1>7. AnswersTrue'
  BY <1>1 DEF AnswersTrue, SlotsConsistent
<1> QED
  BY <1>3, <1>4, <1>5, <1>6, <1>7

\* A call that enters its slot disturbs nothing.
LEMMA BeginKeeps ==
    ASSUME IInv, TypeOK', NEW c \in Calls, NEW t \in Triples,
           NEW first \in {"read", "reject"}, Begin(c, t, first)
    PROVE  IInv'
<1> USE DEF IInv, TypeOK, Begin, store, graph
<1>1. answer[c] = "none"
  BY DEF SlotsConsistent
<1>2. AbsentIsBlank' /\ AtMostOneEdge' /\ EdgeBehindGate'
  BY DEF AbsentIsBlank, AtMostOneEdge, EdgeBehindGate
<1>3. SlotsConsistent' /\ AnswersTrue'
  BY <1>1 DEF SlotsConsistent, AnswersTrue
<1>4. CommitPending'
  BY DEF CommitPending
<1>5. OneHolder'
  BY <1>1 DEF OneHolder, Holds, Winning
<1> QED
  BY <1>2, <1>3, <1>4, <1>5

\* The copy approve_triple takes of the confidence is the row's.
LEMMA ReadTargetKeeps ==
    ASSUME IInv, TypeOK', NEW c \in Calls, ReadTarget(c)
    PROVE  IInv'
<1> USE DEF IInv, TypeOK, ReadTarget, Finish, store, graph
<1>1. answer[c] = "none" /\ target[c] \in Triples
  BY DEF SlotsConsistent
<1>2. AbsentIsBlank' /\ AtMostOneEdge' /\ EdgeBehindGate'
  BY DEF AbsentIsBlank, AtMostOneEdge, EdgeBehindGate
<1>3. SlotsConsistent' /\ AnswersTrue'
  BY <1>1 DEF SlotsConsistent, AnswersTrue
<1>4. CommitPending'
  BY <1>1, GateAssumption DEF CommitPending, Conf
<1>5. OneHolder'
  BY <1>1 DEF OneHolder, Holds, Winning
<1> QED
  BY <1>2, <1>3, <1>4, <1>5

\* The UPDATE of approve_triple: it takes the decision only of a claim that
\* no other slot holds.
LEMMA MarkApprovedKeeps ==
    ASSUME IInv, TypeOK', NEW c \in Calls, MarkApproved(c)
    PROVE  IInv'
<1> USE DEF IInv, TypeOK, MarkApproved, Decidable, Finish, graph
<1>1. answer[c] = "none" /\ target[c] \in Triples
  BY DEF SlotsConsistent
<1>2. \A t \in Triples : status[t] # "pending" => status'[t] = status[t]
  OBVIOUS
<1>3. AbsentIsBlank' /\ AtMostOneEdge'
  BY DEF AbsentIsBlank, AtMostOneEdge
<1>4. EdgeBehindGate'
  BY <1>2 DEF EdgeBehindGate
<1>5. SlotsConsistent' /\ AnswersTrue'
  BY <1>1, <1>2 DEF SlotsConsistent, AnswersTrue
<1>6. CommitPending'
  BY <1>1, <1>2 DEF CommitPending, EdgeBehindGate
<1>7. OneHolder'
  \* Nobody else holds a claim that was still pending.
  <2>1. \A d \in Calls : Holds(d) => status[target[d]] \in Decided
    BY DEF Holds, Winning, CommitPending, AnswersTrue, EdgeBehindGate,
           SlotsConsistent, Decided
  <2>2. \A d \in Calls : d # c => (Holds(d)' <=> Holds(d)) /\ target'[d] = target[d]
    BY DEF Holds
  <2>3. CASE Decidable(target[c])
    BY <2>1, <2>2, <2>3, <1>1 DEF OneHolder, Decided
  <2>4. CASE ~Decidable(target[c])
    BY <2>2, <2>4 DEF OneHolder, Holds, Winning
  <2> QED
    BY <2>3, <2>4
<1> QED
  BY <1>3, <1>4, <1>5, <1>6, <1>7

\* The UPDATE of reject_triple, with the same argument.
LEMMA MarkRejectedKeeps ==
    ASSUME IInv, TypeOK', NEW c \in Calls, MarkRejected(c)
    PROVE  IInv'
<1> USE DEF IInv, TypeOK, MarkRejected, Decidable, Finish, graph
<1>1. answer[c] = "none" /\ target[c] \in Triples
  BY DEF SlotsConsistent
<1>2. \A t \in Triples : status[t] # "pending" => status'[t] = status[t]
  OBVIOUS
<1>3. AbsentIsBlank' /\ AtMostOneEdge'
  BY DEF AbsentIsBlank, AtMostOneEdge
<1>4. EdgeBehindGate'
  BY <1>2 DEF EdgeBehindGate
<1>5. SlotsConsistent' /\ AnswersTrue'
  BY <1>1, <1>2 DEF SlotsConsistent, AnswersTrue
<1>6. CommitPending'
  BY <1>1, <1>2 DEF CommitPending
<1>7. OneHolder'
  <2>1. \A d \in Calls : Holds(d) => status[target[d]] \in Decided
    BY DEF Holds, Winning, CommitPending, AnswersTrue, EdgeBehindGate,
           SlotsConsistent, Decided
  <2>2. \A d \in Calls : d # c => (Holds(d)' <=> Holds(d)) /\ target'[d] = target[d]
    BY DEF Holds
  <2>3. CASE Decidable(target[c])
    BY <2>1, <2>2, <2>3, <1>1 DEF OneHolder, Decided
  <2>4. CASE ~Decidable(target[c])
    BY <2>2, <2>4 DEF OneHolder, Holds, Winning
  <2> QED
    BY <2>3, <2>4
<1> QED
  BY <1>3, <1>4, <1>5, <1>6, <1>7

\* Adding the relationship of an approved claim that has none yet, and
\* answering whether or not it was added.
LEMMA CommitKeeps ==
    ASSUME IInv, TypeOK', NEW c \in Calls,
           CommitEdge(c) \/ Neo4jFails(c) \/ CypherFailsUnread(c)
    PROVE  IInv'
<1> USE DEF IInv, TypeOK, CommitEdge, Neo4jFails, CypherFailsUnread, Finish, store
<1>1. /\ answer[c] = "none" /\ pc[c] = "commit" /\ target[c] \in Triples
      /\ status[target[c]] = "approved"
      /\ edges[target[c]] = 0
      /\ seen[c] <= conf[target[c]]
  BY DEF SlotsConsistent, CommitPending
<1>2. /\ UNCHANGED <<status, conf, target, seen>>
      /\ \A d \in Calls : d # c => pc'[d] = pc[d] /\ answer'[d] = answer[d]
      /\ pc'[c] = "done"
      /\ answer'[c] \in {"approved", "neo4j_failed"}
      /\ UNCHANGED <<edges, edgeConf>> \/ AddEdge(target[c], seen[c])
  BY DEF graph
<1> HIDE DEF CommitEdge, Neo4jFails, CypherFailsUnread, Finish, store
<1>3. /\ \A t \in Triples : edges'[t] >= edges[t]
      /\ \A t \in Triples : t # target[c] =>
             edges'[t] = edges[t] /\ edgeConf'[t] = edgeConf[t]
      /\ edges'[target[c]] <= 1
      /\ edges'[target[c]] > 0 => edgeConf'[target[c]] = seen[c]
  BY <1>1, <1>2 DEF AddEdge
<1>4. AbsentIsBlank' /\ AtMostOneEdge'
  BY <1>2, <1>3 DEF AbsentIsBlank, AtMostOneEdge
<1>5. EdgeBehindGate'
  BY <1>1, <1>2, <1>3 DEF EdgeBehindGate
<1>6. SlotsConsistent'
  BY <1>1, <1>2 DEF SlotsConsistent
<1>7. AnswersTrue'
  BY <1>1, <1>2, <1>3 DEF AnswersTrue, SlotsConsistent
<1>8. \A d \in Calls : Holds(d)' <=> Holds(d)
  BY <1>1, <1>2 DEF Holds, Winning
<1>9. OneHolder'
  BY <1>2, <1>8 DEF OneHolder
<1>10. CommitPending'
  BY <1>1, <1>2, <1>3 DEF CommitPending, OneHolder, Holds
<1> QED
  BY <1>4, <1>5, <1>6, <1>7, <1>9, <1>10

\* An UPDATE whose answer is lost decides without a holder.
LEMMA PgFailsKeeps ==
    ASSUME IInv, TypeOK', NEW c \in Calls, PgFails(c)
    PROVE  IInv'
<1> USE DEF IInv, TypeOK
<1>1. /\ answer[c] = "none" /\ target[c] \in Triples /\ pc[c] # "commit"
      /\ pc'[c] = "done" /\ answer'[c] = "error"
      /\ \A d \in Calls : d # c => pc'[d] = pc[d] /\ answer'[d] = answer[d]
      /\ UNCHANGED <<conf, edges, edgeConf, target, seen>>
  BY DEF PgFails, Finish, graph, SlotsConsistent
<1>2. \A t \in Triples : /\ status[t] # "pending" => status'[t] = status[t]
                         /\ status'[t] = "absent" => status[t] = "absent"
  BY DEF PgFails, Decidable
<1>3. AbsentIsBlank' /\ AtMostOneEdge' /\ EdgeBehindGate'
  BY <1>1, <1>2 DEF AbsentIsBlank, AtMostOneEdge, EdgeBehindGate
<1>4. SlotsConsistent' /\ AnswersTrue'
  BY <1>1, <1>2 DEF SlotsConsistent, AnswersTrue
<1>5. CommitPending'
  BY <1>1, <1>2 DEF CommitPending
<1>6. OneHolder'
  BY <1>1 DEF OneHolder, Holds, Winning
<1> QED
  BY <1>3, <1>4, <1>5, <1>6

\* A crash drops every open call, and with it the decisions they hold.
LEMMA ApiCrashKeeps ==
    ASSUME IInv, TypeOK', ApiCrash
    PROVE  IInv'
<1> USE DEF IInv, TypeOK
<1>1. /\ UNCHANGED <<status, conf, edges, edgeConf, target, seen>>
      /\ \A d \in Calls : \/ pc[d] \in InFlight /\ pc'[d] = "done" /\ answer'[d] = "error"
                          \/ /\ pc[d] \notin InFlight
                             /\ pc'[d] = pc[d]
                             /\ answer'[d] = answer[d]
  BY DEF ApiCrash, store, graph
<1>2. AbsentIsBlank' /\ AtMostOneEdge' /\ EdgeBehindGate'
  BY <1>1 DEF AbsentIsBlank, AtMostOneEdge, EdgeBehindGate
<1>3. SlotsConsistent' /\ AnswersTrue'
  BY <1>1 DEF SlotsConsistent, AnswersTrue, InFlight
<1>4. CommitPending'
  BY <1>1 DEF CommitPending, InFlight
<1>5. OneHolder'
  BY <1>1 DEF OneHolder, Holds, Winning, InFlight
<1> QED
  BY <1>2, <1>3, <1>4, <1>5

\* A response that leaves gives its decision away.
LEMMA ReleaseKeeps ==
    ASSUME IInv, TypeOK', NEW c \in Calls, Release(c)
    PROVE  IInv'
<1> USE DEF IInv, TypeOK
<1>1. /\ UNCHANGED <<status, conf, edges, edgeConf>>
      /\ pc'[c] = "idle" /\ answer'[c] = "none"
      /\ \A d \in Calls : d # c => /\ pc'[d] = pc[d] /\ answer'[d] = answer[d]
                                   /\ target'[d] = target[d] /\ seen'[d] = seen[d]
  BY DEF Release, store, graph
<1>2. AbsentIsBlank' /\ AtMostOneEdge' /\ EdgeBehindGate'
  BY <1>1 DEF AbsentIsBlank, AtMostOneEdge, EdgeBehindGate
<1>3. SlotsConsistent' /\ AnswersTrue'
  BY <1>1 DEF SlotsConsistent, AnswersTrue
<1>4. CommitPending'
  BY <1>1 DEF CommitPending
<1>5. OneHolder'
  BY <1>1 DEF OneHolder, Holds, Winning
<1> QED
  BY <1>2, <1>3, <1>4, <1>5

-----------------------------------------------------------------------------
(* The invariance theorem                                                  *)

\* Every step of the specification keeps the inductive invariant.
LEMMA StepKeeps == IInv /\ TypeOK' /\ [Next]_vars => IInv'
<1> SUFFICES ASSUME IInv, TypeOK', [Next]_vars PROVE IInv'
  OBVIOUS
<1>1. ASSUME NEW t \in Triples, NEW v \in Conf, Propose(t, v) PROVE IInv'
  BY <1>1, ProposeKeeps
<1>2. ASSUME NEW c \in Calls, NEW t \in Triples,
             BeginApprove(c, t) \/ BeginReject(c, t)
      PROVE IInv'
  BY <1>2, BeginKeeps DEF BeginApprove, BeginReject
<1>3. ASSUME NEW c \in Calls, Work(c) PROVE IInv'
  BY <1>3, ReadTargetKeeps, MarkApprovedKeeps, MarkRejectedKeeps, CommitKeeps
     DEF Work
<1>4. ASSUME NEW c \in Calls,
             PgFails(c) \/ Neo4jFails(c) \/ CypherFailsUnread(c)
      PROVE IInv'
  BY <1>4, PgFailsKeeps, CommitKeeps
<1>5. CASE ApiCrash
  BY <1>5, ApiCrashKeeps
<1>6. ASSUME NEW c \in Calls, Release(c) PROVE IInv'
  BY <1>6, ReleaseKeeps
<1>7. CASE UNCHANGED vars
  BY <1>7 DEF vars, IInv, AbsentIsBlank, SlotsConsistent, AtMostOneEdge,
              EdgeBehindGate, CommitPending, AnswersTrue, OneHolder, Holds
<1> QED
  BY <1>1, <1>2, <1>3, <1>4, <1>5, <1>6, <1>7 DEF Next, ServerStep

\* The inductive invariant holds in every reachable state.
THEOREM Invariance == Spec => []IInv
<1>1. Init => IInv
  BY GateAssumption
     DEF Init, IInv, TypeOK, Conf, InFlight, Decided, Answers, AbsentIsBlank,
         SlotsConsistent, AtMostOneEdge, EdgeBehindGate, CommitPending,
         AnswersTrue, OneHolder, Holds, Winning
<1> QED
  BY <1>1, StepKeeps, TypeCorrect, PTL DEF Spec

\* Whatever the callers interleave and whatever fails, a claim gets at most
\* one relationship although the Cypher is not idempotent.
THEOREM NeverTwice == Spec => []AtMostOneEdge
BY Invariance, PTL DEF IInv

\* Nothing is in the graph that the gate did not approve, and nothing with
\* more confidence than was proposed.
THEOREM GateHolds == Spec => []EdgeBehindGate
BY Invariance, PTL DEF IInv

\* What a tool call answers about the queue is true.
THEOREM TruthfulAnswers == Spec => []AnswersTrue
BY Invariance, PTL DEF IInv

\* "committed: True" is true as long as no error of Neo4j goes unread.
THEOREM CommittedTruly ==
    ASSUME "unread" \notin Faults
    PROVE  Spec => []CommittedIsThere
<1>1. Init => CommittedIsThere
  BY DEF Init, CommittedIsThere
<1>2. IInv /\ TypeOK' /\ CommittedIsThere /\ [Next]_vars => CommittedIsThere'
  <2> SUFFICES ASSUME IInv, TypeOK', CommittedIsThere, [Next]_vars,
                      NEW c \in Calls, answer'[c] = "approved"
               PROVE  edges'[target'[c]] > 0
    BY DEF CommittedIsThere
  <2> USE DEF IInv, TypeOK
  <2>1. \A t \in Triples : edges'[t] >= edges[t]
    BY DEF Next, ServerStep, Work, Propose, BeginApprove, BeginReject, Begin,
           ReadTarget, MarkApproved, MarkRejected, CommitEdge, AddEdge, PgFails,
           Neo4jFails, CypherFailsUnread, ApiCrash, Release, vars, store, graph
  <2>2. CASE answer[c] = "approved"
    <3>1. target'[c] = target[c] /\ target[c] \in Triples
      BY <2>2 DEF SlotsConsistent, Next, ServerStep, Work, Propose, BeginApprove,
             BeginReject, Begin, ReadTarget, MarkApproved, MarkRejected,
             CommitEdge, PgFails, Neo4jFails, CypherFailsUnread, ApiCrash,
             Release, vars, slots
    <3> QED
      BY <2>1, <2>2, <3>1 DEF CommittedIsThere
  <2>3. CASE answer[c] # "approved"
    <3>1. CommitEdge(c)
      BY <2>3 DEF Next, ServerStep, Work, Propose, BeginApprove, BeginReject,
             Begin, ReadTarget, MarkApproved, MarkRejected, CommitEdge, PgFails,
             Neo4jFails, CypherFailsUnread, ApiCrash, Release, Finish, vars, slots
    <3> QED
      BY <3>1 DEF CommitEdge, AddEdge
  <2> QED
    BY <2>2, <2>3
<1> QED
  BY <1>1, <1>2, Invariance, TypeCorrect, PTL DEF Spec

\* At most one of the calls that decide a claim is told that it decided.
THEOREM ExactlyOneDecision == Spec => []OneWinner
<1>1. IInv => OneWinner
  BY DEF IInv, OneHolder, Holds, OneWinner
<1> QED
  BY <1>1, Invariance, PTL

-----------------------------------------------------------------------------
(* What a step may never do                                                *)

\* A decision stands, a relationship stays, a confidence never sinks.
THEOREM NothingIsUndone == Spec => NothingUndone
<1> DEFINE Kept ==
      \A t \in Triples :
        /\ status[t] \in Decided => status'[t] = status[t]
        /\ edges[t] > 0 => edges'[t] = edges[t] /\ edgeConf'[t] = edgeConf[t]
        /\ conf'[t] >= conf[t]
<1>1. IInv /\ [Next]_vars => [Kept]_vars
  <2> SUFFICES ASSUME IInv, [Next]_vars, ~ UNCHANGED vars PROVE Kept
    OBVIOUS
  <2> USE DEF IInv, TypeOK
  <2>0. \A t \in Triples : conf[t] >= conf[t]
    BY GateAssumption DEF Conf
  <2>1. ASSUME NEW t \in Triples, NEW v \in Conf, Propose(t, v) PROVE Kept
    <3>1. CASE status[t] = "absent"
      BY <2>1, <3>1, GateAssumption
         DEF Propose, AbsentIsBlank, Conf, Decided, graph
    <3>2. CASE status[t] # "absent"
      BY <2>1, <3>2, GateAssumption DEF Propose, Greatest, Conf, graph
    <3> QED
      BY <3>1, <3>2
  <2>2. ASSUME NEW c \in Calls, NEW t \in Triples,
               BeginApprove(c, t) \/ BeginReject(c, t)
        PROVE Kept
    BY <2>0, <2>2 DEF BeginApprove, BeginReject, Begin, store, graph
  <2>3. ASSUME NEW c \in Calls, ReadTarget(c) PROVE Kept
    BY <2>0, <2>3 DEF ReadTarget, store, graph
  <2>4. ASSUME NEW c \in Calls, MarkApproved(c) \/ MarkRejected(c) PROVE Kept
    BY <2>0, <2>4 DEF MarkApproved, MarkRejected, Decidable, Decided, graph
  <2>5. ASSUME NEW c \in Calls,
               CommitEdge(c) \/ Neo4jFails(c) \/ CypherFailsUnread(c)
        PROVE Kept
    <3>1. target[c] \in Triples /\ edges[target[c]] = 0
      BY <2>5 DEF CommitEdge, Neo4jFails, CypherFailsUnread, CommitPending
    <3>2. /\ UNCHANGED <<status, conf>>
          /\ UNCHANGED graph \/ AddEdge(target[c], seen[c])
      BY <2>5 DEF CommitEdge, Neo4jFails, CypherFailsUnread, store
    <3> QED
      BY <2>0, <3>1, <3>2 DEF AddEdge, graph
  <2>6. ASSUME NEW c \in Calls, PgFails(c) PROVE Kept
    BY <2>0, <2>6 DEF PgFails, Decidable, Decided, graph
  <2>7. CASE ApiCrash
    BY <2>0, <2>7 DEF ApiCrash, store, graph
  <2>8. ASSUME NEW c \in Calls, Release(c) PROVE Kept
    BY <2>0, <2>8 DEF Release, store, graph
  <2> QED
    BY <2>1, <2>2, <2>3, <2>4, <2>5, <2>6, <2>7, <2>8 DEF Next, ServerStep, Work
<1> QED
  BY <1>1, Invariance, PTL DEF Spec, NothingUndone

-----------------------------------------------------------------------------
(* The server implements the gate                                          *)

\* Each step of a call is one step of the gate, or none that it can see.
THEOREM Refinement == Spec => ImplementsGate
<1> DEFINE V == [t \in Triples |-> VerdictOf(t)]
\* A step that moves the verdict of one claim only.
<1>0. ASSUME NEW t \in Triples, NEW w,
             VerdictOf(t)' = w,
             \A u \in Triples : u # t => VerdictOf(u)' = VerdictOf(u)
      PROVE  V' = [V EXCEPT ![t] = w]
  BY <1>0
<1>1. Init => Gate!Init
  BY DEF Init, Gate!Init, VerdictOf
<1>2. IInv /\ TypeOK' /\ [Next]_vars => [Gate!Next]_(Gate!gateVars)
  <2> SUFFICES ASSUME IInv, TypeOK', [Next]_vars
               PROVE  Gate!Next \/ UNCHANGED Gate!gateVars
    OBVIOUS
  <2> USE DEF IInv, TypeOK
  <2>1. ASSUME NEW t \in Triples, NEW v \in Conf, Propose(t, v)
        PROVE  Gate!Next
    <3>1. /\ conf'[t] \in Gate!Conf /\ conf'[t] >= conf[t]
          /\ conf' = [conf EXCEPT ![t] = conf'[t]]
      <4>1. CASE status[t] = "absent"
        BY <2>1, <4>1, GateAssumption DEF Propose, AbsentIsBlank, Conf, Gate!Conf
      <4>2. CASE status[t] # "absent"
        BY <2>1, <4>2, GateAssumption DEF Propose, Greatest, Conf, Gate!Conf
      <4> QED
        BY <4>1, <4>2
    <3>2. UNCHANGED edgeConf
      BY <2>1 DEF Propose, graph
    <3>3. CASE status[t] = "absent"
      <4>1. /\ VerdictOf(t) = "unknown" /\ VerdictOf(t)' = "proposed"
            /\ \A u \in Triples : u # t => VerdictOf(u)' = VerdictOf(u)
        BY <2>1, <3>3 DEF Propose, graph, VerdictOf
      <4>2. V[t] = "unknown" /\ V' = [V EXCEPT ![t] = "proposed"]
        BY <1>0, <4>1
      <4> QED
        BY <3>1, <3>2, <4>2 DEF Gate!Next, Gate!Propose
    <3>4. CASE status[t] # "absent"
      <4>1. V[t] # "unknown" /\ V' = V
        BY <2>1, <3>4 DEF Propose, graph, Decided, VerdictOf
      <4> QED
        BY <3>1, <3>2, <4>1 DEF Gate!Next, Gate!Propose
    <3> QED
      BY <3>3, <3>4
  <2>2. ASSUME UNCHANGED <<status, conf, edges, edgeConf>>
        PROVE  UNCHANGED Gate!gateVars
    BY <2>2 DEF Gate!gateVars, VerdictOf
  <2>3. ASSUME NEW t \in Triples, status[t] = "pending",
               status' = [status EXCEPT ![t] = "approved"],
               UNCHANGED <<conf, edges, edgeConf>>
        PROVE  Gate!Next
    <3>1. edges[t] = 0 /\ ~(edges[t] > 0) /\ ~(edges'[t] > 0)
      BY <2>3 DEF EdgeBehindGate
    <3>2. /\ VerdictOf(t) = "proposed" /\ VerdictOf(t)' = "accepted"
          /\ \A u \in Triples : u # t => VerdictOf(u)' = VerdictOf(u)
      BY <2>3, <3>1 DEF VerdictOf
    <3>3. V[t] = "proposed" /\ V' = [V EXCEPT ![t] = "accepted"]
      BY <1>0, <3>2
    <3> QED
      BY <2>3, <3>3 DEF Gate!Next, Gate!Accept
  <2>4. ASSUME NEW t \in Triples, status[t] = "pending",
               status' = [status EXCEPT ![t] = "rejected"],
               UNCHANGED <<conf, edges, edgeConf>>
        PROVE  Gate!Next
    <3>1. /\ VerdictOf(t) = "proposed" /\ VerdictOf(t)' = "refused"
          /\ \A u \in Triples : u # t => VerdictOf(u)' = VerdictOf(u)
      BY <2>4 DEF VerdictOf
    <3>2. V[t] = "proposed" /\ V' = [V EXCEPT ![t] = "refused"]
      BY <1>0, <3>1
    <3> QED
      BY <2>4, <3>2 DEF Gate!Next, Gate!Refuse
  <2>5. ASSUME NEW c \in Calls, pc[c] = "commit", AddEdge(target[c], seen[c]),
               UNCHANGED <<status, conf>>
        PROVE  Gate!Next
    <3>1. PICK t \in Triples : t = target[c]
      BY <2>5
    <3>2. /\ status[t] = "approved"
          /\ ~(edges[t] > 0) /\ edges'[t] > 0
          /\ seen[c] \in Gate!Conf /\ seen[c] <= conf[t]
          /\ edgeConf' = [edgeConf EXCEPT ![t] = seen[c]]
      BY <2>5, <3>1 DEF CommitPending, AddEdge, Conf, Gate!Conf
    <3>3. /\ VerdictOf(t) = "accepted" /\ VerdictOf(t)' = "published"
          /\ \A u \in Triples : u # t => VerdictOf(u)' = VerdictOf(u)
      BY <2>5, <3>1, <3>2 DEF AddEdge, VerdictOf
    <3>4. V[t] = "accepted" /\ V' = [V EXCEPT ![t] = "published"]
      BY <1>0, <3>3
    <3> QED
      BY <2>5, <3>2, <3>4 DEF Gate!Next, Gate!Publish
  <2>6. ASSUME NEW c \in Calls, MarkApproved(c)
        PROVE  Gate!Next \/ UNCHANGED Gate!gateVars
    BY <2>2, <2>3, <2>6 DEF MarkApproved, Decidable, graph
  <2>7. ASSUME NEW c \in Calls, MarkRejected(c)
        PROVE  Gate!Next \/ UNCHANGED Gate!gateVars
    BY <2>2, <2>4, <2>7 DEF MarkRejected, Decidable, graph
  <2>8. ASSUME NEW c \in Calls,
               CommitEdge(c) \/ Neo4jFails(c) \/ CypherFailsUnread(c)
        PROVE  Gate!Next \/ UNCHANGED Gate!gateVars
    BY <2>2, <2>5, <2>8 DEF CommitEdge, Neo4jFails, CypherFailsUnread, store, graph
  <2>9. ASSUME NEW c \in Calls, PgFails(c)
        PROVE  Gate!Next \/ UNCHANGED Gate!gateVars
    <3>1. target[c] \in Triples /\ UNCHANGED <<conf, edges, edgeConf>>
      BY <2>9 DEF PgFails, graph
    <3>2. \/ UNCHANGED status
          \/ /\ status[target[c]] = "pending"
             /\ \/ status' = [status EXCEPT ![target[c]] = "approved"]
                \/ status' = [status EXCEPT ![target[c]] = "rejected"]
      BY <2>9 DEF PgFails, Decidable
    <3> QED
      BY <2>2, <2>3, <2>4, <3>1, <3>2
  <2>10. ASSUME NEW c \in Calls, ReadTarget(c) \/ Release(c)
         PROVE  UNCHANGED Gate!gateVars
    BY <2>2, <2>10 DEF ReadTarget, Release, store, graph
  <2>11. ASSUME NEW c \in Calls, NEW t \in Triples,
                BeginApprove(c, t) \/ BeginReject(c, t)
         PROVE  UNCHANGED Gate!gateVars
    BY <2>2, <2>11 DEF BeginApprove, BeginReject, Begin, store, graph
  <2>12. CASE ApiCrash
    BY <2>2, <2>12 DEF ApiCrash, store, graph
  <2>13. CASE UNCHANGED vars
    BY <2>2, <2>13 DEF vars
  <2> QED
    BY <2>1, <2>6, <2>7, <2>8, <2>9, <2>10, <2>11, <2>12, <2>13
       DEF Next, ServerStep, Work
<1> QED
  BY <1>1, <1>2, Invariance, TypeCorrect, PTL DEF Spec, ImplementsGate, Gate!Spec

-----------------------------------------------------------------------------
(* When nothing fails                                                      *)

\* An approved claim without a relationship has a call that will create it.
CommitComing ==
    \A t \in Triples :
        status[t] = "approved" /\ edges[t] = 0 =>
            \E c \in Calls : pc[c] = "commit" /\ target[c] = t

\* Without failures of the stores, crashes and errors nobody reads, the two
\* stores agree whenever no call is under way: nothing else can separate them.
THEOREM StoresAgreeWithoutFaults ==
    ASSUME Faults \cap {"pg", "neo4j", "crash", "unread"} = {}
    PROVE  Spec => []StoresAgree
<1>1. Init => CommitComing
  BY DEF Init, CommitComing
<1>2. IInv /\ TypeOK' /\ CommitComing /\ [Next]_vars => CommitComing'
  <2> SUFFICES ASSUME IInv, TypeOK', CommitComing, [Next]_vars
               PROVE  CommitComing'
    OBVIOUS
  <2> USE DEF IInv, TypeOK, CommitComing
  <2>1. ASSUME NEW t \in Triples, NEW v \in Conf, Propose(t, v) PROVE CommitComing'
    BY <2>1 DEF Propose, graph, slots
  <2>2. ASSUME NEW c \in Calls, NEW t \in Triples,
               BeginApprove(c, t) \/ BeginReject(c, t)
        PROVE  CommitComing'
    BY <2>2 DEF BeginApprove, BeginReject, Begin, store, graph
  <2>3. ASSUME NEW c \in Calls, ReadTarget(c) PROVE CommitComing'
    BY <2>3 DEF ReadTarget, Finish, store, graph
  <2>4. ASSUME NEW c \in Calls, MarkApproved(c) PROVE CommitComing'
    <3>1. CASE Decidable(target[c])
      BY <2>4, <3>1 DEF MarkApproved, Decidable, graph
    <3>2. CASE ~Decidable(target[c])
      BY <2>4, <3>2 DEF MarkApproved, Finish, graph
    <3> QED
      BY <3>1, <3>2
  <2>5. ASSUME NEW c \in Calls, MarkRejected(c) PROVE CommitComing'
    BY <2>5 DEF MarkRejected, Decidable, Finish, graph
  <2>6. ASSUME NEW c \in Calls, CommitEdge(c) PROVE CommitComing'
    <3>1. /\ pc[c] = "commit" /\ target[c] \in Triples
          /\ edges' = [edges EXCEPT ![target[c]] = @ + 1]
          /\ pc' = [pc EXCEPT ![c] = "done"]
          /\ UNCHANGED <<status, target>>
      BY <2>6 DEF CommitEdge, AddEdge, Finish, store
    <3>2. edges'[target[c]] # 0
      BY <3>1
    <3> QED
      BY <3>1, <3>2
  <2>7. ASSUME NEW c \in Calls, Release(c) PROVE CommitComing'
    BY <2>7 DEF Release, store, graph
  <2>8. CASE UNCHANGED vars
    BY <2>8 DEF vars
  <2> QED
    BY <2>1, <2>2, <2>3, <2>4, <2>5, <2>6, <2>7, <2>8
       DEF Next, ServerStep, Work, PgFails, Neo4jFails, CypherFailsUnread, ApiCrash
<1>3. IInv /\ CommitComing => StoresAgree
  BY DEF IInv, TypeOK, EdgeBehindGate, CommitComing, StoresAgree, InFlight
<1> QED
  BY <1>1, <1>2, <1>3, Invariance, TypeCorrect, PTL DEF Spec

\* A call is about a claim that has a row.
TargetsExist == \A c \in Calls : pc[c] # "idle" => status[target[c]] # "absent"

\* What a step of the server can do to a row.
LEMMA RowsMove ==
    ASSUME TypeOK, [Next]_vars, NEW t \in Triples
    PROVE  /\ status[t] # "absent" => status'[t] # "absent" /\ created'[t] = created[t]
           /\ status[t] \in Decided => status'[t] = status[t]
<1> USE DEF TypeOK, store, graph
<1>1. ASSUME NEW u \in Triples, NEW v \in Conf, Propose(u, v)
      PROVE  /\ status[t] # "absent" => status'[t] = status[t] /\ created'[t] = created[t]
  BY <1>1 DEF Propose
<1>2. ASSUME NEW c \in Calls, MarkApproved(c) \/ MarkRejected(c) \/ PgFails(c)
      PROVE  /\ created' = created
             /\ status[t] # "pending" => status'[t] = status[t]
             /\ status[t] = "pending" => status'[t] \in {"pending", "approved", "rejected"}
  BY <1>2 DEF MarkApproved, MarkRejected, PgFails, Decidable
<1>3. CASE UNCHANGED <<status, created>>
  BY <1>3
<1>4. ASSUME NEW c \in Calls, NEW u \in Triples,
             BeginApprove(c, u) \/ BeginReject(c, u)
      PROVE  UNCHANGED <<status, created>>
  BY <1>4 DEF BeginApprove, BeginReject, Begin
<1>5. ASSUME NEW c \in Calls,
             ReadTarget(c) \/ CommitEdge(c) \/ Neo4jFails(c) \/ CypherFailsUnread(c)
               \/ Release(c) \/ ApiCrash
      PROVE  UNCHANGED <<status, created>>
  BY <1>5 DEF ReadTarget, CommitEdge, Neo4jFails, CypherFailsUnread, Release, ApiCrash
<1>6. CASE ApiCrash \/ UNCHANGED vars
  BY <1>6 DEF ApiCrash, vars
<1> QED
  BY <1>1, <1>2, <1>3, <1>4, <1>5, <1>6 DEF Next, ServerStep, Work, Decided

\* What a step of the server can do to the slot of a call.
LEMMA SlotsMove ==
    ASSUME TypeOK, [Next]_vars, NEW c \in Calls
    PROVE  \/ pc'[c] = "idle"
           \/ pc[c] # "idle" /\ target'[c] = target[c]
           \/ pc[c] = "idle" /\ target'[c] \in Triples /\ status[target'[c]] # "absent"
<1> USE DEF TypeOK, store, graph, slots
<1>1. ASSUME NEW d \in Calls, NEW t \in Triples,
             BeginApprove(d, t) \/ BeginReject(d, t)
      PROVE  \/ pc'[c] = "idle"
             \/ pc[c] # "idle" /\ target'[c] = target[c]
             \/ pc[c] = "idle" /\ target'[c] \in Triples /\ status[target'[c]] # "absent"
  BY <1>1 DEF BeginApprove, BeginReject, Begin
<1>2. ASSUME NEW d \in Calls, Release(d)
      PROVE  pc'[c] = "idle" \/ (pc'[c] = pc[c] /\ target'[c] = target[c])
  BY <1>2 DEF Release
<1>3. ASSUME NEW d \in Calls,
             Work(d) \/ PgFails(d) \/ Neo4jFails(d) \/ CypherFailsUnread(d)
      PROVE  target' = target /\ (pc[c] = "idle" => pc'[c] = "idle")
  BY <1>3 DEF Work, ReadTarget, MarkApproved, MarkRejected, CommitEdge, PgFails,
              Neo4jFails, CypherFailsUnread, Finish
<1>4. ASSUME ApiCrash
      PROVE  target' = target /\ (pc[c] = "idle" => pc'[c] = "idle")
  BY <1>4 DEF ApiCrash, InFlight
<1>5. ASSUME NEW t \in Triples, NEW v \in Conf, Propose(t, v)
      PROVE  UNCHANGED <<pc, target>>
  BY <1>5 DEF Propose
<1>6. CASE UNCHANGED vars
  BY <1>6 DEF vars
<1> QED
  BY <1>1, <1>2, <1>3, <1>4, <1>5, <1>6 DEF Next, ServerStep

LEMMA TargetsExistStep ==
    ASSUME TypeOK, TypeOK', TargetsExist, [Next]_vars PROVE TargetsExist'
<1> SUFFICES ASSUME NEW c \in Calls, pc'[c] # "idle"
             PROVE  status'[target'[c]] # "absent"
  BY DEF TargetsExist
<1>1. CASE pc[c] # "idle"
  <2>1. target'[c] = target[c] /\ target[c] \in Triples /\ status[target[c]] # "absent"
    BY <1>1, SlotsMove DEF TypeOK, TargetsExist
  <2> QED
    BY <2>1, RowsMove
<1>2. CASE pc[c] = "idle"
  <2>1. target'[c] \in Triples /\ status[target'[c]] # "absent"
    BY <1>2, SlotsMove
  <2> QED
    BY <2>1, RowsMove
<1> QED
  BY <1>1, <1>2

\* An answer stays with its target.
LEMMA RaceKept ==
    ASSUME IInv, TypeOK', [Next]_vars, NEW c \in Calls,
           answer[c] = "race", answer'[c] = "race"
    PROVE  target'[c] = target[c] /\ target[c] \in Triples
<1>1. pc[c] = "done" /\ target[c] \in Triples
  BY DEF IInv, SlotsConsistent, TypeOK
<1>2. IInv'
  BY StepKeeps
<1>3. pc'[c] = "done"
  BY <1>2 DEF IInv, SlotsConsistent
<1> QED
  BY <1>1, <1>3, SlotsMove DEF IInv

\* "race" is the answer to a call whose target is outside the window or not
\* pending.
LEMMA RaceGiven ==
    ASSUME IInv, TargetsExist, [Next]_vars, NEW c \in Calls,
           answer[c] # "race", answer'[c] = "race"
    PROVE  /\ pc[c] \in InFlight
           /\ target'[c] = target[c] /\ target[c] \in Triples
           /\ target[c] \notin Listed(Window) \/ status[target[c]] # "pending"
           /\ status[target[c]] # "absent" /\ UNCHANGED status
<1>1. ReadTarget(c) \/ MarkApproved(c) \/ MarkRejected(c)
  BY DEF IInv, TypeOK, Next, ServerStep, Work, Propose, BeginApprove, BeginReject,
         Begin, ReadTarget, MarkApproved, MarkRejected, CommitEdge, PgFails,
         Neo4jFails, CypherFailsUnread, ApiCrash, Release, Finish, vars, slots
<1>2. pc[c] \in InFlight /\ UNCHANGED target
  BY <1>1 DEF ReadTarget, MarkApproved, MarkRejected, InFlight
<1>3. target[c] \in Triples /\ status[target[c]] # "absent"
  BY <1>2 DEF IInv, TypeOK, TargetsExist, InFlight
<1>4. CASE ReadTarget(c)
  BY <1>2, <1>3, <1>4 DEF ReadTarget, Finish, store, IInv, TypeOK
<1>5. CASE MarkApproved(c)
  BY <1>2, <1>3, <1>5 DEF MarkApproved, Decidable, Finish, IInv, TypeOK
<1>6. CASE MarkRejected(c)
  BY <1>2, <1>3, <1>6 DEF MarkRejected, Decidable, Finish, IInv, TypeOK
<1> QED
  BY <1>1, <1>4, <1>5, <1>6

\* "race" is only wrong because the queue outgrows the window: with at most
\* Window claims in the world every "race" is about a decided claim.
THEOREM RaceIsRealInShallowQueue ==
    ASSUME IsFiniteSet(Triples), Cardinality(Triples) <= Window
    PROVE  Spec => []RaceMeansDecided
<1>1. ASSUME TypeOK PROVE \A t \in Pending : t \in Listed(Window)
  <2> SUFFICES ASSUME NEW t \in Pending
               PROVE  Cardinality({u \in Pending : created[u] < created[t]}) < Window
    BY DEF Listed
  <2> DEFINE Ahead == {u \in Pending : created[u] < created[t]}
  <2>1. t \in Triples /\ Ahead \subseteq Triples \ {t}
    BY <1>1 DEF Pending, TypeOK
  <2>2. /\ IsFiniteSet(Triples \ {t})
        /\ Cardinality(Triples \ {t}) = Cardinality(Triples) - 1
    BY <2>1, FS_RemoveElement
  <2>3. IsFiniteSet(Ahead) /\ Cardinality(Ahead) <= Cardinality(Triples \ {t})
    BY <2>1, <2>2, FS_Subset
  <2>4. Cardinality(Ahead) \in Nat /\ Cardinality(Triples) \in Nat /\ Window \in Nat
    BY <2>3, FS_CardinalityType, GateAssumption
  <2> HIDE DEF Ahead
  <2>5. Cardinality(Ahead) < Window
    BY <2>2, <2>3, <2>4
  <2> QED
    BY <2>5 DEF Ahead
<1>2. Init => RaceMeansDecided /\ TargetsExist
  BY DEF Init, RaceMeansDecided, TargetsExist
<1>3. IInv /\ TypeOK' /\ TargetsExist /\ RaceMeansDecided /\ [Next]_vars
        => RaceMeansDecided' /\ TargetsExist'
  <2> SUFFICES ASSUME IInv, TypeOK', TargetsExist, RaceMeansDecided, [Next]_vars
               PROVE  RaceMeansDecided'
    BY TargetsExistStep DEF IInv
  <2> SUFFICES ASSUME NEW c \in Calls, answer'[c] = "race"
               PROVE  status'[target'[c]] \in Decided
    BY DEF RaceMeansDecided
  <2>1. CASE answer[c] = "race"
    <3>1. target'[c] = target[c] /\ target[c] \in Triples
      BY <2>1, RaceKept
    <3> QED
      BY <2>1, <3>1, RowsMove DEF RaceMeansDecided, IInv
  <2>2. CASE answer[c] # "race"
    <3>1. /\ target'[c] = target[c] /\ target[c] \in Triples
          /\ target[c] \notin Listed(Window) \/ status[target[c]] # "pending"
          /\ status[target[c]] # "absent" /\ UNCHANGED status
      BY <2>2, RaceGiven
    <3>2. status[target[c]] # "pending"
      BY <1>1, <3>1 DEF IInv, Pending
    <3> QED
      BY <3>1, <3>2 DEF IInv, TypeOK, Decided
  <2> QED
    BY <2>1, <2>2
<1> QED
  BY <1>2, <1>3, Invariance, TypeCorrect, PTL DEF Spec

=============================================================================
