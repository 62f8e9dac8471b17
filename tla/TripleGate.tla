----------------------------- MODULE TripleGate -----------------------------
(***************************************************************************)
(* The MCP server's side of the proposer-critic gate: the pending_triples  *)
(* table of Postgres, the relationships of Neo4j, and the tool calls       *)
(* propose_triple, approve_triple and reject_triple that the API process   *)
(* serves concurrently.  An await in a tool is a point where other calls   *)
(* run, a statement may fail, or the process may die.                      *)
(*                                                                         *)
(* A claim t stands for one (subject, predicate, object, source_id), that  *)
(* is, for one proposal_hash and so for at most one row; the claims are    *)
(* the ones that pass propose_triple's validation, because the others      *)
(* change nothing.                                                         *)
(***************************************************************************)
EXTENDS Naturals, FiniteSets

CONSTANTS
    Triples,   \* the claims that may be proposed
    NoTriple,  \* the target of a slot that serves no call
    Calls,     \* slots for the tool calls the server has open at a time
    MaxConf,   \* confidences are 0 .. MaxConf, a scaled [0.0, 1.0]
    Window,    \* rows approve_triple looks at, and list's cap (200)
    Faults     \* what may go wrong in this model

ASSUME GateAssumption ==
    /\ NoTriple \notin Triples
    /\ MaxConf \in Nat
    /\ Window \in Nat \ {0}

VARIABLES
    status,    \* status[t]: the row's status, "absent" when there is no row
    conf,      \* conf[t]: the row's confidence
    created,   \* created[t]: the row's place in created_at order
    inserts,   \* rows inserted so far
    edges,     \* edges[t]: relationships in Neo4j for t
    edgeConf,  \* edgeConf[t]: the confidence on the newest of them
    pc,        \* pc[c]: what the call in slot c does next
    target,    \* target[c]: the claim the call is about
    seen,      \* seen[c]: the confidence approve_triple read before its UPDATE
    answer     \* answer[c]: what the call returns

store == <<status, conf, created, inserts>>
graph == <<edges, edgeConf>>
slots == <<pc, target, seen, answer>>
vars == <<status, conf, created, inserts, edges, edgeConf,
          pc, target, seen, answer>>

Conf == 0 .. MaxConf

Decided == {"approved", "rejected"}

\* Where a call can be: "read" is approve_triple before its listing, "mark"
\* before its UPDATE, "commit" before its Cypher; "reject" is reject_triple
\* before its UPDATE; "done" has an answer nobody has taken yet.
InFlight == {"read", "mark", "commit", "reject"}

Answers == {"none", "approved", "rejected", "race", "neo4j_failed", "error"}

TypeOK ==
    /\ status \in [Triples -> {"absent", "pending"} \cup Decided]
    /\ conf \in [Triples -> Conf]
    /\ created \in [Triples -> Nat]
    /\ inserts \in Nat
    /\ edges \in [Triples -> Nat]
    /\ edgeConf \in [Triples -> Conf]
    /\ pc \in [Calls -> InFlight \cup {"idle", "done"}]
    /\ target \in [Calls -> Triples \cup {NoTriple}]
    /\ seen \in [Calls -> Conf]
    /\ answer \in [Calls -> Answers]
    /\ \A c \in Calls : pc[c] # "idle" => target[c] \in Triples

Init ==
    /\ status = [t \in Triples |-> "absent"]
    /\ conf = [t \in Triples |-> 0]
    /\ created = [t \in Triples |-> 0]
    /\ inserts = 0
    /\ edges = [t \in Triples |-> 0]
    /\ edgeConf = [t \in Triples |-> 0]
    /\ pc = [c \in Calls |-> "idle"]
    /\ target = [c \in Calls |-> NoTriple]
    /\ seen = [c \in Calls |-> 0]
    /\ answer = [c \in Calls |-> "none"]

-----------------------------------------------------------------------------
(* The queue                                                               *)

Greatest(a, b) == IF a >= b THEN a ELSE b

\* Variant of Propose: ON CONFLICT also sets status = 'pending'.
ProposeReopening(t, c) ==
    /\ status' = [status EXCEPT ![t] = "pending"]
    /\ conf' = [conf EXCEPT ![t] = Greatest(conf[t], c)]
    /\ IF status[t] = "absent"
       THEN created' = [created EXCEPT ![t] = inserts] /\ inserts' = inserts + 1
       ELSE UNCHANGED <<created, inserts>>
    /\ UNCHANGED <<graph, slots>>

\* INSERT ... ON CONFLICT (proposal_hash) DO UPDATE SET confidence = GREATEST:
\* a second proposal of a claim touches nothing but the confidence, whatever
\* the row's status.
Propose(t, c) ==
    /\ \/ /\ status[t] = "absent"
          /\ status' = [status EXCEPT ![t] = "pending"]
          /\ conf' = [conf EXCEPT ![t] = c]
          /\ created' = [created EXCEPT ![t] = inserts]
          /\ inserts' = inserts + 1
       \/ /\ status[t] # "absent"
          /\ conf' = [conf EXCEPT ![t] = Greatest(conf[t], c)]
          /\ UNCHANGED <<status, created, inserts>>
    /\ UNCHANGED <<graph, slots>>

Pending == {t \in Triples : status[t] = "pending"}

\* WHERE status = 'pending' ORDER BY created_at LIMIT limit.
Listed(limit) ==
    {t \in Pending :
        Cardinality({u \in Pending : created[u] < created[t]}) < limit}

\* Variant of Decidable: WHERE id = t alone.
DecidableAnyway(t) == status[t] # "absent"

\* UPDATE ... WHERE id = t AND status = 'pending': does it match a row?
Decidable(t) == status[t] = "pending"

-----------------------------------------------------------------------------
(* The tool calls                                                          *)

Finish(c, a) ==
    /\ pc' = [pc EXCEPT ![c] = "done"]
    /\ answer' = [answer EXCEPT ![c] = a]

\* A request reaches the server.  Its triple_id names an existing row.
Begin(c, t, first) ==
    /\ pc[c] = "idle"
    /\ status[t] # "absent"
    /\ pc' = [pc EXCEPT ![c] = first]
    /\ target' = [target EXCEPT ![c] = t]
    /\ UNCHANGED <<store, graph, seen, answer>>

\* Variant of BeginApprove: the Cypher comes before the UPDATE.
BeginAtCommit(c, t) == Begin(c, t, "commit")

BeginApprove(c, t) == Begin(c, t, "read")
BeginReject(c, t) == Begin(c, t, "reject")

\* approve_triple looks its target up among the oldest pending rows and keeps
\* the copy it found; a target outside that window is answered "race".
ReadTarget(c) ==
    /\ pc[c] = "read"
    /\ \/ /\ target[c] \in Listed(Window)
          /\ seen' = [seen EXCEPT ![c] = conf[target[c]]]
          /\ pc' = [pc EXCEPT ![c] = "mark"]
          /\ UNCHANGED answer
       \/ /\ target[c] \notin Listed(Window)
          /\ Finish(c, "race")
          /\ UNCHANGED seen
    /\ UNCHANGED <<store, graph, target>>

\* Variant of MarkApproved: returns after the UPDATE, without the Cypher.
MarkApprovedOnly(c) ==
    /\ pc[c] = "mark"
    /\ \/ /\ Decidable(target[c])
          /\ status' = [status EXCEPT ![target[c]] = "approved"]
          /\ Finish(c, "error")
       \/ /\ ~Decidable(target[c])
          /\ Finish(c, "race")
          /\ UNCHANGED status
    /\ UNCHANGED <<conf, created, inserts, graph, target, seen>>

MarkApproved(c) ==
    /\ pc[c] = "mark"
    /\ \/ /\ Decidable(target[c])
          /\ status' = [status EXCEPT ![target[c]] = "approved"]
          /\ pc' = [pc EXCEPT ![c] = "commit"]
          /\ UNCHANGED answer
       \/ /\ ~Decidable(target[c])
          /\ Finish(c, "race")
          /\ UNCHANGED status
    /\ UNCHANGED <<conf, created, inserts, graph, target, seen>>

MarkRejected(c) ==
    /\ pc[c] = "reject"
    /\ \/ /\ Decidable(target[c])
          /\ status' = [status EXCEPT ![target[c]] = "rejected"]
          /\ Finish(c, "rejected")
       \/ /\ ~Decidable(target[c])
          /\ Finish(c, "race")
          /\ UNCHANGED status
    /\ UNCHANGED <<conf, created, inserts, graph, target, seen>>

\* apoc.create.relationship CREATES: running it twice makes two edges.
AddEdge(t, c) ==
    /\ edges' = [edges EXCEPT ![t] = @ + 1]
    /\ edgeConf' = [edgeConf EXCEPT ![t] = c]

CommitEdge(c) ==
    /\ pc[c] = "commit"
    /\ AddEdge(target[c], seen[c])
    /\ Finish(c, "approved")
    /\ UNCHANGED <<store, target, seen>>

-----------------------------------------------------------------------------
(* What may go wrong                                                       *)

\* A Postgres statement of the call raises, so the tool raises.  An UPDATE
\* whose acknowledgement was lost has taken effect all the same.
PgFails(c) ==
    /\ "pg" \in Faults
    /\ pc[c] \in {"read", "mark", "reject"}
    /\ Finish(c, "error")
    /\ \/ UNCHANGED status
       \/ /\ pc[c] # "read"
          /\ Decidable(target[c])
          /\ status' = [status EXCEPT ![target[c]] =
                            IF pc[c] = "mark" THEN "approved" ELSE "rejected"]
    /\ UNCHANGED <<conf, created, inserts, graph, target, seen>>

\* Variant of Neo4jFails: the exception is logged and forgotten.
Neo4jFailureSwallowed(c) ==
    /\ "neo4j" \in Faults
    /\ pc[c] = "commit"
    /\ Finish(c, "approved")
    /\ UNCHANGED <<store, graph, target, seen>>

\* The Cypher raises; the relationship may have been created or not.
Neo4jFails(c) ==
    /\ "neo4j" \in Faults
    /\ pc[c] = "commit"
    /\ Finish(c, "neo4j_failed")
    /\ \/ UNCHANGED graph
       \/ AddEdge(target[c], seen[c])
    /\ UNCHANGED <<store, target, seen>>

\* The server reports the error only while it streams the result.  Nobody
\* reads the result, and the driver's session drops what it finds at close.
CypherFailsUnread(c) ==
    /\ "unread" \in Faults
    /\ pc[c] = "commit"
    /\ Finish(c, "approved")
    /\ UNCHANGED <<store, graph, target, seen>>

\* The API process dies and comes back: every open call is gone, and its
\* caller sees a broken connection.
ApiCrash ==
    /\ "crash" \in Faults
    /\ \E c \in Calls : pc[c] \in InFlight
    /\ pc' = [c \in Calls |-> IF pc[c] \in InFlight THEN "done" ELSE pc[c]]
    /\ answer' = [c \in Calls |->
                    IF pc[c] \in InFlight THEN "error" ELSE answer[c]]
    /\ UNCHANGED <<store, graph, target, seen>>

\* Variant of Release: the slot is cleared and not given back.
ReleaseHalf(c) ==
    /\ pc[c] = "done"
    /\ target' = [target EXCEPT ![c] = NoTriple]
    /\ answer' = [answer EXCEPT ![c] = "none"]
    /\ UNCHANGED <<store, graph, pc, seen>>

\* The response leaves the server, whether or not anybody still wants it.
Release(c) ==
    /\ pc[c] = "done"
    /\ pc' = [pc EXCEPT ![c] = "idle"]
    /\ target' = [target EXCEPT ![c] = NoTriple]
    /\ seen' = [seen EXCEPT ![c] = 0]
    /\ answer' = [answer EXCEPT ![c] = "none"]
    /\ UNCHANGED <<store, graph>>

-----------------------------------------------------------------------------

\* The statements a call executes when they work.
Work(c) == ReadTarget(c) \/ MarkApproved(c) \/ MarkRejected(c) \/ CommitEdge(c)

ServerStep ==
    \E c \in Calls :
        Work(c) \/ PgFails(c) \/ Neo4jFails(c) \/ CypherFailsUnread(c)

\* Any MCP client may call any of the tools.
Next ==
    \/ \E t \in Triples, v \in Conf : Propose(t, v)
    \/ \E c \in Calls, t \in Triples : BeginApprove(c, t) \/ BeginReject(c, t)
    \/ ServerStep
    \/ ApiCrash
    \/ \E c \in Calls : Release(c)

Spec == Init /\ [][Next]_vars

\* A coroutine whose awaited statement returns is resumed by the event loop.
FairSpec == Spec /\ \A c \in Calls : WF_vars(Work(c)) /\ WF_vars(Release(c))

-----------------------------------------------------------------------------
(* Safety                                                                  *)

\* approve_triple's Cypher is not idempotent: what keeps a claim from getting
\* two relationships is the order of its two writes together with the guard
\* of the UPDATE, for every interleaving of callers and every fault.
AtMostOneEdge == \A t \in Triples : edges[t] <= 1

\* A relationship in Neo4j belongs to a row marked approved, never to a
\* pending or a rejected one, and its confidence, copied before the UPDATE
\* while proposers keep raising the row's, is at most the row's.
EdgeBehindGate ==
    \A t \in Triples :
        edges[t] > 0 => status[t] = "approved" /\ edgeConf[t] <= conf[t]

\* The answers that claim the decision for their caller.
Winning == {"approved", "neo4j_failed", "rejected"}

\* Of several callers deciding the same claim at the same time, at most one
\* is told that its decision counted.
OneWinner ==
    \A c, d \in Calls :
        (answer[c] \in Winning /\ answer[d] \in Winning /\ target[c] = target[d])
            => c = d

\* What a call reports about the queue is so, whatever happened to the row
\* since: an approval left it approved, a rejection rejected.
AnswersTrue ==
    \A c \in Calls :
        /\ answer[c] \in {"approved", "neo4j_failed"} => status[target[c]] = "approved"
        /\ answer[c] = "rejected" => status[target[c]] = "rejected"

\* "committed: True" means that the relationship is in the graph; a write that
\* failed is answered "approved_but_neo4j_failed".
CommittedIsThere ==
    \A c \in Calls : answer[c] = "approved" => edges[target[c]] > 0

(* The inductive invariant of the safety properties above                  *)

\* An answer exists exactly in the slots that are done.
SlotsConsistent ==
    \A c \in Calls : answer[c] # "none" <=> pc[c] = "done"

\* Between its UPDATE and its Cypher an approval is the only thing that can
\* create the relationship, and the confidence it carries was proposed.
CommitPending ==
    \A c \in Calls :
        /\ pc[c] \in {"mark", "commit"} => seen[c] <= conf[target[c]]
        /\ pc[c] = "commit" => /\ status[target[c]] = "approved"
                               /\ edges[target[c]] = 0

\* Slot c holds the decision of its target.
Holds(c) == pc[c] = "commit" \/ answer[c] \in Winning

\* Two slots never hold the decision of the same claim.
OneHolder ==
    \A c, d \in Calls : Holds(c) /\ Holds(d) /\ target[c] = target[d] => c = d

\* Without a row there is no confidence to lower.
AbsentIsBlank == \A t \in Triples : status[t] = "absent" => conf[t] = 0

\* What every step preserves: the safety properties above and what they rest
\* on, namely who holds a decision and what it may still do with it.
IInv ==
    /\ TypeOK
    /\ AbsentIsBlank
    /\ SlotsConsistent
    /\ AtMostOneEdge
    /\ EdgeBehindGate
    /\ CommitPending
    /\ AnswersTrue
    /\ OneHolder

\* "race" is documented as "another caller decided this triple first".
RaceMeansDecided ==
    \A c \in Calls : answer[c] = "race" => status[target[c]] \in Decided

\* The two stores agree when nothing is under way: an approved row and its
\* relationship exist together.
StoresAgree ==
    (\A c \in Calls : pc[c] \notin InFlight) =>
        \A t \in Triples : status[t] = "approved" <=> edges[t] > 0

(* What a step may never do                                                *)

\* No step changes a decision that was taken, removes or rewrites a
\* relationship, or lowers a confidence.
NothingUndone ==
    [][\A t \in Triples :
        /\ status[t] \in Decided => status'[t] = status[t]
        /\ edges[t] > 0 => edges'[t] = edges[t] /\ edgeConf'[t] = edgeConf[t]
        /\ conf'[t] >= conf[t]]_vars

(* Liveness                                                                *)

\* A row marked approved gets its relationship.
ApprovedReachesGraph ==
    \A t \in Triples : status[t] = "approved" ~> edges[t] > 0

(* Refinement                                                              *)

VerdictOf(t) ==
    CASE status[t] = "absent" -> "unknown"
      [] status[t] = "pending" -> "proposed"
      [] status[t] = "rejected" -> "refused"
      [] status[t] = "approved" ->
            IF edges[t] > 0 THEN "published" ELSE "accepted"

Gate == INSTANCE KnowledgeGate WITH
            verdict <- [t \in Triples |-> VerdictOf(t)],
            best <- conf,
            shown <- edgeConf

\* The server implements what the gate promises.
ImplementsGate == Gate!Spec
=============================================================================
