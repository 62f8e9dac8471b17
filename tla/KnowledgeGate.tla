--------------------------- MODULE KnowledgeGate ---------------------------
(***************************************************************************)
(* What the proposer-critic gate promises about one claim, with no server, *)
(* no database and no caller: a claim is proposed, it is accepted or       *)
(* refused once, and an accepted claim may be published in the knowledge   *)
(* graph, once, with a confidence that somebody really proposed for it or  *)
(* a lower one.  TripleGate implements this specification.                 *)
(***************************************************************************)
EXTENDS Naturals

CONSTANTS
    Triples,   \* the claims, one per (subject, predicate, object, source)
    MaxConf    \* confidences are 0 .. MaxConf, a scaled [0.0, 1.0]

VARIABLES
    verdict,   \* verdict[t]: how far claim t has come
    best,      \* best[t]: the highest confidence t was proposed with
    shown      \* shown[t]: the confidence the graph shows for t

gateVars == <<verdict, best, shown>>

Conf == 0 .. MaxConf

Verdicts == {"unknown", "proposed", "accepted", "refused", "published"}

Init ==
    /\ verdict = [t \in Triples |-> "unknown"]
    /\ best = [t \in Triples |-> 0]
    /\ shown = [t \in Triples |-> 0]

\* A claim arrives, for the first time or again.  Arriving again never
\* lowers its confidence and never changes its verdict.
Propose(t) ==
    /\ \E c \in Conf : c >= best[t] /\ best' = [best EXCEPT ![t] = c]
    /\ \/ /\ verdict[t] = "unknown"
          /\ verdict' = [verdict EXCEPT ![t] = "proposed"]
       \/ /\ verdict[t] # "unknown"
          /\ UNCHANGED verdict
    /\ UNCHANGED shown

Accept(t) ==
    /\ verdict[t] = "proposed"
    /\ verdict' = [verdict EXCEPT ![t] = "accepted"]
    /\ UNCHANGED <<best, shown>>

Refuse(t) ==
    /\ verdict[t] = "proposed"
    /\ verdict' = [verdict EXCEPT ![t] = "refused"]
    /\ UNCHANGED <<best, shown>>

Publish(t) ==
    /\ verdict[t] = "accepted"
    /\ verdict' = [verdict EXCEPT ![t] = "published"]
    /\ \E c \in Conf : c <= best[t] /\ shown' = [shown EXCEPT ![t] = c]
    /\ UNCHANGED best

Next ==
    \E t \in Triples : Propose(t) \/ Accept(t) \/ Refuse(t) \/ Publish(t)

Spec == Init /\ [][Next]_gateVars
=============================================================================
