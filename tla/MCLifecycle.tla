---------------------------- MODULE MCLifecycle ----------------------------
(* Instances of Lifecycle for TLC. *)
EXTENDS Lifecycle

CONSTANTS approve, evidence, health

\* An approval lists, marks and commits; the evidence bundle is two queries; a
\* health check passes over a store that fails.
Scripts ==
    [h \in {approve, evidence, health} |->
        CASE h = approve -> <<"pg", "pg", "neo4j">>
          [] h = evidence -> <<"pg", "pg">>
          [] h = health -> <<"neo4j", "pg">>]
=============================================================================
