------------------------------ MODULE MCScout ------------------------------
(***************************************************************************)
(* An instance of Scout for TLC.  Two feeds list the last source: one has  *)
(* the poisoned source in front of it, and a run takes both; the other has *)
(* the first source in front of it, and a run takes one entry.             *)
(***************************************************************************)
EXTENDS Scout

CONSTANTS first, second, third, mcp, a2a, wide, narrow

ThreeSources == <<first, second, third>>

TwoFeeds ==
    [k \in {wide, narrow} |->
        IF k = wide THEN {second, third} ELSE {first, third}]
TwoLimits == [k \in {wide, narrow} |-> IF k = wide THEN 2 ELSE 1]

\* The text of the last source may change.
LastHasTwo == [s \in Sources |-> IF s = third THEN 2 ELSE 1]

\* The poisoned source shows its date only when a concept is found in it.
Answers ==
    [s \in Sources |->
        CASE s = first -> {{mcp, a2a}}
          [] s = second -> {{mcp}, {}}
          [] s = third -> {{mcp}}]
=============================================================================
