------------------------------ MODULE MCPlanner ------------------------------
(* Instances of Mentions and Planner for TLC. *)
EXTENDS Planner

CONSTANTS paper, blog, post

AllTypes == [s \in {paper, blog, post} |-> IF s = paper THEN "arxiv" ELSE "blog"]

\* The file asks for one of the concepts what a spike of it would ask.
OneCurated == << Text("spikes", CHOOSE c \in Concepts : TRUE),
                 Text("curated", "agents") >>

\* Sources of one type that nothing else tells apart.
Interchangeable == Permutations({blog, post})
=============================================================================
