------------------------------ MODULE MCViews ------------------------------
(* Instances of Views, and of the gate below it, for TLC. *)
EXTENDS Views, TLC

\* Claims and slots are interchangeable; used only where no liveness is checked.
Interchangeable == Permutations(Triples) \cup Permutations(Calls)

\* Every claim is about a concept of its own and a common one, in one paper.
HubAndSpoke == [t \in Triples |-> {t, "hub"}]
OnePaper == [t \in Triples |-> "paper"]
=============================================================================
