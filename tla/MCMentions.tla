----------------------------- MODULE MCMentions -----------------------------
(* Instances of Mentions for TLC. *)
EXTENDS Mentions

AllPapers == [s \in Sources |-> "arxiv"]
=============================================================================
