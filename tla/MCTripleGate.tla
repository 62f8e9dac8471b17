---------------------------- MODULE MCTripleGate ----------------------------
(* Instances of TripleGate for TLC.  The claims bound the rows, each slot   *)
(* serves one call at a time, and a claim decided stays decided, so the     *)
(* state space is finite without a bound in a guard.                        *)
EXTENDS TripleGate
=============================================================================
