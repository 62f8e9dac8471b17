------------------------------ MODULE MCCritic ------------------------------
(* Instances of Critic for TLC. *)
EXTENDS Critic

CONSTANTS good, bad, odd, strange, lost

GoodBadAndLost == {good, bad, lost}
GoodAndTwoOdd == {good, odd, strange}

\* The SLM is sure about good and lost, may say either about bad, and the reviews
\* of odd and strange may end in an exception, every time if it so happens.
OutcomesOf(t) ==
    CASE t = good -> {"approved"}
      [] t = bad -> {"approved", "rejected"}
      [] t = lost -> {"approved"}
      [] t = odd -> {"rejected", "raises"}
      [] t = strange -> {"raises"}

GoodBadAndLostOutcomes == [t \in GoodBadAndLost |-> OutcomesOf(t)]
GoodAndTwoOddOutcomes == [t \in GoodAndTwoOdd |-> OutcomesOf(t)]
=============================================================================
