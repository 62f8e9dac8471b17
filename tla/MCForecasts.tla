---------------------------- MODULE MCForecasts ----------------------------
(* Instances of Forecasts for TLC: the supervisor's daily and weekly jobs   *)
(* and a script run by hand.                                                *)
EXTENDS Forecasts

CONSTANTS daily, weekly, manual

MCKind ==
    [r \in Runs |->
        CASE r = daily -> "concept"
          [] r = weekly -> "digest"
          [] r = manual -> "top_n"]
=============================================================================
