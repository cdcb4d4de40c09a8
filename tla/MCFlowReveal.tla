---------------------------- MODULE MCFlowReveal ----------------------------
(* Model-checking instance of FlowReveal. *)
EXTENDS FlowReveal

\* Six stages of the journey, in the order of CANONICAL.
SixStages == <<"produced", "consumed", "parsed", "committed",
               "retrying", "dead-lettered">>
=============================================================================
