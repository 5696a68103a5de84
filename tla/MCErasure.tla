------------------------------- MODULE MCErasure -------------------------------
(* What becomes of a customer's record and of the survey of a ticket, when    *)
(* customers are erased and merged and tickets deleted.  The two share no     *)
(* state, so a behavior runs one of them.                                     *)
EXTENDS MCCustomerErasure, Surveys

VARIABLE part

mcVars == <<erasureVars, surveyVars, part>>

MCInit == part \in {"erasure", "survey"} /\ ErasureInit /\ SurveyInit

MCNext ==
  \/ part = "erasure" /\ ErasureNext /\ UNCHANGED <<surveyVars, part>>
  \/ part = "survey" /\ SurveyNext /\ UNCHANGED <<erasureVars, part>>

MCSpec == MCInit /\ [][MCNext]_mcVars
=============================================================================
