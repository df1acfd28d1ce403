------------------------------ MODULE Question ------------------------------
(***************************************************************************)
(* Functions without state, one call of them: what they are asked, and     *)
(* what they answer.  A module for each says what is asked and how it is   *)
(* answered; MCAlgorithms asks all of them.                                *)
(***************************************************************************)
VARIABLES question, answer

asked_vars == <<question, answer>>

Unanswered == [of |-> "none"]

Asked(kind) == question.of = kind /\ answer = Unanswered

Answer(record) == answer' = record /\ UNCHANGED question
=============================================================================
