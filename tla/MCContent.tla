------------------------------ MODULE MCContent ------------------------------
(* One entry, one text with a body and one without, one time to schedule,  *)
(* asked for again after it was cancelled.                                 *)
EXTENDS Content

MCInputs == {"empty", "text"}
MCBlank == {"empty"}
MCTimes == {2}
=============================================================================
