------------------------------- MODULE MCEvalRun -------------------------------
(* Instances of EvalRun for TLC: four chunks of two documents. *)
EXTENDS EvalRun

MCDocOf == [c \in Chunks |-> IF c = "c1" THEN "d1" ELSE "d2"]

\* 7, 10, " 3/4", 42, 100, no digit, and a superscript two.
MCReplies ==
  {<<7>>, <<1, 0>>, <<NoDigit, 3, NoDigit, 4>>, <<4, 2>>, <<1, 0, 0>>, <<NoDigit>>,
   <<OtherDigit>>}
===============================================================================
