----------------------------- MODULE MCPublication -----------------------------
(* Constants of the run evaluation. *)
EXTENDS Publication, MCEvaluation
===============================================================================
