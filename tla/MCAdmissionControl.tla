-------------------------- MODULE MCAdmissionControl --------------------------
(* Model-checking instance of AdmissionControl: three callers, two slots. *)
EXTENDS AdmissionControl, TLC

CONSTANTS c1, c2, c3

MCCallers == {c1, c2, c3}
===============================================================================
