----------------------------- MODULE MCEvaluation -----------------------------
(* Constants of the runs evaluation and gate_enterprise. *)
EXTENDS Evaluation

\* In the code 100, 100, 50, 200 and 50: half as many of some, and thresholds
\* at which one wrong answer of four is just allowed, two of four are enterprise's.
MCExamples ==
    [gsm8k |-> 4, math500 |-> 4, humaneval |-> 2, enterprise_synthetic |-> 4,
     adversarial |-> 2]
===============================================================================
