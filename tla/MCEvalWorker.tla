------------------------------ MODULE MCEvalWorker ------------------------------
(* Model-checking instance of EvalWorker: three tasks, two threads. *)
EXTENDS EvalWorker

CONSTANTS t1, t2, t3, w1, w2

MCTasks == {t1, t2, t3}
MCWorkers == {w1, w2}
===============================================================================
