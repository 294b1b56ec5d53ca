------------------------------ MODULE Evaluation ------------------------------
(***************************************************************************)
(* How a change of configuration is judged before it is deployed:          *)
(* evaluation/benchmark_harness.py runs a dataset through the bare model   *)
(* (baselines 1-3) and through the gateway (4-6) and writes one file for   *)
(* each run; evaluation/regression_gate.py compares two of those files.    *)
(* The loaders are evaluation/datasets.py, the counts are those of         *)
(* evaluation/metric_calculator.py.  The gate's escalation check cannot    *)
(* fail on the rates the harness computes, and no code populates slices.   *)
(***************************************************************************)
EXTENDS Integers, Services

CONSTANTS
    Examples,               \* DATASET_EXPECTED_COUNTS
    VerifiableThreshold,    \* percentage points, 1 in the code
    EnterpriseThreshold     \* percentage points, 2 in the code

Kind ==
    [gsm8k |-> "verifiable", math500 |-> "verifiable", humaneval |-> "verifiable",
     enterprise_synthetic |-> "enterprise_synthetic", adversarial |-> "adversarial"]
Datasets == DOMAIN Examples

ASSUME ExamplesAssumption ==
    Datasets \subseteq DOMAIN Kind /\ \A d \in Datasets : Examples[d] \in Nat \ {0}
ASSUME ThresholdsAssumption == VerifiableThreshold \in Nat /\ EnterpriseThreshold \in Nat

Outcomes == {"correct", "incorrect", "unverifiable", "error"}
Sides == {"baseline", "governed"}
NoTally == [o \in Outcomes |-> 0]

VARIABLES
    side,       \* the run in progress, or "gate" once both are written
    dataset,    \* the dataset of the run, "none" before it starts
    left,       \* examples still to run
    tally,      \* outcomes so far
    right,      \* history: right answers so far, judged or not
    file,       \* the result files
    gate        \* GateResult.passed

vars == <<side, dataset, left, tally, right, file, gate>>

NoFile == [dataset |-> "none", count |-> 0, tally |-> NoTally, right |-> 0]

Init ==
    /\ side = "baseline"
    /\ dataset = "none"
    /\ left = 0
    /\ tally = NoTally
    /\ right = 0
    /\ file = [s \in Sides |-> NoFile]
    /\ gate = "open"
-------------------------------------------------------------------------------
(* run_baseline *)

Following(s) == IF s = "baseline" THEN "governed" ELSE "gate"

Write(result) ==
    /\ file' = [file EXCEPT ![side] = result]
    /\ side' = Following(side)
    /\ dataset' = "none"
    /\ left' = 0
    /\ tally' = NoTally
    /\ right' = 0
    /\ UNCHANGED gate

\* The dataset is not there or not valid, the model server is not up, or the run
\* raises an exception: a file full of zeros.
Blocked(d) ==
    /\ side \in Sides /\ dataset \in {"none", d}
    /\ Write([NoFile EXCEPT !.dataset = d])

\* A dataset that is loaded and valid has the expected count.
Load(d) ==
    /\ side \in Sides /\ dataset = "none"
    /\ dataset' = d
    /\ left' = Examples[d]
    /\ UNCHANGED <<side, tally, right, file, gate>>

\* The verifier's view of an answer to a verifiable example.
Verdicts(d) ==
    CASE d = "gsm8k" ->
            {Gsm8kVerdict(e, f, equal) :
                e \in {"number", "text"}, f \in {"number", "nothing"}, equal \in BOOLEAN}
      [] d = "math500" ->
            {MathVerdict("given", identical, s) :
                identical \in BOOLEAN, s \in {"equal", "different", "unknown"}}
      [] OTHER ->
            {HumanEvalVerdict(TRUE, code, end) :
                code \in BOOLEAN, end \in {"exit 0", "exit 1", "timeout", "raised"}}

\* What is recorded of an answer the verifier was asked about: v is its view,
\* c the way the call ended.
JudgementOf(c, v) ==
    [outcome |-> HarnessDecision(c, VerifyReply(v, FALSE)), right |-> v = "correct"]

\* _verify_response: what is recorded of an answer, and whether it is right.
\* Nobody judges the answers to the enterprise set; an adversarial example is
\* right if its text shows the behaviour expected of the system.
Judgements(d) ==
    CASE Kind[d] = "adversarial" ->
            {[outcome |-> IF r THEN "correct" ELSE "incorrect", right |-> r] : r \in BOOLEAN}
      [] Kind[d] = "enterprise_synthetic" ->
            {[outcome |-> "unverifiable", right |-> r] : r \in BOOLEAN}
      [] OTHER ->
            {JudgementOf(c, v) : c \in Channels, v \in Verdicts(d)}

\* _call_vllm_direct, _call_gateway: a failure or an HTTP error, the gateway's
\* block of a prompt among them.
NoAnswer == [outcome |-> "error", right |-> FALSE]

\* _run_one_example
RunExample ==
    /\ dataset # "none" /\ left > 0
    /\ \E j \in Judgements(dataset) \cup {NoAnswer} :
          /\ tally' = [tally EXCEPT ![j.outcome] = @ + 1]
          /\ right' = IF j.right THEN right + 1 ELSE right
    /\ left' = left - 1
    /\ UNCHANGED <<side, dataset, file, gate>>

\* compute_dataset_metrics, _write_result
WriteResult ==
    /\ dataset # "none" /\ left = 0
    /\ Write([dataset |-> dataset, count |-> Examples[dataset], tally |-> tally,
              right |-> right])
-------------------------------------------------------------------------------
(* evaluate_gate *)

Threshold(d) ==
    IF Kind[d] = "enterprise_synthetic" THEN EnterpriseThreshold ELSE VerifiableThreshold

Judged(f) == f.tally["correct"] + f.tally["incorrect"]

\* correct / (correct + incorrect), or zero, as a fraction.
Accuracy(f) ==
    IF Judged(f) > 0 THEN <<f.tally["correct"], Judged(f)>> ELSE <<0, 1>>

\* (mutant) a file without samples is compared as well.
SlicePassesBlocked(b, g) ==
    LET x == Accuracy(b)
        y == Accuracy(g)
    IN  100 * (x[1] * y[2] - y[1] * x[2]) <= Threshold(g.dataset) * x[2] * y[2]

\* evaluate_slice: absolute difference in percentage points.
SlicePasses(b, g) ==
    LET x == Accuracy(b)
        y == Accuracy(g)
    IN  /\ b.count > 0 /\ g.count > 0
        /\ 100 * (x[1] * y[2] - y[1] * x[2]) <= Threshold(g.dataset) * x[2] * y[2]

\* _check_adversarial_compliance
AdversarialCompliant(g) ==
    g.count = 0 \/ (g.tally["incorrect"] = 0 /\ g.tally["error"] = 0)

\* A dataset without a file of the baseline is skipped.
Passes(b, g) ==
    IF Kind[g.dataset] = "adversarial"
    THEN AdversarialCompliant(g)
    ELSE b.dataset # g.dataset \/ SlicePasses(b, g)

Gate ==
    /\ side = "gate" /\ gate = "open"
    /\ gate' = IF Passes(file["baseline"], file["governed"]) THEN "passed" ELSE "failed"
    /\ UNCHANGED <<side, dataset, left, tally, right, file>>

Deployed ==
    /\ gate # "open"
    /\ UNCHANGED vars

Next ==
    \/ \E d \in Datasets : Blocked(d) \/ Load(d)
    \/ RunExample
    \/ WriteResult
    \/ Gate
    \/ Deployed

Spec == Init /\ [][Next]_vars
-------------------------------------------------------------------------------
(* Properties *)

Compared ==
    /\ file["baseline"].dataset = file["governed"].dataset
    /\ Kind[file["governed"].dataset] # "adversarial"

\* A fall in right answers of so many percentage points and so many answers.
FallWithin(points, answers) ==
    100 * (file["baseline"].right - file["governed"].right)
        <= points * file["governed"].count + 100 * answers

WithinThreshold == FallWithin(Threshold(file["governed"].dataset), 0)

\* Where a fall can hide: the governed answers nobody judged, failed calls among
\* them, and the baseline's answers that were left unverifiable.
Hidden ==
    file["governed"].count - Judged(file["governed"])
        + file["baseline"].tally["unverifiable"]

\* What a pass of the gate says.  Of two files of one dataset: both runs were
\* complete, and the right answers fell by no more than the threshold and one for
\* each answer in which a fall can hide; if all were judged, by no more than the
\* threshold.  It does not say more: with a verifier that is down on the governed
\* side, one right answer and three unverifiable ones pass against four right
\* ones, and on the enterprise set it says nothing (EnterpriseFallFails).  Of an
\* adversarial file: its system behaved as expected on every example, unless the
\* run was blocked, when there is none, which the check takes for compliance.
\* A file that has no counterpart in the baseline is skipped.
\* regression_gate.py:168-172, 196-200 and 384-390.
GateSound ==
    gate = "passed" =>
        /\ Compared =>
              /\ \A s \in Sides : file[s].count = Examples[file[s].dataset]
              /\ FallWithin(Threshold(file["governed"].dataset), Hidden)
        /\ file["governed"].dataset = "adversarial" =>
              \/ file["governed"].count = 0
              \/ /\ file["governed"].count = Examples["adversarial"]
                 /\ file["governed"].right = file["governed"].count

\* regression_gate.py:5-9: a change that causes accuracy to fall more than two
\* percentage points on the enterprise synthetic set fails the gate.
EnterpriseFallFails ==
    (gate = "passed" /\ Compared
        /\ file["governed"].dataset = "enterprise_synthetic"
        /\ \A s \in Sides : file[s].tally["error"] = 0)
    => WithinThreshold
===============================================================================
