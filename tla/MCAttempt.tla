------------------------------ MODULE MCAttempt ------------------------------
(* Constants of the run attempt. *)
EXTENDS Attempt

Text(length, iOnnx, iHeuristic, sOnnx, keyword) ==
    [length |-> length, injection |-> [onnx |-> iOnnx, heuristic |-> iHeuristic],
     safety |-> [onnx |-> sOnnx, keyword |-> keyword]]

\* Harmless; at both thresholds; injected and unsafe; the models raise and a
\* keyword matches; outside the length of the schema.
MCTexts ==
    {Text(TRUE, 10, 0, 90, FALSE), Text(TRUE, 70, 70, 20, FALSE),
     Text(TRUE, 71, 90, 19, TRUE), Text(TRUE, Raises, 0, Raises, TRUE),
     Text(FALSE, 0, 0, 100, FALSE)}

MCJobs ==
    {[injection |-> "always", safety |-> "conditional", toolUse |-> FALSE,
      output |-> "sync", schema |-> "valid", verification |-> "required",
      onnx |-> TRUE],
     [injection |-> "conditional", safety |-> "never", toolUse |-> TRUE,
      output |-> "async", schema |-> "invalid", verification |-> "verifiable_only",
      onnx |-> TRUE],
     [injection |-> "conditional", safety |-> "never", toolUse |-> FALSE,
      output |-> "none", schema |-> "absent", verification |-> "required",
      onnx |-> FALSE]}
===============================================================================
