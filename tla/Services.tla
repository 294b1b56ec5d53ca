------------------------------- MODULE Services -------------------------------
(***************************************************************************)
(* What the guardrail and the verifier service answer, and what their      *)
(* clients make of an answer, a timeout or a failure: guardrail_service/*, *)
(* gateway/guardrail_client.py, verifier_service/*,                        *)
(* gateway/verifier_client.py and the verifier call of                     *)
(* evaluation/benchmark_harness.py.  Both services are stateless.          *)
(* A probability is given in hundredths; a text is what the classifiers    *)
(* make of it, an answer what comparing it with the reference yields.      *)
(***************************************************************************)
EXTENDS Integers

\* How a call ends for its client.  The service may have worked on a call
\* that timed out.
Channels == {"answered", "timeout", "error"}

\* Status 4xx or 5xx of a service.
Refused == [ok |-> FALSE]

\* raise_for_status lets the reply pass.
Usable(channel, reply) == channel = "answered" /\ reply.ok
-------------------------------------------------------------------------------
(* Guardrail service *)

Probability == 0..100
Raises == -1    \* the ONNX path of a classifier raises

\* length: within the bounds of the request schema; injection: probability of
\* either path; safety: safe_prob of the ONNX path, keyword match of the other.
TextType ==
    [length : BOOLEAN,
     injection : [onnx : Probability \cup {Raises}, heuristic : Probability],
     safety : [onnx : Probability \cup {Raises}, keyword : BOOLEAN]]

\* InjectionClassifier.classify: onnx tells whether the model is loaded.
InjectionProbability(onnx, t) ==
    IF onnx /\ t.injection.onnx # Raises THEN t.injection.onnx ELSE t.injection.heuristic

\* SafetyClassifier.classify
Safety(onnx, t) ==
    LET p == t.safety.onnx
    IN  IF onnx /\ p # Raises
        THEN [safe |-> p >= 50, confidence |-> IF p >= 50 THEN p ELSE 100 - p]
        ELSE [safe |-> ~t.safety.keyword,
              confidence |-> IF t.safety.keyword THEN 95 ELSE 98]

InjectionThreshold == 70
SafetyThreshold == 80

Injected(onnx, t) == InjectionProbability(onnx, t) > InjectionThreshold

Unsafe(onnx, t) ==
    /\ ~Safety(onnx, t).safe
    /\ Safety(onnx, t).confidence > SafetyThreshold

\* (mutant) a flag goes before a block.
InputReplyFlagFirst(onnx, t, runInjection, runSafety) ==
    CASE ~t.length -> Refused
      [] t.length /\ runInjection /\ Injected(onnx, t) -> [ok |-> TRUE, result |-> "flag"]
      [] OTHER ->
            [ok |-> TRUE, result |-> IF runSafety /\ Unsafe(onnx, t) THEN "block" ELSE "pass"]

\* POST /guardrail/input: a block goes before a flag.
InputReply(onnx, t, runInjection, runSafety) ==
    CASE ~t.length -> Refused
      [] t.length /\ runSafety /\ Unsafe(onnx, t) -> [ok |-> TRUE, result |-> "block"]
      [] OTHER ->
            [ok |-> TRUE, result |-> IF runInjection /\ Injected(onnx, t) THEN "flag" ELSE "pass"]

\* POST /guardrail/output
OutputReply(onnx, t) ==
    IF t.length
    THEN [ok |-> TRUE, result |-> IF Unsafe(onnx, t) THEN "block" ELSE "pass"]
    ELSE Refused
-------------------------------------------------------------------------------
(* Guardrail client *)

\* A reply of status 200 without a result, or with one the client does not know:
\* the service of this repository sends none, another version of it may.
Unrecognized == [ok |-> TRUE, result |-> "other"]

\* _parse_input_response and _parse_output_response: what is missing or not
\* known is read as "pass".
Parsed(reply) ==
    IF reply.result \in {"pass", "flag", "block", "degraded"} THEN reply.result ELSE "pass"

\* check_input: closed on a timeout and on any other failure.
InputDecision(channel, reply) ==
    CASE channel = "timeout" -> "block"
      [] Usable(channel, reply) -> Parsed(reply)
      [] OTHER -> "degraded"

\* check_output: open on every failure.
OutputDecision(channel, reply) ==
    IF Usable(channel, reply) THEN Parsed(reply) ELSE "degraded"
-------------------------------------------------------------------------------
(* Verifier service *)

\* GSM8KVerifier: expected and found are what the expected answer and the last
\* match in the response are to float; the values are equal or not.
Gsm8kVerdict(expected, found, equal) ==
    CASE expected # "number" \/ found # "number" -> "unverifiable"
      [] OTHER -> IF equal THEN "correct" ELSE "incorrect"

\* MathVerifier: identical after normalization, else what sympy says, which
\* is "unknown" when it cannot parse either side.
MathVerdict(expected, identical, sympy) ==
    CASE expected = "absent" -> "unverifiable"
      [] expected # "absent" /\ (identical \/ sympy = "equal") -> "correct"
      [] OTHER -> IF sympy = "different" THEN "incorrect" ELSE "unverifiable"

\* HumanEvalRunner: a subprocess with two seconds.
HumanEvalVerdict(tests, code, end) ==
    CASE ~tests \/ ~code \/ end = "raised" -> "unverifiable"
      [] OTHER -> IF end = "exit 0" THEN "correct" ELSE "incorrect"

\* SchemaVerifier: the answer is parsed before the schema is checked.
SchemaVerdict(schema, answer) ==
    CASE schema = "empty" -> "unverifiable"
      [] schema # "empty" /\ answer = "malformed" -> "incorrect"
      [] OTHER -> IF schema = "invalid" THEN "unverifiable"
                  ELSE IF answer = "conforms" THEN "correct" ELSE "incorrect"

\* POST /verify.  The reason begins with the verdict; for a schema it goes on
\* with the first error, which quotes the answer: echo tells whether that
\* quotation contains the word the client looks for.
VerifyReply(verdict, echo) ==
    [ok |-> TRUE, passed |-> verdict = "correct",
     saysUnverifiable |-> verdict = "unverifiable" \/ echo]

\* A reply of status 200 without the fields the client reads: passed is False
\* and the reason "unknown" then.
Fieldless == [ok |-> TRUE, passed |-> FALSE, saysUnverifiable |-> FALSE]

\* (mutant) a failure of the verifier counts against the answer.
VerifierDecisionStrict(channel, reply) ==
    CASE ~Usable(channel, reply) -> "incorrect"
      [] Usable(channel, reply) /\ reply.passed -> "correct"
      [] OTHER -> IF reply.saysUnverifiable THEN "unverifiable" ELSE "incorrect"

\* VerifierClient.verify and _parse_verify_response
VerifierDecision(channel, reply) ==
    CASE ~Usable(channel, reply) -> "unverifiable"
      [] Usable(channel, reply) /\ reply.passed -> "correct"
      [] OTHER -> IF reply.saysUnverifiable THEN "unverifiable" ELSE "incorrect"

\* _verify_response of the benchmark harness looks at nothing but passed.
HarnessDecision(channel, reply) ==
    CASE ~Usable(channel, reply) -> "unverifiable"
      [] Usable(channel, reply) /\ reply.passed -> "correct"
      [] OTHER -> "incorrect"
===============================================================================
