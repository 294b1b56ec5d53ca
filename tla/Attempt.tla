------------------------------- MODULE Attempt -------------------------------
(***************************************************************************)
(* One attempt at a request, as gateway/main.py makes it with the services *)
(* it calls: the input guardrail, a generation (module Generation), the    *)
(* output guardrail, the report and the verification.  Where Gateway       *)
(* chooses any outcome of a service, this module derives it from the text  *)
(* and from how the call ends (module Services).                           *)
(***************************************************************************)
EXTENDS Generation, Services

CONSTANTS
    Jobs,       \* what a request and its policy ask for, see JobType
    Texts       \* prompts and completions, as the classifiers see them

\* injection, safety, output, verification: the modes of the policy; toolUse:
\* the domain of the request; schema: response_schema; onnx: the guardrail
\* service has loaded its models.
JobType ==
    [injection : {"always", "conditional", "never", "none"},
     safety : {"always", "conditional", "never", "none"}, toolUse : BOOLEAN,
     output : {"none", "sync", "async"},
     schema : {"absent", "valid", "invalid"},
     verification : {"none", "verifiable_only", "required"}, onnx : BOOLEAN]

ASSUME AttemptJobsAssumption == \A j \in Jobs : j \in JobType
ASSUME TextsAssumption == \A t \in Texts : t \in TextType

VARIABLES
    stage,      \* where the handler is
    job,
    prompt,     \* the redacted prompt
    input,      \* guardrail_input_result
    completion, \* the content of the reply
    output,     \* guardrail_output_result
    defaulted,  \* history: the calls whose reply lacked what their client reads
    background, \* the task of the asynchronous output check
    judged,     \* history: what the verifier service concluded
    verdict,    \* verification_result
    answer      \* what the client gets

attemptVars == <<stage, job, prompt, input, completion, output, defaulted,
                 background, judged, verdict, answer>>
vars == <<genVars, attemptVars>>

\* The content of a reply without choices.
NoText ==
    [length |-> FALSE, injection |-> [onnx |-> 0, heuristic |-> 0],
     safety |-> [onnx |-> 100, keyword |-> FALSE]]

Init ==
    /\ GenInit
    /\ stage = "screen"
    /\ job \in Jobs
    /\ prompt = NoText
    /\ input = "skipped"
    /\ completion = NoText
    /\ output = "skipped"
    /\ defaulted = {}
    /\ background = "none"
    /\ judged = "none"
    /\ verdict = "skipped"
    /\ answer = "none"

\* known: the reply to this call says what its client looks for.
Understood(side, channel, known) ==
    defaulted' = IF channel = "answered" /\ ~known THEN defaulted \cup {side} ELSE defaulted
-------------------------------------------------------------------------------
(* Step 10, before the first attempt *)

\* _should_run_injection, _should_run_safety
RunsInjection(j) ==
    j.injection = "always" \/ (j.injection = "conditional" /\ j.toolUse)
RunsSafety(j) == j.safety \in {"always", "conditional"}
Screens(j) == RunsInjection(j) \/ RunsSafety(j)

Screen ==
    /\ stage = "screen"
    /\ \E t \in Texts, c \in Channels, known \in BOOLEAN :
          LET reply == IF known
                       THEN InputReply(job.onnx, t, RunsInjection(job), RunsSafety(job))
                       ELSE Unrecognized
          IN  /\ prompt' = t
              /\ IF Screens(job)
                 THEN /\ input' = InputDecision(c, reply)
                      /\ Understood("input", c, known)
                 ELSE UNCHANGED <<input, defaulted>>
    /\ IF input' \in {"block", "degraded"}
       THEN stage' = "end" /\ answer' = "guardrail_block"
       ELSE stage' = "generate" /\ UNCHANGED answer
    /\ UNCHANGED <<genVars, job, completion, output, background, judged, verdict>>
-------------------------------------------------------------------------------
(* _run_single_attempt *)

Generate ==
    /\ stage = "generate"
    /\ BuildCallSpec \/ CallProcessor \/ (\E t \in Tokens \ {"none"} : Sample(t))
    /\ UNCHANGED attemptVars

\* VLLMClient.complete raises, whatever the engine has done.
CallFails ==
    /\ stage = "generate" /\ phase # "new"
    /\ stage' = "end"
    /\ answer' = "inference_unavailable"
    /\ UNCHANGED <<genVars, job, prompt, input, completion, output, defaulted,
                   background, judged, verdict>>

\* The reply arrives; an asynchronous output check starts.
Receive ==
    /\ stage = "generate" /\ phase = "reply"
    /\ completion' \in Texts \cup {NoText}
    /\ stage' = IF job.output = "sync" THEN "show" ELSE "report"
    /\ background' = IF job.output = "async" THEN "pending" ELSE "none"
    /\ output' = IF job.output = "async" THEN "async_pending" ELSE output
    /\ UNCHANGED <<genVars, job, prompt, input, defaulted, judged, verdict, answer>>

Show ==
    /\ stage = "show"
    /\ \E c \in Channels, known \in BOOLEAN :
          LET reply == IF known THEN OutputReply(job.onnx, completion) ELSE Unrecognized
          IN  /\ output' = OutputDecision(c, reply)
              /\ Understood("output", c, known)
    /\ IF output' = "block"
       THEN stage' = "end" /\ answer' = "output_safety_block"
       ELSE stage' = "report" /\ UNCHANGED answer
    /\ UNCHANGED <<genVars, job, prompt, input, completion, background, judged, verdict>>

\* build_result indexes the empty list of choices.
ReportRaises ==
    /\ stage = "report" /\ completion = NoText
    /\ stage' = "end"
    /\ answer' = "internal_error"
    /\ UNCHANGED <<genVars, job, prompt, input, completion, output, defaulted,
                   background, judged, verdict>>

\* build_result, then the verifier for a request with a schema; a policy that
\* requires a verification nobody can make is content with "unverifiable".
Report ==
    /\ stage = "report" /\ completion # NoText
    /\ BuildResult
    /\ \/ /\ job.schema # "absent" /\ job.verification # "none"
          /\ stage' = "verify"
          /\ UNCHANGED <<verdict, answer>>
       \/ /\ job.schema = "absent" \/ job.verification = "none"
          /\ stage' = "end"
          /\ answer' = "delivered"
          /\ verdict' = IF job.schema = "absent" /\ job.verification = "required"
                        THEN "unverifiable" ELSE verdict
    /\ UNCHANGED <<job, prompt, input, completion, output, defaulted, background, judged>>

\* An error message quotes an answer that violates the schema.
Echoes(a) == IF a = "violates" THEN BOOLEAN ELSE {FALSE}

Verify ==
    /\ stage = "verify"
    /\ \E c \in Channels, a \in {"malformed", "violates", "conforms"}, known \in BOOLEAN :
       \E echo \in Echoes(a) :
          LET v == SchemaVerdict(job.schema, a)
              reply == IF known THEN VerifyReply(v, echo) ELSE Fieldless
          IN  /\ judged' = IF c = "answered" /\ known THEN v ELSE "none"
              /\ verdict' = VerifierDecision(c, reply)
              /\ Understood("verifier", c, known)
    /\ stage' = "end"
    /\ answer' = "delivered"
    /\ UNCHANGED <<genVars, job, prompt, input, completion, output, background>>

\* _background_output_check: the answer is on its way, a block is logged.
BackgroundCheck ==
    /\ background = "pending"
    /\ \E c \in Channels, reply \in {OutputReply(job.onnx, completion), Unrecognized} :
          background' = OutputDecision(c, reply)
    /\ UNCHANGED <<genVars, stage, job, prompt, input, completion, output, defaulted,
                   judged, verdict, answer>>

Finished ==
    /\ stage = "end" /\ background # "pending"
    /\ UNCHANGED vars

Next ==
    \/ Screen
    \/ Generate
    \/ CallFails
    \/ Receive
    \/ Show
    \/ ReportRaises
    \/ Report
    \/ Verify
    \/ BackgroundCheck
    \/ Finished

Spec == Init /\ [][Next]_vars
-------------------------------------------------------------------------------
(* Properties *)

\* A prompt reaches the engine only with the approval its policy asks for: the
\* service has classified it, does not find it unsafe, and an injection is
\* flagged so that the messages are augmented.  A timeout, an error and a refusal
\* fail closed.  One answer does not: a reply of status 200 whose result is
\* missing or not known lets any prompt pass, and is recorded as "pass".
PromptScreened ==
    (phase # "new" /\ Screens(job)) =>
        IF "input" \in defaulted
        THEN input = "pass"
        ELSE /\ prompt.length
             /\ RunsSafety(job) => ~Unsafe(job.onnx, prompt)
             /\ RunsInjection(job) /\ Injected(job.onnx, prompt) => input = "flag"

\* Under a synchronous check an unsafe completion is judged, reported and
\* delivered only if the check itself failed, which is recorded as "degraded",
\* or if its reply had no known result, which is recorded as "pass".
CompletionScreened ==
    (job.output = "sync" /\ stage \in {"report", "verify"} \cup
        (IF answer = "delivered" THEN {"end"} ELSE {}))
    => /\ output \in {"pass", "degraded"}
       /\ output = "pass" /\ "output" \notin defaulted => ~Unsafe(job.onnx, completion)

\* gateway/main.py:590 and 963 with guardrail_client.py:54-59 and 76-81: both
\* sides of the model are screened as the policy says, on every path through
\* timeouts, failures and replies of the guardrail, but for replies of status 200
\* that say nothing the client knows.
Screened == PromptScreened /\ CompletionScreened

\* Only the verifier's own judgement makes an answer correct, and nothing but
\* it or a reply of status 200 without the fields of one makes it incorrect and
\* with that triggers an escalation; a failing verifier leaves it unverifiable.
\* verifier_client.py:118-142 and 147-157.
VerdictSound ==
    /\ verdict = "correct" => judged = "correct"
    /\ verdict = "incorrect" => judged = "incorrect" \/ "verifier" \in defaulted
===============================================================================
