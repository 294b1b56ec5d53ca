------------------------------ MODULE Generation ------------------------------
(***************************************************************************)
(* One call of the model under a budget of reasoning tokens:               *)
(* vllm_adapter/inference_adapter.py (build_call_spec, build_result) and   *)
(* vllm_adapter/logit_processor.py (BudgetLogitProcessor).  The engine is  *)
(* outside the repository: for every token it computes logits, shows them  *)
(* to the processor it was given, samples, and stops at an end-of-sequence *)
(* token or after max_tokens tokens.  A processor only acts in an engine   *)
(* that runs it; the HTTP API does not (inference_adapter.py:148-153).     *)
(***************************************************************************)
EXTENDS Integers

CONSTANTS
    Budgets,    \* values of max_reasoning_tokens
    Outputs     \* values of max_output_tokens

ASSUME BudgetsAssumption == Budgets \subseteq Nat
ASSUME OutputsAssumption == Outputs \subseteq Nat \ {0}

VARIABLES
    phase,      \* where the call is
    call,       \* the request and the configuration it meets
    maxTokens,  \* VLLMCallSpec.max_tokens
    processor,  \* VLLMCallSpec.logit_processor, NoProcessor for None
    logits,     \* what the processor made of the logits of this token
    thought,    \* tokens generated before the delimiter
    delimiter,  \* who emitted the first delimiter
    last,       \* the last token generated
    total,      \* tokens generated
    report      \* the InferenceResult

genVars == <<phase, call, maxTokens, processor, logits, thought, delimiter,
             last, total, report>>

\* validated: the delimiter's id was discovered; fallback: HardBudgetFallback
\* is active; inVocabulary: the id is one of the served model's; runs: the
\* engine runs the processor.
CallType ==
    [reasoning : Budgets, output : Outputs, validated : BOOLEAN,
     fallback : BOOLEAN, inVocabulary : BOOLEAN, runs : BOOLEAN]

Processor(n) == [complete |-> FALSE, count |-> n, stop |-> "", exception |-> FALSE]
NoProcessor == Processor(-1)
FreshProcessor == Processor(0)
HasProcessor == processor.count # -1

FinishReasons == {"", "stop", "length"}
StopReasons ==
    FinishReasons \cup
    {"natural_boundary", "budget_exhausted", "hard_truncation", "exception"}
Tokens == {"none", "text", "delimiter", "eos"}

ProcessorType ==
    [complete : BOOLEAN, count : Nat \cup {-1}, stop : StopReasons,
     exception : BOOLEAN]
ReportType ==
    [used : Nat, output : Nat, stop : StopReasons, exception : BOOLEAN]
NoReport == [used |-> 0, output |-> 0, stop |-> "", exception |-> FALSE]

GenTypeOK ==
    /\ phase \in {"new", "call", "sample", "reply", "done"}
    /\ call \in CallType
    /\ maxTokens \in Nat
    /\ processor \in ProcessorType
    /\ logits \in {"free", "forced", "blank"}
    /\ thought \in Nat /\ total \in Nat
    /\ delimiter \in {"none", "model", "processor"}
    /\ last \in Tokens
    /\ report \in ReportType

GenInit ==
    /\ phase = "new"
    /\ call \in CallType
    /\ maxTokens = 0
    /\ processor = NoProcessor
    /\ logits = "free"
    /\ thought = 0 /\ total = 0
    /\ delimiter = "none"
    /\ last = "none"
    /\ report = NoReport
-------------------------------------------------------------------------------
(* The call *)

\* build_call_spec uses the processor: there is a budget to enforce, the
\* delimiter is known and the hard fallback is off.
WithProcessor(c) == c.reasoning > 0 /\ c.validated /\ ~c.fallback

\* build_call_spec: without a processor the limit leaves room for both.
BuildCallSpec ==
    /\ phase = "new"
    /\ phase' = "call"
    /\ IF WithProcessor(call)
       THEN processor' = FreshProcessor /\ maxTokens' = call.output
       ELSE processor' = NoProcessor /\ maxTokens' = call.reasoning + call.output
    /\ UNCHANGED <<call, logits, thought, delimiter, last, total, report>>
-------------------------------------------------------------------------------
(* BudgetLogitProcessor._step *)

Counted == processor.count + 1
AtDelimiter == last = "delimiter"

\* (mutant) the ceiling is looked at before the delimiter.
CeilingReachedFirst == Counted >= call.reasoning

\* (mutant) one token more than the budget.
CeilingReachedLate == ~AtDelimiter /\ Counted > call.reasoning

\* Step 5, reached when step 4 has not returned.
CeilingReached == ~AtDelimiter /\ Counted >= call.reasoning

StepComplete ==
    /\ processor.complete
    /\ logits' = "free"
    /\ UNCHANGED processor

StepCounts ==
    /\ ~processor.complete
    /\ ~AtDelimiter /\ ~CeilingReached
    /\ processor' = [processor EXCEPT !.count = Counted]
    /\ logits' = "free"

StepNotices ==
    /\ ~processor.complete
    /\ AtDelimiter /\ ~CeilingReached
    /\ processor' = [processor EXCEPT !.count = Counted, !.complete = TRUE,
                                      !.stop = "natural_boundary"]
    /\ logits' = "free"

StepForces ==
    /\ ~processor.complete
    /\ CeilingReached /\ call.inVocabulary
    /\ processor' = [processor EXCEPT !.count = Counted, !.complete = TRUE,
                                      !.stop = "budget_exhausted"]
    /\ logits' = "forced"

\* _force_end_of_thinking has overwritten all logits when its index fails;
\* __call__ records the exception and returns them.
StepFails ==
    /\ ~processor.complete
    /\ CeilingReached /\ ~call.inVocabulary
    /\ processor' = [processor EXCEPT !.count = Counted, !.stop = "exception",
                                      !.exception = TRUE]
    /\ logits' = "blank"

\* The engine calls the processor of the request before it samples.
CallProcessor ==
    /\ phase = "call"
    /\ phase' = "sample"
    /\ IF HasProcessor /\ call.runs
       THEN StepComplete \/ StepCounts \/ StepNotices \/ StepForces \/ StepFails
       ELSE logits' = "free" /\ UNCHANGED processor
    /\ UNCHANGED <<call, maxTokens, thought, delimiter, last, total, report>>
-------------------------------------------------------------------------------
(* The engine *)

\* Forced logits leave the delimiter only.
Permitted(t) ==
    /\ logits = "forced" => t = "delimiter"
    /\ t = "delimiter" => call.inVocabulary

Sample(t) ==
    /\ phase = "sample"
    /\ Permitted(t)
    /\ total' = total + 1
    /\ last' = t
    /\ delimiter' = IF t # "delimiter" \/ delimiter # "none" THEN delimiter
                    ELSE IF logits = "forced" THEN "processor" ELSE "model"
    /\ thought' = IF t = "text" /\ delimiter = "none" THEN thought + 1 ELSE thought
    /\ phase' = IF t = "eos" \/ total' >= maxTokens THEN "reply" ELSE "call"
    /\ UNCHANGED <<call, maxTokens, processor, logits, report>>
-------------------------------------------------------------------------------
(* build_result *)

FinishReason == IF last = "eos" THEN "stop" ELSE "length"

\* completion_tokens of the response, 0 when it has no usage.
OutputTokens(completion) ==
    LET used == IF HasProcessor THEN processor.count ELSE 0
    IN  IF completion > used THEN completion - used ELSE 0

\* (mutant) the reason of the engine goes before the processor's.
StopReasonOfEngine ==
    IF HasProcessor THEN FinishReason
    ELSE IF call.reasoning > 0 THEN "hard_truncation" ELSE FinishReason

StopReason ==
    IF HasProcessor
    THEN IF processor.stop = "" THEN FinishReason ELSE processor.stop
    ELSE IF call.reasoning > 0 THEN "hard_truncation" ELSE FinishReason

BuildResult ==
    /\ phase = "reply"
    /\ phase' = "done"
    /\ \E completion \in {0, total} :
          report' = [used |-> IF HasProcessor THEN processor.count ELSE 0,
                     output |-> OutputTokens(completion),
                     stop |-> StopReason,
                     exception |-> HasProcessor /\ processor.exception]
    /\ UNCHANGED <<call, maxTokens, processor, logits, thought, delimiter, last, total>>

GenNext ==
    \/ BuildCallSpec
    \/ CallProcessor
    \/ \E t \in Tokens \ {"none"} : Sample(t)
    \/ BuildResult

GenSpec == GenInit /\ [][GenNext]_genVars
-------------------------------------------------------------------------------
(* Properties *)

\* The processor is in charge of this generation.
Enforced == HasProcessor /\ call.runs /\ call.inVocabulary

\* An enforced budget is kept for every request: fewer tokens of thought than
\* the budget, whose last one is the delimiter, and no more are metered.
\* BudgetLogitProcessor._step, steps 2 and 5.
ThoughtBounded ==
    Enforced => thought < call.reasoning /\ processor.count <= call.reasoning

\* The processor never touches a token of the answer: it changes logits only
\* while no delimiter has been generated, because it looks for the model's own
\* delimiter before it looks at the ceiling and is silent once complete.
AnswerUntouched ==
    (Enforced /\ phase = "sample" /\ logits # "free") => delimiter = "none"

\* What the report says of the end of the reasoning is what happened: a forced
\* delimiter sits exactly at the ceiling, a natural one was the model's, a hard
\* truncation had no processor.  Nothing is metered twice, as reasoning and as
\* output.  What is metered as reasoning depends on the engine: with an enforced
\* budget it is the thought, its delimiter and at most the step that noticed it;
\* with a delimiter outside the vocabulary it is every token; and without a
\* processor, or with one that the engine does not run, as over the HTTP API, it
\* is nothing, whatever was thought.  build_result reads the count from a
\* processor that runs one token ahead of the text.
ReportTruthful ==
    phase = "done" =>
        /\ report.stop = "budget_exhausted" =>
              delimiter = "processor" /\ report.used = call.reasoning
        /\ delimiter = "processor" => report.stop = "budget_exhausted"
        /\ report.stop = "natural_boundary" => delimiter = "model"
        /\ report.stop = "hard_truncation" <=> call.reasoning > 0 /\ ~HasProcessor
        /\ report.exception => ~call.inVocabulary
        /\ Enforced => report.used \in thought..(thought + 2)
        /\ HasProcessor /\ call.runs /\ ~call.inVocabulary => report.used = total
        /\ ~HasProcessor \/ ~call.runs => report.used = 0
        /\ report.used <= total
        /\ report.output = 0 \/ report.used + report.output = total
===============================================================================
