-------------------------------- MODULE Gateway --------------------------------
(***************************************************************************)
(* gateway/main.py: the life of POST /v1/infer, from the resolved policy   *)
(* to the answer.  Requests are coroutines of one event loop: the code     *)
(* between two awaits is one action, and the value of pc names the await a *)
(* request is suspended at.  The admission controller is the module        *)
(* AdmissionControl, whose steps these actions take; the audit queue is    *)
(* reduced to the records each request enqueues (its losses are in         *)
(* AuditLog), the cache to the contents it may return.                     *)
(***************************************************************************)
EXTENDS Integers, Sequences, FiniteSets, BudgetClasses

CONSTANTS
    Requests,
    MaxConcurrent,
    Jobs,                   \* what a request and its policy ask for, see JobType
    GuardrailConfigured,    \* GUARDRAIL_BASE_URL is set
    VerifierConfigured      \* VERIFIER_BASE_URL is set

VARIABLES
    value, waiters, st, active, result,     \* of AdmissionControl
    pc,         \* the await each request is suspended at
    job,        \* the job of each request that has arrived
    cls,        \* current_budget.effective_class
    adm,        \* the reason of _active_admission[0]
    grIn,       \* guardrail_input_result
    reply,      \* the reply of the model: a completion or an empty choice list
    calls,      \* completed calls of the model
    esc,        \* escalation_count
    verdict,    \* verification_result of the last attempt
    answer,     \* what the client received
    audit,      \* the records enqueued for the request
    storeTask,  \* the background cache store of the request
    cache,      \* <<key, content>> pairs in the semantic cache
    judged,     \* requests submitted to the evaluation worker
    wrong       \* history: contents the verifier found incorrect

admVars == <<value, waiters, st, active, result>>
reqVars == <<pc, job, cls, adm, grIn, reply, calls, esc, verdict>>
outVars == <<answer, audit, storeTask, cache, judged, wrong>>
vars == <<admVars, reqVars, outVars>>

Adm == INSTANCE AdmissionControl WITH Callers <- Requests

\* policy: a policy resolves; class: the effective class of step 6; input:
\* the policy asks for an injection or safety check; output: output_safety;
\* schema: the request carries a response schema; cache: the lookup is
\* enabled and the redacted prompt has no residual PII; key: tenant, domain
\* and prompt.
JobType ==
    [policy : BOOLEAN, class : Classes, escalation : BOOLEAN, retries : Nat,
     input : BOOLEAN, output : {"none", "sync", "async"}, schema : BOOLEAN,
     verification : [Classes -> {"none", "verifiable_only", "required"}],
     cache : BOOLEAN, key : Nat]

\* The job of a request that has not arrived.
NoJob ==
    [policy |-> FALSE, class |-> "low", escalation |-> FALSE, retries |-> 0,
     input |-> FALSE, output |-> "none", schema |-> FALSE,
     verification |-> [c \in Classes |-> "none"], cache |-> FALSE, key |-> 0]

ASSUME RequestsAssumption == IsFiniteSet(Requests)
ASSUME MaxConcurrentAssumption == MaxConcurrent \in Nat
ASSUME JobsAssumption == \A j \in Jobs : j \in JobType
ASSUME ConfiguredAssumption ==
    GuardrailConfigured \in BOOLEAN /\ VerifierConfigured \in BOOLEAN

Contents == Requests \X Nat     \* the n-th completion made for a request
NoContent == <<>>

Verdicts == {"none", "correct", "incorrect", "unverifiable", "skipped"}
Awaits == {"lookup", "admit", "guard_in", "infer", "guard_out", "verify", "readmit"}
-------------------------------------------------------------------------------
(* Records and answers *)

Decision(hit) ==
    [type |-> "decision", cacheHit |-> hit]

\* billed: how many completions actual_cost_usd accounts for.
Outcome(stop, v, e, in, billed) ==
    [type |-> "outcome", stop |-> stop, verification |-> v, escalations |-> e,
     guardrailInput |-> in, billed |-> billed]

Refusal(kind) ==
    [kind |-> kind, content |-> NoContent, confidence |-> "none",
     verification |-> "none", escalations |-> 0]

Response(kind, content, v, e) ==
    [kind |-> kind, content |-> content,
     confidence |-> IF v = "incorrect" THEN "low" ELSE "high",
     verification |-> v, escalations |-> e]

Enqueue(r, records) == audit' = [audit EXCEPT ![r] = @ \o records]
At(r, where) == pc' = [pc EXCEPT ![r] = where]
Reply(r, a) == At(r, "done") /\ answer' = [answer EXCEPT ![r] = a]
-------------------------------------------------------------------------------
Init ==
    /\ Adm!Init
    /\ pc = [r \in Requests |-> "new"]
    /\ job = [r \in Requests |-> NoJob]
    /\ cls = [r \in Requests |-> "low"]
    /\ adm = [r \in Requests |-> "none"]
    /\ grIn = [r \in Requests |-> "skipped"]
    /\ reply = [r \in Requests |-> "none"]
    /\ calls = [r \in Requests |-> 0]
    /\ esc = [r \in Requests |-> 0]
    /\ verdict = [r \in Requests |-> "none"]
    /\ answer = [r \in Requests |-> Refusal("none")]
    /\ audit = [r \in Requests |-> <<>>]
    /\ storeTask = [r \in Requests |-> "none"]
    /\ cache = {}
    /\ judged = {}
    /\ wrong = {}
-------------------------------------------------------------------------------
(* Steps 3 to 9: policy, cache, admission *)

ChecksInput(j) == GuardrailConfigured /\ j.input
AfterAdmission(j) == IF ChecksInput(j) THEN "guard_in" ELSE "infer"

\* The decision record is enqueued, then acquire is called: "low" passes
\* without suspending, every other class suspends.
EnterAdmission(r, j) ==
    /\ Enqueue(r, <<Decision(FALSE)>>)
    /\ IF j.class = "low"
       THEN /\ Adm!AcquireBypass(r)
            /\ adm' = [adm EXCEPT ![r] = "bypass_cheap_model"]
            /\ At(r, AfterAdmission(j))
       ELSE /\ Adm!AcquireCall(r)
            /\ At(r, "admit")
            /\ UNCHANGED adm
    /\ UNCHANGED answer

\* Policy and budget class; without a policy the request is refused and
\* nothing is recorded.
Arrive(r, j) ==
    /\ pc[r] = "new"
    /\ job' = [job EXCEPT ![r] = j]
    /\ cls' = [cls EXCEPT ![r] = IF j.policy THEN j.class ELSE @]
    /\ \/ /\ ~j.policy
          /\ Reply(r, Refusal("policy_resolution_failed"))
          /\ UNCHANGED <<admVars, adm, audit>>
       \/ /\ j.policy /\ j.cache
          /\ At(r, "lookup")
          /\ UNCHANGED <<admVars, adm, answer, audit>>
       \/ /\ j.policy /\ ~j.cache
          /\ EnterAdmission(r, j)
    /\ UNCHANGED <<grIn, reply, calls, esc, verdict, storeTask, cache, judged, wrong>>

LookupHit(r) ==
    /\ pc[r] = "lookup"
    /\ \E e \in cache :
          /\ e[1] = job[r].key
          /\ Reply(r, Response("cache_hit", e[2], "skipped", 0))
    /\ Enqueue(r, <<Decision(TRUE), Outcome("cache_hit", "skipped", 0, "skipped", 0)>>)
    /\ UNCHANGED <<admVars, job, cls, adm, grIn, reply, calls, esc, verdict,
                   storeTask, cache, judged, wrong>>

\* The cache may miss whatever it holds: entries expire and embeddings fail.
LookupMiss(r) ==
    /\ pc[r] = "lookup"
    /\ EnterAdmission(r, job[r])
    /\ UNCHANGED <<job, cls, grIn, reply, calls, esc, verdict,
                   storeTask, cache, judged, wrong>>

Admitted(r) ==
    /\ pc[r] = "admit"
    /\ Adm!Admit(r)
    /\ adm' = [adm EXCEPT ![r] = "admitted"]
    /\ At(r, AfterAdmission(job[r]))
    /\ UNCHANGED <<job, cls, grIn, reply, calls, esc, verdict, outVars>>

\* (mutant) a rejected request leaves no outcome.
RejectedUnrecorded(r) ==
    /\ pc[r] = "admit"
    /\ Adm!TimeOut(r)
    /\ Reply(r, Refusal("admission_rejected"))
    /\ UNCHANGED <<job, cls, adm, grIn, reply, calls, esc, verdict, audit,
                   storeTask, cache, judged, wrong>>

Rejected(r) ==
    /\ pc[r] = "admit"
    /\ Adm!TimeOut(r)
    /\ Enqueue(r, <<Outcome("admission_rejected", "skipped", 0, "skipped", 0)>>)
    /\ Reply(r, Refusal("admission_rejected"))
    /\ UNCHANGED <<job, cls, adm, grIn, reply, calls, esc, verdict,
                   storeTask, cache, judged, wrong>>

\* (mutant) the finally block does not look at the result of the admission.
ReleaseHeldAlways(r) == Adm!ReleaseSlot(r, "out")

\* The finally block around the escalation loop.
ReleaseHeld(r) ==
    IF adm[r] = "admitted" THEN Adm!ReleaseSlot(r, "out") ELSE UNCHANGED admVars

-------------------------------------------------------------------------------
(* Step 10: the input guardrail, once per request.  A timeout counts as a  *)
(* block, any other failure as degraded, and both end the request.         *)

\* (mutant) a degraded check fails open, as the output check does.
InputClearedOpen(r) ==
    /\ pc[r] = "guard_in"
    /\ \E d \in {"pass", "flag", "degraded"} : grIn' = [grIn EXCEPT ![r] = d]
    /\ At(r, "infer")
    /\ UNCHANGED <<admVars, job, cls, adm, reply, calls, esc, verdict, outVars>>

InputCleared(r) ==
    /\ pc[r] = "guard_in"
    /\ \E d \in {"pass", "flag"} : grIn' = [grIn EXCEPT ![r] = d]
    /\ At(r, "infer")
    /\ UNCHANGED <<admVars, job, cls, adm, reply, calls, esc, verdict, outVars>>

InputBlocked(r) ==
    /\ pc[r] = "guard_in"
    /\ ReleaseHeld(r)
    /\ adm' = [adm EXCEPT ![r] = IF @ = "admitted" THEN "released" ELSE @]
    /\ \E d \in {"block", "degraded"} :
          /\ grIn' = [grIn EXCEPT ![r] = d]
          /\ Enqueue(r, <<Outcome("guardrail_block", "skipped", 0, d, 0)>>)
    /\ Reply(r, Refusal("guardrail_block"))
    /\ UNCHANGED <<job, cls, reply, calls, esc, verdict,
                   storeTask, cache, judged, wrong>>
-------------------------------------------------------------------------------
(* Steps 11 to 15: attempts, verification, escalation, answer *)

\* (mutant) one retry more than the policy allows.
ShouldEscalateOnceMore(r, v) ==
    /\ job[r].escalation
    /\ v = "incorrect"
    /\ esc[r] <= job[r].retries
    /\ cls[r] # "critical"

\* EscalationHandler.should_escalate
ShouldEscalate(r, v) ==
    /\ job[r].escalation
    /\ v = "incorrect"
    /\ esc[r] < job[r].retries
    /\ cls[r] # "critical"

\* How an attempt of class c is verified: by the verifier, or by a verdict
\* known at once.
VerificationStep(j, c) ==
    CASE j.schema /\ j.verification[c] # "none" ->
            IF VerifierConfigured THEN "call" ELSE "skipped"
      [] ~j.schema /\ j.verification[c] = "required" -> "unverifiable"
      [] OTHER -> "skipped"

\* (mutant) the outcome record keeps its default escalation count.
DeliverUncounted(r, v, n) ==
    /\ verdict' = [verdict EXCEPT ![r] = v]
    /\ Reply(r, Response("delivered", <<r, n>>, v, esc[r]))
    /\ Enqueue(r, <<Outcome("stop", v, 0, grIn[r], 1)>>)
    /\ storeTask' = [storeTask EXCEPT ![r] =
          IF job[r].cache /\ v \in {"correct", "skipped", "unverifiable"}
          THEN "pending" ELSE @]
    /\ judged' = IF v \in {"skipped", "unverifiable"} THEN judged \cup {r} ELSE judged
    /\ UNCHANGED <<cache, esc, cls>>

\* (mutant) the cache store does not look at the verdict.
DeliverCachingAll(r, v, n) ==
    /\ verdict' = [verdict EXCEPT ![r] = v]
    /\ Reply(r, Response("delivered", <<r, n>>, v, esc[r]))
    /\ Enqueue(r, <<Outcome("stop", v, esc[r], grIn[r], 1)>>)
    /\ storeTask' = [storeTask EXCEPT ![r] = IF job[r].cache THEN "pending" ELSE @]
    /\ judged' = IF v \in {"skipped", "unverifiable"} THEN judged \cup {r} ELSE judged
    /\ UNCHANGED <<cache, esc, cls>>

\* The response of attempt n with verdict v: cache store in the background,
\* outcome record, evaluation by the judge when nothing verified it.
Deliver(r, v, n) ==
    /\ verdict' = [verdict EXCEPT ![r] = v]
    /\ Reply(r, Response("delivered", <<r, n>>, v, esc[r]))
    /\ Enqueue(r, <<Outcome("stop", v, esc[r], grIn[r], 1)>>)
    /\ storeTask' = [storeTask EXCEPT ![r] =
          IF job[r].cache /\ v \in {"correct", "skipped", "unverifiable"}
          THEN "pending" ELSE @]
    /\ judged' = IF v \in {"skipped", "unverifiable"} THEN judged \cup {r} ELSE judged
    /\ UNCHANGED <<cache, esc, cls>>

\* (mutant) the sentinel is not set.
EscalateUnmarked(r, v) ==
    /\ esc' = [esc EXCEPT ![r] = @ + 1]
    /\ verdict' = [verdict EXCEPT ![r] = v]
    /\ IF adm[r] = "admitted" THEN Adm!ReleaseSlot(r, "start") ELSE Adm!AcquireCall(r)
    /\ At(r, "readmit")
    /\ UNCHANGED <<adm, cls, answer, audit, storeTask, cache, judged>>

\* The slot is released before acquire is called for the next class, and the
\* sentinel keeps the finally block from releasing it again.
Escalate(r, v) ==
    /\ esc' = [esc EXCEPT ![r] = @ + 1]
    /\ verdict' = [verdict EXCEPT ![r] = v]
    /\ IF adm[r] = "admitted"
       THEN Adm!ReleaseSlot(r, "start") /\ adm' = [adm EXCEPT ![r] = "released"]
       ELSE Adm!AcquireCall(r) /\ UNCHANGED adm
    /\ At(r, "readmit")
    /\ UNCHANGED <<cls, answer, audit, storeTask, cache, judged>>

\* An attempt ends with verdict v: escalate or deliver.
Settle(r, v, n) ==
    \/ ShouldEscalate(r, v) /\ Escalate(r, v)
    \/ /\ ~ShouldEscalate(r, v)
       /\ Deliver(r, v, n)
       /\ ReleaseHeld(r)
       /\ UNCHANGED adm

\* build_result and verification.  An empty list of choices has passed the
\* client as an empty completion but makes build_result raise: the client gets
\* a 500 and no outcome is recorded.
ConcludeAttempt(r, rep, n) ==
    LET step == VerificationStep(job[r], cls[r])
    IN  \/ /\ rep = "empty"
           /\ ReleaseHeld(r)
           /\ Reply(r, Refusal("internal_error"))
           /\ UNCHANGED <<cls, adm, esc, verdict, audit, storeTask, cache, judged>>
        \/ /\ rep = "ok" /\ step = "call"
           /\ At(r, "verify")
           /\ UNCHANGED <<admVars, cls, adm, esc, verdict, answer, audit,
                          storeTask, cache, judged>>
        \/ /\ rep = "ok" /\ step # "call"
           /\ Settle(r, step, n)

ChecksOutput(j) == GuardrailConfigured /\ j.output = "sync"

\* The model answers.  An asynchronous output check only logs.
Completed(r) ==
    /\ pc[r] = "infer"
    /\ calls' = [calls EXCEPT ![r] = @ + 1]
    /\ \E rep \in {"ok", "empty"} :
          /\ reply' = [reply EXCEPT ![r] = rep]
          /\ IF ChecksOutput(job[r])
             THEN /\ At(r, "guard_out")
                  /\ UNCHANGED <<admVars, cls, adm, esc, verdict, answer, audit,
                                 storeTask, cache, judged>>
             ELSE ConcludeAttempt(r, rep, calls[r] + 1)
    /\ UNCHANGED <<job, grIn, wrong>>

\* (mutant) a failed call starts over from the input guardrail.
CallFailedStartsOver(r) ==
    /\ pc[r] = "infer"
    /\ At(r, "guard_in")
    /\ UNCHANGED <<admVars, job, cls, adm, grIn, reply, calls, esc, verdict, outVars>>

\* Timeout or error of the model: the outcome is recorded with its defaults.
CallFailed(r) ==
    /\ pc[r] = "infer"
    /\ ReleaseHeld(r)
    /\ Enqueue(r, <<Outcome("inference_error", "skipped", 0, "pass", 0)>>)
    /\ Reply(r, Refusal("inference_unavailable"))
    /\ UNCHANGED <<job, cls, adm, grIn, reply, calls, esc, verdict,
                   storeTask, cache, judged, wrong>>

\* The output check passes, or fails open when it is degraded.
OutputPassed(r) ==
    /\ pc[r] = "guard_out"
    /\ ConcludeAttempt(r, reply[r], calls[r])
    /\ UNCHANGED <<job, grIn, reply, calls, wrong>>

OutputBlocked(r) ==
    /\ pc[r] = "guard_out"
    /\ ReleaseHeld(r)
    /\ Enqueue(r, <<Outcome("output_block", "skipped", 0, "pass", 0)>>)
    /\ Reply(r, Refusal("output_safety_block"))
    /\ UNCHANGED <<job, cls, adm, grIn, reply, calls, esc, verdict,
                   storeTask, cache, judged, wrong>>

\* The verifier answers; its timeouts and errors arrive as "unverifiable".
Verified(r) ==
    /\ pc[r] = "verify"
    /\ \E v \in {"correct", "incorrect", "unverifiable"} :
          /\ Settle(r, v, calls[r])
          /\ wrong' = IF v = "incorrect" THEN wrong \cup {<<r, calls[r]>>} ELSE wrong
    /\ UNCHANGED <<job, grIn, reply, calls>>

Readmitted(r) ==
    /\ pc[r] = "readmit"
    /\ Adm!Admit(r)
    /\ adm' = [adm EXCEPT ![r] = "admitted"]
    /\ cls' = [cls EXCEPT ![r] = NextClass(@)]
    /\ At(r, "infer")
    /\ UNCHANGED <<job, grIn, reply, calls, esc, verdict, outVars>>

\* The loop breaks with the budget and the outcome of the previous attempt.
EscalationRejected(r) ==
    /\ pc[r] = "readmit"
    /\ Adm!TimeOut(r)
    /\ adm' = [adm EXCEPT ![r] = "semaphore_timeout"]
    /\ Deliver(r, verdict[r], calls[r])
    /\ UNCHANGED <<job, grIn, reply, calls, wrong>>

\* _background_cache_store, which may fail silently.
StoreDone(r) ==
    /\ storeTask[r] = "pending"
    /\ storeTask' = [storeTask EXCEPT ![r] = "done"]
    /\ cache' \in {cache, cache \cup {<<job[r].key, answer[r].content>>}}
    /\ UNCHANGED <<admVars, reqVars, answer, audit, judged, wrong>>

\* Steps of the semaphore that no coroutine of the gateway observes.
SemaphoreStep(r) ==
    /\ Adm!StartAcquire(r) \/ Adm!ResumeWaiter(r)
    /\ UNCHANGED <<reqVars, outVars>>
-------------------------------------------------------------------------------
Resume(r) ==
    \/ LookupHit(r) \/ LookupMiss(r)
    \/ Admitted(r) \/ Rejected(r)
    \/ InputCleared(r) \/ InputBlocked(r)
    \/ Completed(r) \/ CallFailed(r)
    \/ OutputPassed(r) \/ OutputBlocked(r)
    \/ Verified(r)
    \/ Readmitted(r) \/ EscalationRejected(r)
    \/ SemaphoreStep(r)

\* Nothing is left to do: every request answered, every store finished.
Finished ==
    /\ \A r \in Requests : pc[r] = "done" /\ storeTask[r] # "pending"
    /\ UNCHANGED vars

Next ==
    \/ \E r \in Requests :
          \/ \E j \in Jobs : Arrive(r, j)
          \/ Resume(r)
          \/ StoreDone(r)
    \/ Finished

Spec == Init /\ [][Next]_vars

\* Every await is bounded by a timeout of its client, so every suspended
\* request resumes; nothing obliges a client to send a request.
Fairness == \A r \in Requests : WF_vars(Resume(r)) /\ WF_vars(StoreDone(r))

FairSpec == Spec /\ Fairness
-------------------------------------------------------------------------------
(* Properties *)

Record ==
    [type : {"decision"}, cacheHit : BOOLEAN]
    \cup [type : {"outcome"}, verification : Verdicts, escalations : Nat,
          stop : {"cache_hit", "admission_rejected", "guardrail_block", "stop",
                  "inference_error", "output_block"},
          guardrailInput : {"skipped", "pass", "flag", "block", "degraded"},
          billed : {0, 1}]

TypeOK ==
    /\ Adm!TypeOK
    /\ pc \in [Requests -> Awaits \cup {"new", "done"}]
    /\ job \in [Requests -> Jobs \cup {NoJob}]
    /\ cls \in [Requests -> Classes]
    /\ adm \in [Requests -> Adm!Reasons \cup {"released"}]
    /\ grIn \in [Requests -> {"skipped", "pass", "flag", "block", "degraded"}]
    /\ reply \in [Requests -> {"none", "ok", "empty"}]
    /\ calls \in [Requests -> Nat]
    /\ esc \in [Requests -> Nat]
    /\ verdict \in [Requests -> Verdicts]
    /\ audit \in [Requests -> Seq(Record)]
    /\ storeTask \in [Requests -> {"none", "pending", "done"}]
    /\ cache \subseteq Nat \X Contents
    /\ judged \subseteq Requests
    /\ wrong \subseteq Contents

Delivered(r) == pc[r] = "done" /\ answer[r].kind = "delivered"

\* The gate and the requests agree on who holds a slot, through escalations,
\* blocks, timeouts and errors: no slot is lost by a request that has been
\* answered, none is released twice (the finally block of infer), and at most
\* MaxConcurrent attempts of a reasoning class are between admission and answer,
\* an escalated attempt counted like a first one.
SlotAccounting ==
    /\ Adm!SlotConservation
    /\ \A r \in Requests : st[r] = "in" <=> adm[r] = "admitted" /\ pc[r] # "done"
    /\ Cardinality({r \in Requests :
                       /\ pc[r] \in {"guard_in", "infer", "guard_out", "verify"}
                       /\ cls[r] # "low"}) <= MaxConcurrent

\* No prompt reaches the model that the input guardrail has not cleared when
\* the policy asks for it, on any attempt, although the guardrail runs once.
ClearedBeforeInference ==
    \A r \in Requests :
        /\ pc[r] = "infer" \/ calls[r] > 0
        /\ ChecksInput(job[r])
        => grIn[r] \in {"pass", "flag"}

\* A decision comes first, an outcome at most once and only with the answer,
\* and every answer but the one for a missing policy and the unhandled error
\* has both.
AuditPaired ==
    \A r \in Requests :
        LET kinds == [i \in DOMAIN audit[r] |-> audit[r][i].type]
        IN  /\ kinds \in {<<>>, <<"decision">>, <<"decision", "outcome">>}
            /\ pc[r] # "done" => kinds # <<"decision", "outcome">>
            /\ pc[r] = "done" /\ kinds # <<"decision", "outcome">>
                  => answer[r].kind \in {"policy_resolution_failed", "internal_error"}

\* The outcome record of a delivered response says what the response says, and
\* what the attempts did: the audit log can be read without the response.
OutcomeMatchesResponse ==
    \A r \in Requests :
        Delivered(r) =>
            LET o == audit[r][2]
            IN  /\ o.verification = answer[r].verification
                /\ o.escalations = answer[r].escalations
                /\ o.guardrailInput = grIn[r]
                /\ answer[r].content = <<r, calls[r]>>
                /\ answer[r].confidence = "low" <=> answer[r].content \in wrong

\* A content the verifier found incorrect is never in the cache, so that no
\* later request is served it with high confidence.
IncorrectNeverServed ==
    /\ \A e \in cache : e[2] \notin wrong
    /\ \A r \in Requests :
          answer[r].content \in wrong => answer[r].confidence = "low"

\* Escalation climbs one class per retry and stops at the limits: attempt n
\* runs n classes above the assigned one, a request makes at most retries + 1
\* attempts, and every attempt but the last was found incorrect.
ClimbBounded ==
    \A r \in Requests :
        pc[r] # "new" =>
            /\ esc[r] <= job[r].retries
            /\ pc[r] = "infer" =>
                  /\ calls[r] = esc[r]
                  /\ Rank[cls[r]] = Rank[job[r].class] + esc[r]
            /\ calls[r] <= esc[r] + 1
            /\ \A n \in 1..esc[r] : <<r, n>> \in wrong

\* Every request that arrives is answered, whatever the model, the guardrail,
\* the verifier and the other requests do.
Answered == \A r \in Requests : pc[r] # "new" ~> pc[r] = "done"

\* The gateway uses the admission controller as the controller expects: each
\* step of the gateway is a step of AdmissionControl or leaves it alone.
AdmissionSpec == Adm!Spec
-------------------------------------------------------------------------------
(* A claim of the documentation that the code does not keep *)

\* README.md: "All retry costs - inference, guardrail, and verifier time - are
\* attributed to the original request."
RetryCostsAttributed ==
    \A r \in Requests : Delivered(r) => audit[r][2].billed = calls[r]
===============================================================================
