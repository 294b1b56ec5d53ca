------------------------------- MODULE MCGateway -------------------------------
(***************************************************************************)
(* Model-checking instances of Gateway.  The jobs are the policies that    *)
(* differ in what the life of a request does with them.                    *)
(***************************************************************************)
EXTENDS Gateway

CONSTANTS r1, r2

MCRequests == {r1, r2}

Always(level) == [c \in Classes |-> level]

\* A cached low-class request with a schema, all checks on, two retries.
Verifiable ==
    [policy |-> TRUE, class |-> "low", escalation |-> TRUE, retries |-> 2,
     input |-> TRUE, output |-> "sync", schema |-> TRUE,
     verification |-> Always("required"), cache |-> TRUE, key |-> 1]

\* A reasoning-class request with the single retry of the shipped policies.
Reasoning == [Verifiable EXCEPT !.class = "high", !.retries = 1, !.cache = FALSE]

\* Nothing to verify with: the verdict is known without the verifier.
NoSchema == [Reasoning EXCEPT !.schema = FALSE, !.cache = TRUE, !.output = "async"]

\* Verification is off in the classes below critical and escalation is off.
Plain ==
    [Verifiable EXCEPT !.class = "medium", !.escalation = FALSE, !.input = FALSE,
                       !.verification = [Always("none") EXCEPT !["critical"] = "required"],
                       !.output = "none"]

\* The highest class cannot escalate.
Top == [Reasoning EXCEPT !.class = "critical", !.output = "none"]

NoPolicy == [Plain EXCEPT !.policy = FALSE]

MCJobs == {Verifiable, Reasoning, NoSchema, Plain, Top, NoPolicy}
MCJobsWithPolicy == {[Verifiable EXCEPT !.retries = 1], Reasoning}
===============================================================================
