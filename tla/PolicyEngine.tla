----------------------------- MODULE PolicyEngine -----------------------------
(***************************************************************************)
(* policy_engine: PolicyRegistry.load_from_dir reads the policy files of a *)
(* directory one after the other and refuses to start on any fault;        *)
(* resolve picks the policy of a request; assign_budget_class, the         *)
(* client's budget_override and escalate_budget_class turn it into budget  *)
(* decisions.  Scores and thresholds are in tenths.  A policy file is      *)
(* known by the fields validation or a decision looks at.                  *)
(***************************************************************************)
EXTENDS Integers, Sequences, FiniteSets, BudgetClasses

CONSTANTS
    Directories,    \* the directories to start on: sequences of documents
    Tenants,        \* tenants and domains of requests, known or not
    Domains,
    Scores          \* complexity scores; -10 is the fast path

VARIABLES
    dir,        \* the directory, sorted by file name
    phase,      \* "loading", "ready" or "aborted" (PolicyLoadError)
    pos,        \* the next file
    registry,   \* _registry
    default,    \* _default, None when there is none
    errors,     \* the number of errors collected
    request,    \* the request being decided
    resolution, \* its PolicyResolution
    decision    \* its current BudgetDecision

policyVars == <<dir, phase, pos, registry, default, errors, request, resolution, decision>>

Models == {"qwen25-3b", "deepseek-r1-7b"}
Reasons == {"none", "latency_circuit_breaker", "escalation"}
Levels == {"none", "standard", "strict"}
Fleets == [latency : BOOLEAN, gpu : BOOLEAN]

Document ==
    [tenant : STRING, domain : STRING, classes : SUBSET STRING,
     low : Int, medium : Int, high : Int,
     model : [Classes -> Models], tokens : [Classes -> Nat],
     pii : STRING, cached : BOOLEAN]

\* No policy, no request, nothing resolved, nothing decided.
None == [tenant |-> "none"]
Key(d) == <<d.tenant, d.domain>>

ASSUME DirectoriesAssumption == \A d \in Directories : d \in Seq(Document)
ASSUME ScoresAssumption == Scores \subseteq Int
-------------------------------------------------------------------------------
(* Validation and loading *)

\* What Policy.model_validate demands of the fields of a document.
Valid(d) ==
    /\ d.classes = Classes
    /\ {d.low, d.medium, d.high} \subseteq 1..100
    /\ d.low < d.medium /\ d.medium < d.high
    /\ d.tokens["low"] = 0
    /\ \A c \in Classes \ {"low"} : d.model[c] = "deepseek-r1-7b"
    /\ d.pii \in Levels

Init ==
    /\ dir \in Directories
    /\ phase = "loading" /\ pos = 1
    /\ registry = [k \in {} |-> None] /\ default = None /\ errors = 0
    /\ request = None /\ resolution = None /\ decision = None

NotLoading == UNCHANGED <<dir, phase, request, resolution, decision>>

\* (mutant) a later file replaces an earlier one of the same key.
LoadFileReplacing ==
    /\ phase = "loading" /\ pos <= Len(dir)
    /\ pos' = pos + 1
    /\ LET d == dir[pos]
       IN  \/ /\ ~Valid(d)
              /\ errors' = errors + 1
              /\ UNCHANGED <<registry, default>>
           \/ /\ Valid(d)
              /\ registry' = [k \in DOMAIN registry \cup {Key(d)} |->
                                 IF k = Key(d) THEN d ELSE registry[k]]
              /\ default' = IF d.tenant = "default" THEN d ELSE default
              /\ UNCHANGED errors
    /\ NotLoading

\* One turn of the loop: an invalid document and a second one for the same
\* tenant and domain are errors; so is a second default policy, which has
\* entered the registry by then.
LoadFile ==
    /\ phase = "loading" /\ pos <= Len(dir)
    /\ pos' = pos + 1
    /\ LET d == dir[pos]
       IN  \/ /\ ~Valid(d) \/ Key(d) \in DOMAIN registry
              /\ errors' = errors + 1
              /\ UNCHANGED <<registry, default>>
           \/ /\ Valid(d) /\ Key(d) \notin DOMAIN registry
              /\ registry' = [k \in DOMAIN registry \cup {Key(d)} |->
                                 IF k = Key(d) THEN d ELSE registry[k]]
              /\ \/ d.tenant # "default" /\ UNCHANGED <<default, errors>>
                 \/ /\ d.tenant = "default" /\ default = None
                    /\ default' = d /\ UNCHANGED errors
                 \/ /\ d.tenant = "default" /\ default # None
                    /\ errors' = errors + 1 /\ UNCHANGED default
    /\ NotLoading

\* The gateway starts only when no error was collected; an empty directory is
\* an error, too.
FinishLoading ==
    /\ phase = "loading" /\ pos > Len(dir)
    /\ phase' = IF errors = 0 /\ dir # <<>> THEN "ready" ELSE "aborted"
    /\ UNCHANGED <<dir, pos, registry, default, errors, request, resolution, decision>>
-------------------------------------------------------------------------------
(* Budget decisions *)

PriorityTier(base) ==
    CASE base = "low" -> "low"
      [] base = "critical" -> "high"
      [] OTHER -> "standard"

\* (mutant) a score of zero counts as the fast path.
BaseClassZeroFast(score, p) ==
    CASE score <= 0 -> "medium"
      [] score > 0 /\ score <= p.low -> "low"
      [] score > p.low /\ score <= p.medium -> "medium"
      [] score > p.medium /\ score <= p.high -> "high"
      [] OTHER -> "critical"

BaseClass(score, p) ==
    CASE score < 0 -> "medium"
      [] score >= 0 /\ score <= p.low -> "low"
      [] score > p.low /\ score <= p.medium -> "medium"
      [] score > p.medium /\ score <= p.high -> "high"
      [] OTHER -> "critical"

DecisionFor(base, effective, why, p) ==
    [base |-> base, effective |-> effective, reason |-> why,
     model |-> p.model[effective], tokens |-> p.tokens[effective],
     tier |-> PriorityTier(base), pii |-> p.pii, cached |-> p.cached]

\* assign_budget_class: the GPU circuit breaker changes nothing.
Assign(score, p, fleet) ==
    LET base == BaseClass(score, p)
    IN  IF fleet.latency /\ base # "critical"
        THEN DecisionFor(base, DowngradeOne(base), "latency_circuit_breaker", p)
        ELSE DecisionFor(base, base, "none", p)

\* _apply_budget_override: the lower of the override and the policy's class,
\* expressed as a score, which the thresholds of the policy classify again.
AssignOverride(override, score, p, fleet) ==
    LET policyDecision == Assign(score, p, fleet)
    IN  IF Rank[override] >= Rank[policyDecision.effective]
        THEN policyDecision
        ELSE Assign(Rank[override] * 30, p, fleet)

Decide(req, p) ==
    IF req.override = "none"
    THEN Assign(req.score, p, req.fleet)
    ELSE AssignOverride(req.override, req.score, p, req.fleet)

\* PolicyRegistry.resolve
Known(tenant) == \E k \in DOMAIN registry : k[1] = tenant

\* (mutant) a known tenant never falls back.
ResolveKnownOnly(tenant, domain) ==
    IF <<tenant, domain>> \in DOMAIN registry
    THEN [policy |-> registry[<<tenant, domain>>], fallback |-> "none"]
    ELSE [policy |-> IF Known(tenant) THEN None ELSE default,
          fallback |-> IF Known(tenant) THEN "unknown_domain" ELSE "unknown_tenant"]

Resolve(tenant, domain) ==
    IF <<tenant, domain>> \in DOMAIN registry
    THEN [policy |-> registry[<<tenant, domain>>], fallback |-> "none"]
    ELSE [policy |-> default,
          fallback |-> IF Known(tenant) THEN "unknown_domain" ELSE "unknown_tenant"]

Requests ==
    [tenant : Tenants, domain : Domains, score : Scores,
     override : Classes \cup {"none"}, fleet : Fleets]

\* Steps 5 and 6 of infer: without a policy there is no decision.  The registry
\* never changes, so that requests are looked at one at a time.
Serve(req) ==
    /\ phase = "ready" /\ request = None
    /\ request' = req
    /\ resolution' = Resolve(req.tenant, req.domain)
    /\ decision' = IF resolution'.policy = None THEN None
                   ELSE Decide(req, resolution'.policy)
    /\ UNCHANGED <<dir, phase, pos, registry, default, errors>>

\* (mutant) an escalated decision keeps the profile of the class before.
EscalateSameProfile ==
    /\ decision # None /\ decision.effective # "critical"
    /\ decision' = [decision EXCEPT !.effective = NextClass(@), !.reason = "escalation"]
    /\ UNCHANGED <<dir, phase, pos, registry, default, errors, request, resolution>>

\* escalate_budget_class, for the class should_escalate names.
Escalate ==
    /\ decision # None /\ decision.effective # "critical"
    /\ LET next == NextClass(decision.effective)
       IN  decision' = DecisionFor(next, next, "escalation", resolution.policy)
    /\ UNCHANGED <<dir, phase, pos, registry, default, errors, request, resolution>>

Respond ==
    /\ request # None
    /\ request' = None /\ resolution' = None /\ decision' = None
    /\ UNCHANGED <<dir, phase, pos, registry, default, errors>>

\* The process has refused to start.
Aborted == phase = "aborted" /\ UNCHANGED policyVars

Next ==
    \/ LoadFile \/ FinishLoading \/ Aborted
    \/ \E req \in Requests : Serve(req)
    \/ Escalate \/ Respond

Spec == Init /\ [][Next]_policyVars
-------------------------------------------------------------------------------
(* Properties *)

Decision ==
    [base : Classes, effective : Classes, reason : Reasons, model : Models,
     tokens : Nat, tier : {"low", "standard", "high"}, pii : Levels, cached : BOOLEAN]

TypeOK ==
    /\ dir \in Directories
    /\ phase \in {"loading", "ready", "aborted"}
    /\ pos \in 1..Len(dir) + 1
    /\ errors \in 0..Len(dir)
    /\ \A k \in DOMAIN registry : registry[k] \in Document /\ Key(registry[k]) = k
    /\ default = None \/ default \in Document
    /\ request = None \/ request \in Requests
    /\ resolution = None \/ resolution.fallback \in {"none", "unknown_domain", "unknown_tenant"}
    /\ decision = None \/ decision \in Decision

\* A directory without fault: valid documents, one per tenant and domain, at
\* most one of them of the default tenant.
Defaults == {i \in DOMAIN dir : dir[i].tenant = "default"}
Faultless ==
    /\ dir # <<>>
    /\ \A i \in DOMAIN dir : Valid(dir[i])
    /\ \A i, j \in DOMAIN dir : Key(dir[i]) = Key(dir[j]) => i = j
    /\ \A i, j \in Defaults : i = j

\* The gateway starts on a directory exactly when nothing is wrong with it,
\* whatever the order of its files, and what it has loaded is that directory.
RegistryIsDirectory ==
    /\ phase = "aborted" => ~Faultless
    /\ phase = "ready" =>
          /\ Faultless
          /\ DOMAIN registry = {Key(dir[i]) : i \in DOMAIN dir}
          /\ \A i \in DOMAIN dir : registry[Key(dir[i])] = dir[i]
          /\ IF Defaults = {} THEN default = None ELSE \A i \in Defaults : default = dir[i]

\* No other tenant's policy ever governs a request: it is the policy of its
\* tenant and domain, or the default one when there is none; with a default
\* policy every request has a decision (resolve, Failure Mode 7).
GovernedByOwnPolicy ==
    request # None =>
        /\ resolution.fallback = "none" =>
              Key(resolution.policy) = <<request.tenant, request.domain>>
        /\ resolution.fallback # "none" =>
              /\ <<request.tenant, request.domain>> \notin {Key(dir[i]) : i \in DOMAIN dir}
              /\ resolution.policy # None => resolution.policy.tenant = "default"
        /\ decision = None <=>
              /\ resolution.fallback # "none"
              /\ \A i \in DOMAIN dir : dir[i].tenant # "default"

\* The thresholds of the shipped policies, between which the scores that stand
\* for an override, 0, 30 and 60, fall in or below the class they stand for.
Standard(p) == p.low >= 30 /\ p.medium >= 60

\* A decision is one of the policy: model and tokens are those of its class,
\* reasoning classes run on the reasoning model; the circuit breaker takes away
\* at most one class, never from a critical request, and never the priority;
\* under standard thresholds an override never raises the class.
DecisionWithinPolicy ==
    decision # None =>
        LET p == resolution.policy
        IN  /\ decision.model = p.model[decision.effective]
            /\ decision.tokens = p.tokens[decision.effective]
            /\ decision.effective # "low" => decision.model = "deepseek-r1-7b"
            /\ decision.reason # "latency_circuit_breaker" => decision.effective = decision.base
            /\ decision.reason = "latency_circuit_breaker" =>
                  /\ request.fleet.latency
                  /\ decision.base # "critical"
                  /\ Rank[decision.base] <= Rank[decision.effective] + 1
            /\ decision.tier = "high" <=> decision.base = "critical"
            /\ decision.reason # "escalation" /\ Standard(p) =>
                  Rank[decision.effective] <=
                     Rank[Assign(request.score, p, request.fleet).effective]

\* gateway/schemas.py: budget_override is "Capped at policy ceiling".  The class
\* goes through a score, so the thresholds of a policy can make it higher.
OverrideCapped ==
    decision # None /\ decision.reason # "escalation" =>
        Rank[decision.effective] <=
            Rank[Assign(request.score, resolution.policy, request.fleet).effective]
===============================================================================
