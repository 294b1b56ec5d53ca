----------------------------- MODULE Preparation ------------------------------
(***************************************************************************)
(* What main.infer does before and around the model with the key and the   *)
(* text of a request: verify_api_key turns the key into a tenant, the      *)
(* scorer and the policy engine decide, PIIRedactor cleans the text once,  *)
(* and the cleaned text goes to the cache, the guardrail, the model of     *)
(* every attempt and the evaluation worker.  Nothing here is shared by two *)
(* requests, so that they are looked at one at a time.  A text is the set  *)
(* of the kinds of personal data left in it.                               *)
(***************************************************************************)
EXTENDS PolicyEngine, Scorer

CONSTANTS
    Deployments,    \* tenants.yaml, TENANT_API_KEYS and whether Presidio is there
    Callers         \* [key, body, domain, features, entities, override, fleet]

VARIABLES
    deployment,
    keys,       \* tenant_key_map
    caller,     \* the call being served
    stage,      \* where it is
    redacted,   \* redacted_prompt
    seen        \* the personal data each consumer has been handed

prepVars == <<deployment, keys, caller, stage, redacted, seen>>
allVars == <<policyVars, prepVars>>

Patterns == {"EMAIL", "PHONE", "SSN", "CARD", "IP"}
Entities == Patterns \cup {"PERSON", "LOCATION", "ORGANIZATION"}
Consumers == {"cache", "guardrail", "model", "judge"}
Stages == {"idle", "refused", "lookup", "admitted", "screened", "judged", "done"}

Unseen == [c \in Consumers |-> {}]
NoKeys == [k \in {} |-> "none"]

ASSUME DeploymentsAssumption ==
    \A d \in Deployments : d.file.state \in {"absent", "broken", "mapping"}
ASSUME CallersAssumption ==
    \A c \in Callers :
        /\ c.features \in Features /\ c.entities \subseteq Entities
        /\ c.override \in Classes \cup {"none"}
ASSUME ScoresOfCallersAssumption == {Tenths(Score(c.features)) : c \in Callers} \subseteq Scores
-------------------------------------------------------------------------------
(* Authentication *)

\* (mutant) a file that cannot be used gives way to the environment.
LoadTenantKeyMapAnyway(d) ==
    IF d.file.state = "mapping" THEN d.file.keys ELSE d.env

\* load_tenant_key_map: the environment counts only where there is no file; of a
\* file that cannot be parsed or has another form nothing is used.  The entries
\* of a mapping that have no tenant are left out.
LoadTenantKeyMap(d) ==
    CASE d.file.state = "absent" -> d.env
      [] d.file.state = "broken" -> NoKeys
      [] d.file.state = "mapping" ->
            [k \in {x \in DOMAIN d.file.keys : d.file.keys[x] # ""} |-> d.file.keys[k]]

\* verify_api_key
Authenticated(key) == key \in DOMAIN keys /\ keys[key] # ""
-------------------------------------------------------------------------------
(* Redaction *)

\* What the redactor finds at a level: without Presidio, five patterns.
Detected(level) ==
    CASE level = "none" -> {}
      [] level # "none" /\ ~deployment.presidio -> Patterns
      [] level = "standard" /\ deployment.presidio -> Entities \ {"ORGANIZATION"}
      [] level = "strict" /\ deployment.presidio -> Entities

Redact(entities, level) == entities \ Detected(level)

\* _RESIDUAL_PII_PATTERNS
Residual == {"EMAIL", "SSN", "CARD"}

\* should_use_cache
UseCache == decision.cached /\ redacted \cap Residual = {}

Hand(consumer, text) == seen' = [seen EXCEPT ![consumer] = @ \cup text]
-------------------------------------------------------------------------------
PrepInit ==
    /\ Init
    /\ deployment \in Deployments /\ keys = LoadTenantKeyMap(deployment)
    /\ caller = None /\ stage = "idle"
    /\ redacted = {} /\ seen = Unseen

Load == (LoadFile \/ FinishLoading \/ Aborted) /\ UNCHANGED prepVars

\* 401: nothing behind verify_api_key runs.
Unauthorized(c) ==
    /\ phase = "ready" /\ stage = "idle" /\ ~Authenticated(c.key)
    /\ caller' = c /\ stage' = "refused"
    /\ UNCHANGED <<policyVars, deployment, keys, redacted, seen>>

\* Steps 3 to 8.5, up to the lookup: the raw text goes to the scorer only, and
\* the tenant is that of the key whatever the body names.  infer passes the
\* nominal fleet; the controller takes any.
Call(c) ==
    /\ stage = "idle" /\ Authenticated(c.key)
    /\ caller' = c
    /\ Serve([tenant |-> keys[c.key], domain |-> c.domain,
              score |-> Tenths(Score(c.features)),
              override |-> c.override, fleet |-> c.fleet])
    /\ \/ /\ decision' = None
          /\ stage' = "refused" /\ UNCHANGED <<redacted, seen>>
       \/ /\ decision' # None
          /\ redacted' = Redact(c.entities, decision'.pii)
          /\ \/ /\ UseCache'
                /\ stage' = "lookup" /\ Hand("cache", redacted')
             \/ /\ ~UseCache'
                /\ stage' = "admitted" /\ UNCHANGED seen
    /\ UNCHANGED <<deployment, keys>>

CacheAnswers ==
    /\ stage = "lookup"
    /\ stage' \in {"done", "admitted"}      \* a hit, a miss
    /\ UNCHANGED <<policyVars, deployment, keys, caller, redacted, seen>>

\* Step 10, where the policy asks for a check; a blocked request ends.
CheckInput ==
    /\ stage = "admitted"
    /\ \/ stage' = "screened" /\ UNCHANGED seen
       \/ stage' \in {"screened", "done"} /\ Hand("guardrail", redacted)
    /\ UNCHANGED <<policyVars, deployment, keys, caller, redacted>>

\* (mutant) an escalated attempt renders the prompt of the body.
InferBody ==
    /\ stage = "screened"
    /\ stage' \in {"judged", "done"}
    /\ Hand("model", IF decision.reason = "escalation" THEN caller.entities ELSE redacted)
    /\ UNCHANGED <<policyVars, deployment, keys, caller, redacted>>

\* One attempt: the context engine renders the redacted prompt; a failed call
\* ends the request.
Infer ==
    /\ stage = "screened"
    /\ stage' \in {"judged", "done"}
    /\ Hand("model", redacted)
    /\ UNCHANGED <<policyVars, deployment, keys, caller, redacted>>

NextAttempt ==
    /\ stage = "judged" /\ Escalate
    /\ stage' = "screened"
    /\ UNCHANGED <<deployment, keys, caller, redacted, seen>>

\* The last attempt's answer is stored unless it is incorrect, and judged later
\* when no verifier has decided.
Finish(verdict) ==
    /\ stage = "judged"
    /\ stage' = "done"
    /\ seen' = [seen EXCEPT
          !["cache"] = IF UseCache /\ verdict # "incorrect" THEN @ \cup redacted ELSE @,
          !["judge"] = IF verdict \in {"skipped", "unverifiable"} THEN @ \cup redacted ELSE @]
    /\ UNCHANGED <<policyVars, deployment, keys, caller, redacted>>

Leave ==
    /\ stage \in {"done", "refused"}
    /\ \/ Respond
       \/ request = None /\ UNCHANGED policyVars
    /\ caller' = None /\ stage' = "idle"
    /\ redacted' = {} /\ seen' = Unseen
    /\ UNCHANGED <<deployment, keys>>

PrepNext ==
    \/ Load
    \/ \E c \in Callers : Unauthorized(c) \/ Call(c)
    \/ CacheAnswers \/ CheckInput \/ Infer \/ NextAttempt
    \/ \E verdict \in {"correct", "incorrect", "skipped", "unverifiable"} : Finish(verdict)
    \/ Leave

PrepSpec == PrepInit /\ [][PrepNext]_allVars
-------------------------------------------------------------------------------
(* Properties *)

PrepTypeOK ==
    /\ TypeOK
    /\ deployment \in Deployments
    /\ caller \in Callers \cup {None} /\ stage \in Stages
    /\ redacted \subseteq Entities
    /\ seen \in [Consumers -> SUBSET Entities]

\* The keys of the source that counts: the file wherever there is one.
Granted(key) ==
    LET source == IF deployment.file.state = "absent" THEN deployment.env
                  ELSE deployment.file.keys
    IN  IF deployment.file.state # "broken" /\ key \in DOMAIN source THEN source[key] ELSE ""

\* No call is worked on unless its key is in the source of keys that counts, and
\* then it is governed by the policy of that key's tenant or by the default
\* one: no broken file of keys opens the gateway and no body borrows another
\* tenant's policy (verify_api_key).
KeysFailClosed ==
    caller # None =>
        /\ Granted(caller.key) = "" => request = None /\ seen = Unseen
        /\ request # None => request.tenant = Granted(caller.key)
        /\ decision # None =>
              resolution.policy.tenant \in {Granted(caller.key), "default"}

\* No consumer, in no attempt, is handed anything the policy of the request has
\* redacted; all of them are handed the same text, so that the guardrail has
\* checked the one the model gets; and the cache never sees an address, social
\* security or card number, not even under a policy that redacts nothing.
OnlyRedactedLeaves ==
    /\ decision # None =>
          \A c \in Consumers :
              /\ seen[c] \cap Detected(resolution.policy.pii) = {}
              /\ seen[c] \in {{}, redacted}
    /\ seen["cache"] \cap Residual = {}
    /\ decision = None => seen = Unseen

\* A prompt with more of everything the scorer looks for is never given a lower
\* class, by any policy that loads and under any circuit breaker: no cap, bucket
\* or threshold turns the order round.
RicherNeverLower ==
    phase = "ready" /\ stage = "idle" =>
        \A p, q \in {c.features : c \in Callers}, k \in DOMAIN registry, f \in Fleets :
            Richer(q, p) =>
                Rank[Assign(Tenths(Score(p)), registry[k], f).effective]
                    <= Rank[Assign(Tenths(Score(q)), registry[k], f).effective]
===============================================================================
