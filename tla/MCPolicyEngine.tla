---------------------------- MODULE MCPolicyEngine ----------------------------
(***************************************************************************)
(* Model-checking instance of PolicyEngine: every directory of up to three *)
(* files out of a set with each kind of fault and both kinds of policies.  *)
(***************************************************************************)
EXTENDS PolicyEngine

\* The thresholds and profiles of the shipped default policy.
Shipped ==
    [tenant |-> "default", domain |-> "general_qa", classes |-> Classes,
     low |-> 35, medium |-> 65, high |-> 85,
     model |-> [c \in Classes |-> IF c = "low" THEN "qwen25-3b" ELSE "deepseek-r1-7b"],
     tokens |-> [low |-> 0, medium |-> 512, high |-> 1024, critical |-> 2048],
     pii |-> "standard", cached |-> TRUE]

Acme == [Shipped EXCEPT !.tenant = "acme", !.pii = "strict"]
\* Legal thresholds, all below the score that stands for "medium".
AcmeCode == [Acme EXCEPT !.domain = "code", !.low = 10, !.medium = 20, !.high = 29,
                          !.pii = "none"]
SecondDefault == [Shipped EXCEPT !.domain = "code", !.cached = FALSE]

Unordered == [Acme EXCEPT !.low = 70]
MissingClass == [Acme EXCEPT !.classes = @ \ {"high"}]
CheapCritical == [Acme EXCEPT !.model["critical"] = "qwen25-3b"]

Documents == {Shipped, Acme, AcmeCode, SecondDefault, Unordered, MissingClass, CheapCritical}

MCDirectories == UNION {[1..n -> Documents] : n \in 0..3}
MCOneDirectory == {<<Acme, AcmeCode, Shipped>>}
MCTenants == {"acme", "other"}
MCDomains == {"general_qa", "code"}
MCScores == {-10, 0, 15, 25, 30, 60, 70, 90}
===============================================================================
