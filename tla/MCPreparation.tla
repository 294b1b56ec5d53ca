---------------------------- MODULE MCPreparation -----------------------------
(***************************************************************************)
(* Model-checking instance of Preparation: the directories of              *)
(* MCPolicyEngine; prompts on both sides of every shipped threshold and    *)
(* bucket, each richer than the one before or not comparable with it; keys *)
(* of two tenants, of none and of nobody.                                  *)
(***************************************************************************)
EXTENDS Preparation, MCPolicyEngine, TLC

Found(t3, s, b, chars, signals) ==
    [count |-> [tier3 |-> t3, tier2 |-> 0, tier1 |-> t3, qmarks |-> 0,
                sentences |-> s, bullets |-> b, chars |-> chars],
     signals |-> signals, blank |-> FALSE]

\* Scores 0 and 0.1; 3.5, 6.5 and 8.5, to which one bullet more adds 0.1; and
\* two prompts that differ in their length only, 6.6 and 7.1.
Report == {"code", "structured", "sections"}
Essay == {"code", "math", "json", "structured", "constraints"}
BlankPrompt == [Found(0, 0, 0, 0, {}) EXCEPT !.blank = TRUE]
Question == Found(0, 2, 0, 40, {})
Proof == Found(2, 10, 0, 190, {})
BulletedProof == Found(2, 10, 1, 190, {})
ProofReport == Found(2, 10, 0, 1999, Report)
BulletedReport == Found(2, 10, 1, 1999, Report)
LongReport == Found(2, 10, 1, 2000, Report)
ProofEssay == Found(2, 10, 0, 8000, Essay)
BulletedEssay == Found(3, 12, 1, 8000, Essay)

Prompts == {BlankPrompt, Question, Proof, BulletedProof, ProofReport, BulletedReport,
            LongReport, ProofEssay, BulletedEssay}

ASSUME [p \in Prompts \ {LongReport, ProofEssay, BulletedEssay} |-> Tenths(Score(p))] =
    (BlankPrompt :> 0 @@ Question :> 1 @@ Proof :> 35 @@ BulletedProof :> 36 @@
     ProofReport :> 65 @@ BulletedReport :> 66)

PreparedScores == 0..100

Nominal == [latency |-> FALSE, gpu |-> FALSE]

\* Every budget decision, of texts without personal data; and every text with
\* kinds of data that the levels and the residual check tell apart.
Decided ==
    [key : {"k1", "k2"}, body : {"other"}, domain : MCDomains, features : Prompts,
     entities : {{}}, override : Classes \cup {"none"}, fleet : Fleets \ {[latency |-> FALSE, gpu |-> TRUE]}]
Redacting ==
    [key : {"k1", "k2", "k3", "k4"}, body : MCTenants, domain : MCDomains,
     features : {Question},
     entities : {{"EMAIL", "PHONE"}, {"IP", "PERSON"}, {"CARD", "ORGANIZATION"}, Entities},
     override : {"none"}, fleet : {Nominal}]
MCCallers == Decided \cup Redacting

File == [k \in {"k1", "k2", "k3"} |->
            IF k = "k1" THEN "acme" ELSE IF k = "k2" THEN "other" ELSE ""]
Env == [k \in {"k1", "k3"} |-> IF k = "k1" THEN "other" ELSE ""]

\* A file is there, is not there, or cannot be used.
MCDeployments ==
    {[file |-> [state |-> "mapping", keys |-> File], env |-> Env, presidio |-> TRUE],
     [file |-> [state |-> "absent", keys |-> NoKeys], env |-> Env, presidio |-> FALSE],
     [file |-> [state |-> "broken", keys |-> NoKeys], env |-> Env, presidio |-> FALSE]}
===============================================================================
