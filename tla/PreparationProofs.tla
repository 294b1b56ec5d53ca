--------------------------- MODULE PreparationProofs ---------------------------
(***************************************************************************)
(* Theorems about Preparation and, in it, PolicyEngine and Scorer: for any *)
(* directories of policy documents, any prompts and scores, any deployment *)
(* and any callers.                                                        *)
(***************************************************************************)
EXTENDS Preparation, TLAPS
-------------------------------------------------------------------------------
(* The scorer: every group of findings, and the score, grow with the prompt.  *)

Groups(p) == {ConstraintDensity(p), StructuralSignals(p), TechnicalDomain(p),
              LengthSignal(p), OutputFormat(p)}

LEMMA CountsAreNumbers ==
    ASSUME NEW p \in Features
    PROVE  \A c \in Counts : p.count[c] \in Nat
BY DEF Features

LEMMA GroupsNatural ==
    ASSUME NEW p \in Features
    PROVE  /\ ConstraintDensity(p) \in Nat /\ StructuralSignals(p) \in Nat
           /\ TechnicalDomain(p) \in Nat /\ LengthSignal(p) \in Nat /\ OutputFormat(p) \in Nat
<1>1. ConstraintDensity(p) \in Nat
  BY DEF Features, Counts, AtMost, ConstraintDensity
<1>2. StructuralSignals(p) \in Nat
  BY DEF Features, Counts, AtMost, StructuralSignals, If
<1>3. TechnicalDomain(p) \in Nat /\ OutputFormat(p) \in Nat
  BY DEF AtMost, TechnicalDomain, OutputFormat, If
<1>4. LengthSignal(p) \in Nat
  BY CountsAreNumbers DEF Counts, LengthSignal
<1>5. QED
  BY <1>1, <1>2, <1>3, <1>4

LEMMA ScoreNatural == ASSUME NEW p \in Features PROVE Score(p) \in Nat
BY GroupsNatural DEF Score, AtMost

LEMMA ScoreMonotone ==
    ASSUME NEW p \in Features, NEW q \in Features, Richer(q, p)
    PROVE  Score(p) <= Score(q)
<1>1. ConstraintDensity(p) <= ConstraintDensity(q)
  BY DEF Richer, Features, AtMost, ConstraintDensity, Counts
<1>2. StructuralSignals(p) <= StructuralSignals(q)
  BY DEF Richer, Features, AtMost, StructuralSignals, Counts, If
<1>3. TechnicalDomain(p) <= TechnicalDomain(q)
  BY DEF Richer, Features, AtMost, TechnicalDomain, Counts, If
<1>4. LengthSignal(p) <= LengthSignal(q)
  BY DEF Richer, Features, AtMost, LengthSignal, Counts, If
<1>5. OutputFormat(p) <= OutputFormat(q)
  BY DEF Richer, Features, AtMost, OutputFormat, Counts, If
<1>6. (q.blank => p.blank) /\ p.blank \in BOOLEAN /\ q.blank \in BOOLEAN
  BY DEF Richer, Features
<1>7. CASE p.blank
  BY <1>7, ScoreNatural DEF Score
<1>8. CASE ~p.blank
  BY <1>1, <1>2, <1>3, <1>4, <1>5, <1>6, <1>8, GroupsNatural DEF Score, AtMost
<1>9. QED
  BY <1>7, <1>8

LEMMA TenthsMonotone ==
    ASSUME NEW a \in Nat, NEW b \in Nat, a <= b
    PROVE  Tenths(a) \in Nat /\ Tenths(b) \in Nat /\ Tenths(a) <= Tenths(b)
BY DEF Tenths
-------------------------------------------------------------------------------
(* The classes *)

LEMMA Ranks ==
    /\ Rank["low"] = 0 /\ Rank["medium"] = 1 /\ Rank["high"] = 2 /\ Rank["critical"] = 3
    /\ \A c \in Classes : Rank[c] \in 0..3
BY DEF Rank, Classes

LEMMA ClassesAt ==
    ClassAt(0) = "low" /\ ClassAt(1) = "medium" /\ ClassAt(2) = "high" /\ ClassAt(3) = "critical"
BY Ranks DEF ClassAt, Classes

LEMMA Downgraded ==
    /\ DowngradeOne("low") = "low" /\ DowngradeOne("medium") = "low"
    /\ DowngradeOne("high") = "medium" /\ DowngradeOne("critical") = "high"
BY Ranks, ClassesAt DEF DowngradeOne

LEMMA NextClasses ==
    NextClass("low") = "medium" /\ NextClass("medium") = "high" /\ NextClass("high") = "critical"
BY Ranks, ClassesAt DEF NextClass

\* What a valid document promises a decision.
LEMMA ValidDocument ==
    ASSUME NEW p \in Document, Valid(p)
    PROVE  /\ p.low \in Int /\ p.medium \in Int /\ p.high \in Int
           /\ 0 < p.low /\ p.low < p.medium /\ p.medium < p.high
           /\ \A c \in Classes \ {"low"} : p.model[c] = "deepseek-r1-7b"
BY DEF Valid, Document

LEMMA BaseClassIsClass == ASSUME NEW s, NEW p PROVE BaseClass(s, p) \in Classes
BY DEF BaseClass, Classes

LEMMA BaseClassMonotone ==
    ASSUME NEW p \in Document, Valid(p), NEW a \in Nat, NEW b \in Nat, a <= b
    PROVE  Rank[BaseClass(a, p)] <= Rank[BaseClass(b, p)]
BY ValidDocument, Ranks DEF BaseClass

\* The class a circuit breaker leaves.
Effective(base, fleet) ==
    IF fleet.latency /\ base # "critical" THEN DowngradeOne(base) ELSE base

LEMMA AssignEffective ==
    ASSUME NEW s, NEW p, NEW f
    PROVE  LET base == BaseClass(s, p)
           IN  /\ Assign(s, p, f).base = base
               /\ Assign(s, p, f).effective = Effective(base, f)
               /\ Assign(s, p, f).reason =
                     IF f.latency /\ base # "critical" THEN "latency_circuit_breaker" ELSE "none"
BY DEF Assign, DecisionFor, Effective

LEMMA EffectiveMonotone ==
    ASSUME NEW b \in Classes, NEW c \in Classes, Rank[b] <= Rank[c], NEW f
    PROVE  Rank[Effective(b, f)] <= Rank[Effective(c, f)]
BY Ranks, Downgraded DEF Effective, Classes

LEMMA EffectiveIsClass ==
    ASSUME NEW b \in Classes, NEW f
    PROVE  /\ Effective(b, f) \in Classes
           /\ Rank[Effective(b, f)] <= Rank[b] /\ Rank[b] <= Rank[Effective(b, f)] + 1
BY Ranks, Downgraded DEF Effective, Classes

LEMMA NoDocument == None \notin Document
BY DEF None, Document

LEMMA NoDecision ==
    ASSUME NEW b, NEW e, NEW r, NEW p
    PROVE  DecisionFor(b, e, r, p) # None
BY DEF None, DecisionFor
-------------------------------------------------------------------------------
(* Loading *)

loadVars == <<dir, phase, pos, registry, default, errors>>

Before == {i \in DOMAIN dir : i < pos}

\* What the files read so far have left in the registry.
Registered ==
    /\ \A k \in DOMAIN registry :
          \E i \in Before : k = Key(dir[i]) /\ registry[k] = dir[i]
    /\ default # None => \E i \in Before : i \in Defaults /\ default = dir[i]
    /\ errors = 0 =>
          /\ \A i \in Before : /\ Valid(dir[i])
                               /\ Key(dir[i]) \in DOMAIN registry
                               /\ registry[Key(dir[i])] = dir[i]
                               /\ i \in Defaults => default = dir[i]
          /\ \A i, j \in Before : Key(dir[i]) = Key(dir[j]) => i = j
          /\ \A i, j \in Before \cap Defaults : i = j

\* An error is one of the directory; without any the gateway starts.
Loaded ==
    /\ dir \in Seq(Document) /\ pos \in 1..Len(dir) + 1 /\ errors \in Nat
    /\ phase \in {"loading", "ready", "aborted"}
    /\ Registered
    /\ errors # 0 => ~Faultless
    /\ phase = "ready" => pos = Len(dir) + 1 /\ errors = 0 /\ dir # <<>>
    /\ phase = "aborted" => ~Faultless

LEMMA InitLoaded == Init => Loaded
<1> SUFFICES ASSUME Init PROVE Loaded
  OBVIOUS
<1>1. dir \in Seq(Document) /\ 1 \in 1..Len(dir) + 1
  BY DirectoriesAssumption DEF Init
<1>2. Before = {}
  BY <1>1 DEF Init, Before
<1>3. Registered
  BY <1>2 DEF Init, Registered
<1>4. QED
  BY <1>1, <1>3 DEF Init, Loaded

LEMMA LoadFileLoaded == Loaded /\ LoadFile => Loaded'
<1> SUFFICES ASSUME Loaded, LoadFile PROVE Loaded'
  OBVIOUS
<1>1. PICK n \in DOMAIN dir : n = pos
  BY DEF Loaded, LoadFile
<1>2. PICK d \in Document : d = dir[n]
  BY <1>1 DEF Loaded
<1>3. phase = "loading" /\ pos' = n + 1 /\ dir' = dir /\ phase' = phase
  BY <1>1 DEF LoadFile, NotLoading
<1>4. Before' = Before \cup {n} /\ n \notin Before /\ n \in Nat
  BY <1>1, <1>3 DEF Before, Loaded
<1>5. Before \subseteq DOMAIN dir
  BY DEF Before
<1>6. /\ dir' \in Seq(Document) /\ pos' \in 1..Len(dir') + 1
      /\ phase' \in {"loading", "ready", "aborted"}
      /\ phase' # "ready" /\ phase' # "aborted"
  BY <1>1, <1>3 DEF Loaded
<1>7. Defaults' = Defaults /\ Faultless' = Faultless
  BY <1>3 DEF Defaults, Faultless
<1>8. CASE ~Valid(d) \/ Key(d) \in DOMAIN registry
  <2>1. errors' = errors + 1 /\ registry' = registry /\ default' = default
    BY <1>1, <1>2, <1>8 DEF LoadFile
  <2>2. ~Faultless
    <3>1. CASE ~Valid(d)
      BY <1>2, <3>1 DEF Faultless
    <3>2. CASE Key(d) \in DOMAIN registry
      <4>1. PICK i \in Before : Key(d) = Key(dir[i])
        BY <3>2 DEF Loaded, Registered
      <4>2. i # n /\ i \in DOMAIN dir
        BY <1>4, <1>5
      <4>3. QED
        BY <1>2, <4>1, <4>2 DEF Faultless
    <3>3. QED
      BY <1>8, <3>1, <3>2
  <2>3. errors' \in Nat /\ errors' # 0
    BY <2>1 DEF Loaded
  <2>4. Registered'
    BY <1>3, <1>4, <1>7, <2>1, <2>3 DEF Loaded, Registered
  <2>5. QED
    BY <1>6, <1>7, <2>2, <2>3, <2>4 DEF Loaded
<1>9. CASE Valid(d) /\ Key(d) \notin DOMAIN registry
  <2>1. registry' = [k \in DOMAIN registry \cup {Key(d)} |-> IF k = Key(d) THEN d ELSE registry[k]]
    BY <1>1, <1>2, <1>9 DEF LoadFile
  <2>2. /\ DOMAIN registry' = DOMAIN registry \cup {Key(d)}
        /\ registry'[Key(d)] = d
        /\ \A k \in DOMAIN registry : registry'[k] = registry[k]
    BY <1>9, <2>1
  <2>3. \A k \in DOMAIN registry' : \E i \in Before' : k = Key(dir[i]) /\ registry'[k] = dir[i]
    BY <1>2, <1>4, <2>2 DEF Loaded, Registered
  <2>4. \A i \in Before : Key(dir[i]) # Key(d) \/ errors # 0
    BY <1>9 DEF Loaded, Registered
  <2>5. errors = 0 =>
           /\ \A i \in Before' : /\ Valid(dir[i])
                                 /\ Key(dir[i]) \in DOMAIN registry'
                                 /\ registry'[Key(dir[i])] = dir[i]
           /\ \A i, j \in Before' : Key(dir[i]) = Key(dir[j]) => i = j
    BY <1>2, <1>4, <1>9, <2>2, <2>4 DEF Loaded, Registered
  <2>6. CASE d.tenant # "default"
    <3>1. default' = default /\ errors' = errors /\ n \notin Defaults
      BY <1>1, <1>2, <1>9, <2>6 DEF LoadFile, Defaults
    <3>2. Registered'
      BY <1>3, <1>4, <1>7, <2>3, <2>5, <3>1 DEF Loaded, Registered
    <3>3. QED
      BY <1>6, <1>7, <3>1, <3>2 DEF Loaded
  <2>7. CASE d.tenant = "default" /\ default = None
    <3>1. default' = d /\ errors' = errors /\ n \in Defaults
      BY <1>1, <1>2, <1>9, <2>7 DEF LoadFile, Defaults
    <3>2. errors = 0 => \A i \in Before : i \notin Defaults
      <4>1. \A i \in Before : dir[i] # None
        BY <1>5, NoDocument DEF Loaded
      <4>2. QED
        BY <2>7, <4>1 DEF Loaded, Registered
    <3>3. Registered'
      BY <1>2, <1>3, <1>4, <1>7, <2>3, <2>5, <3>1, <3>2 DEF Loaded, Registered
    <3>4. QED
      BY <1>6, <1>7, <3>1, <3>3 DEF Loaded
  <2>8. CASE d.tenant = "default" /\ default # None
    <3>1. default' = default /\ errors' = errors + 1 /\ n \in Defaults
      BY <1>1, <1>2, <1>9, <2>8 DEF LoadFile, Defaults
    <3>2. ~Faultless
      BY <1>4, <2>8, <3>1 DEF Loaded, Registered, Faultless
    <3>3. errors' \in Nat /\ errors' # 0
      BY <3>1 DEF Loaded
    <3>4. Registered'
      BY <1>3, <1>4, <1>7, <2>3, <3>1, <3>3 DEF Loaded, Registered
    <3>5. QED
      BY <1>6, <1>7, <3>2, <3>3, <3>4 DEF Loaded
  <2>9. QED
    BY <2>6, <2>7, <2>8
<1>10. QED
  BY <1>8, <1>9

\* Loading has found exactly what there is to find.
LEMMA LoadedIsFaultless ==
    ASSUME Loaded, pos = Len(dir) + 1, errors = 0, dir # <<>>
    PROVE  Faultless /\ Before = DOMAIN dir
<1>1. Before = DOMAIN dir
  <2>1. \A i \in DOMAIN dir : i \in 1..Len(dir) /\ Len(dir) \in Nat
    BY DEF Loaded
  <2>2. \A i \in DOMAIN dir : i < pos
    BY <2>1
  <2>3. QED
    BY <2>2 DEF Before
<1>2. \A i, j \in Defaults : i = j
  BY <1>1 DEF Loaded, Registered, Defaults
<1>3. QED
  BY <1>1, <1>2 DEF Loaded, Registered, Faultless

LEMMA FinishLoadingLoaded == Loaded /\ FinishLoading => Loaded'
<1> SUFFICES ASSUME Loaded, FinishLoading PROVE Loaded'
  OBVIOUS
<1>1. /\ UNCHANGED <<dir, pos, registry, default, errors>> /\ pos > Len(dir)
      /\ phase' = IF errors = 0 /\ dir # <<>> THEN "ready" ELSE "aborted"
  BY DEF FinishLoading
<1>2. pos = Len(dir) + 1
  BY <1>1 DEF Loaded
<1>3. Registered' /\ Faultless' = Faultless
  BY <1>1 DEF Loaded, Registered, Before, Faultless, Defaults
<1>4. dir = <<>> => ~Faultless
  BY DEF Faultless
<1>5. QED
  BY <1>1, <1>2, <1>3, <1>4 DEF Loaded

LEMMA UnchangedLoaded == Loaded /\ UNCHANGED loadVars => Loaded'
BY DEF Loaded, loadVars, Registered, Before, Faultless, Defaults

LEMMA LoadStep == Loaded /\ [PrepNext]_allVars => Loaded'
<1> SUFFICES ASSUME Loaded, [PrepNext]_allVars PROVE Loaded'
  OBVIOUS
<1>1. CASE Load
  BY <1>1, LoadFileLoaded, FinishLoadingLoaded, UnchangedLoaded
     DEF Load, Aborted, policyVars, loadVars
<1>2. CASE UNCHANGED policyVars
  BY <1>2, UnchangedLoaded DEF policyVars, loadVars
<1>3. ASSUME NEW c \in Callers, Call(c) PROVE Loaded'
  BY <1>3, UnchangedLoaded DEF Call, Serve, loadVars
<1>4. CASE NextAttempt
  BY <1>4, UnchangedLoaded DEF NextAttempt, Escalate, loadVars
<1>5. CASE Leave
  BY <1>5, UnchangedLoaded DEF Leave, Respond, policyVars, loadVars
<1>6. ASSUME NEW c \in Callers, Unauthorized(c) PROVE UNCHANGED policyVars
  BY <1>6 DEF Unauthorized
<1>7. CASE CacheAnswers \/ CheckInput \/ Infer
           \/ \E verdict \in {"correct", "incorrect", "skipped", "unverifiable"} : Finish(verdict)
  BY <1>2, <1>7 DEF CacheAnswers, CheckInput, Infer, Finish
<1>8. QED
  BY <1>1, <1>2, <1>3, <1>4, <1>5, <1>6, <1>7 DEF PrepNext, allVars

LEMMA LoadedRegistry == Loaded => RegistryIsDirectory
<1> SUFFICES ASSUME Loaded, phase = "ready" PROVE
          /\ Faultless
          /\ DOMAIN registry = {Key(dir[i]) : i \in DOMAIN dir}
          /\ \A i \in DOMAIN dir : registry[Key(dir[i])] = dir[i]
          /\ IF Defaults = {} THEN default = None ELSE \A i \in Defaults : default = dir[i]
  BY DEF Loaded, RegistryIsDirectory
<1>1. Faultless /\ Before = DOMAIN dir /\ errors = 0
  BY LoadedIsFaultless DEF Loaded
<1>2. Defaults \subseteq DOMAIN dir
  BY DEF Defaults
<1>3. /\ \A i \in DOMAIN dir : Key(dir[i]) \in DOMAIN registry /\ registry[Key(dir[i])] = dir[i]
      /\ \A k \in DOMAIN registry : \E i \in DOMAIN dir : k = Key(dir[i])
      /\ \A i \in Defaults : default = dir[i]
      /\ default # None => \E i \in Defaults : default = dir[i]
  BY <1>1, <1>2 DEF Loaded, Registered
<1>4. DOMAIN registry = {Key(dir[i]) : i \in DOMAIN dir}
  BY <1>3
<1>5. QED
  BY <1>1, <1>3, <1>4

\* The gateway has loaded exactly its directory, and refuses exactly the faulty
\* ones, whatever the documents and their order.
THEOREM RegistryIsWhatWasLoaded == PrepSpec => []RegistryIsDirectory
<1>1. PrepInit => Loaded
  BY InitLoaded DEF PrepInit
<1>2. Loaded /\ [PrepNext]_allVars => Loaded'
  BY LoadStep
<1>3. QED
  BY <1>1, <1>2, LoadedRegistry, PTL DEF PrepSpec
-------------------------------------------------------------------------------
(* Decisions *)

\* The model, the tokens and the levels of a decision are those its policy has
\* for its class.
Fitting(d, p) ==
    /\ d = DecisionFor(d.base, d.effective, d.reason, p)
    /\ d.base \in Classes /\ d.effective \in Classes

\* Only the circuit breaker parts the effective class from the base class.
Broken(d, fleet) ==
    IF d.reason = "latency_circuit_breaker"
    THEN fleet.latency /\ d.base # "critical" /\ Rank[d.base] <= Rank[d.effective] + 1
    ELSE d.effective = d.base

Capped(d, req, p) ==
    d.reason # "escalation" /\ Standard(p) =>
        Rank[d.effective] <= Rank[Assign(req.score, p, req.fleet).effective]

LEMMA AssignFits ==
    ASSUME NEW s, NEW p, NEW f
    PROVE  /\ Fitting(Assign(s, p, f), p) /\ Broken(Assign(s, p, f), f)
           /\ Assign(s, p, f) # None
<1> DEFINE d == Assign(s, p, f)
           b == BaseClass(s, p)
<1>1. d.base = b /\ d.effective = Effective(b, f)
      /\ d.reason = IF f.latency /\ b # "critical" THEN "latency_circuit_breaker" ELSE "none"
  BY AssignEffective
<1>2. b \in Classes /\ Effective(b, f) \in Classes /\ Rank[b] <= Rank[Effective(b, f)] + 1
  BY BaseClassIsClass, EffectiveIsClass
<1>3. d = DecisionFor(d.base, d.effective, d.reason, p) /\ d # None
  <2>1. CASE f.latency /\ b # "critical"
    BY <1>1, <2>1, NoDecision DEF Assign, Effective
  <2>2. CASE ~(f.latency /\ b # "critical")
    BY <1>1, <2>2, NoDecision DEF Assign, Effective
  <2>3. QED
    BY <2>1, <2>2
<1>4. Broken(d, f)
  BY <1>1, <1>2 DEF Broken, Effective
<1>5. QED
  BY <1>1, <1>2, <1>3, <1>4 DEF Fitting

\* The score that stands for an override is classified at most as the override,
\* under standard thresholds.
LEMMA OverrideClass ==
    ASSUME NEW p \in Document, Valid(p), Standard(p), NEW o \in Classes \ {"critical"}
    PROVE  Rank[BaseClass(Rank[o] * 30, p)] <= Rank[o]
BY ValidDocument, Ranks DEF Standard, BaseClass, Classes

LEMMA DecideFits ==
    ASSUME NEW p \in Document, Valid(p), NEW req, req.override \in Classes \cup {"none"}
    PROVE  /\ Fitting(Decide(req, p), p) /\ Broken(Decide(req, p), req.fleet)
           /\ Capped(Decide(req, p), req, p)
           /\ Decide(req, p) # None
<1> DEFINE d == Assign(req.score, p, req.fleet)
           o == req.override
           e == Assign(Rank[o] * 30, p, req.fleet)
<1>1. d.effective \in Classes
  BY AssignFits DEF Fitting
<1>2. CASE Decide(req, p) = d
  <2>1. Rank[d.effective] <= Rank[d.effective]
    BY <1>1, Ranks
  <2>2. QED
    BY <1>2, <2>1, AssignFits DEF Capped
<1>3. CASE o # "none" /\ ~(Rank[o] >= Rank[d.effective]) /\ Decide(req, p) = e
  <2>1. o \in Classes \ {"critical"} /\ Rank[o] < Rank[d.effective]
    BY <1>1, <1>3, Ranks
  <2> DEFINE b == BaseClass(Rank[o] * 30, p)
  <2>2. e.effective = Effective(b, req.fleet) /\ b \in Classes
    BY AssignEffective, BaseClassIsClass
  <2>3. Effective(b, req.fleet) \in Classes /\ Rank[Effective(b, req.fleet)] <= Rank[b]
    BY <2>2, EffectiveIsClass
  <2>4. Standard(p) => Rank[b] <= Rank[o]
    BY <2>1, OverrideClass
  <2> HIDE DEF b, d, e
  <2>5. Standard(p) => Rank[e.effective] <= Rank[d.effective]
    BY <1>1, <2>1, <2>2, <2>3, <2>4, Ranks
  <2>6. Capped(e, req, p)
    BY <2>5 DEF Capped, d
  <2>7. QED
    BY <1>3, <2>6, AssignFits DEF e
<1>4. QED
  BY <1>2, <1>3 DEF Decide, AssignOverride

\* A policy that resolve finds is a document of the directory.
LEMMA Resolved ==
    ASSUME Loaded, phase = "ready", NEW tenant, NEW domain,
           NEW r, r = Resolve(tenant, domain)
    PROVE  /\ r.policy # None =>
                 \E i \in DOMAIN dir :
                    /\ r.policy = dir[i] /\ dir[i] \in Document /\ Valid(dir[i])
                    /\ r.fallback # "none" => dir[i].tenant = "default"
           /\ r.fallback = "none" => Key(r.policy) = <<tenant, domain>>
           /\ r.fallback # "none" => <<tenant, domain>> \notin {Key(dir[i]) : i \in DOMAIN dir}
           /\ r.policy = None <=>
                 r.fallback # "none" /\ \A i \in DOMAIN dir : dir[i].tenant # "default"
<1> DEFINE k == <<tenant, domain>>
<1>1. /\ Faultless
      /\ DOMAIN registry = {Key(dir[i]) : i \in DOMAIN dir}
      /\ \A i \in DOMAIN dir : registry[Key(dir[i])] = dir[i]
      /\ IF Defaults = {} THEN default = None ELSE \A i \in Defaults : default = dir[i]
  BY LoadedRegistry DEF RegistryIsDirectory
<1>2. \A i \in DOMAIN dir : dir[i] \in Document /\ Valid(dir[i]) /\ dir[i] # None
  BY <1>1, NoDocument DEF Loaded, Faultless
<1>3. CASE k \in DOMAIN registry
  <2>1. PICK i \in DOMAIN dir : k = Key(dir[i])
    BY <1>1, <1>3
  <2>2. r.policy = dir[i] /\ r.fallback = "none"
    BY <1>1, <1>3, <2>1 DEF Resolve
  <2>3. QED
    BY <1>2, <2>1, <2>2
<1>4. CASE k \notin DOMAIN registry
  <2>1. r.policy = default /\ r.fallback # "none"
    BY <1>4 DEF Resolve
  <2>2. default # None <=> \E i \in DOMAIN dir : dir[i].tenant = "default"
    BY <1>1, <1>2 DEF Defaults
  <2>3. default # None => \E i \in DOMAIN dir : default = dir[i] /\ dir[i].tenant = "default"
    BY <1>1, <1>2 DEF Defaults
  <2>4. QED
    BY <1>1, <1>2, <1>4, <2>1, <2>2, <2>3
<1>5. QED
  BY <1>3, <1>4

\* What is known of the request being served: its policy is the one resolve has
\* found, and its decision is one of this policy.
Served ==
    /\ phase # "ready" => request = None
    /\ request = None => decision = None
    /\ request # None =>
          /\ resolution = Resolve(request.tenant, request.domain)
          /\ resolution.policy = None <=> decision = None
          /\ decision # None =>
                /\ Fitting(decision, resolution.policy)
                /\ Broken(decision, request.fleet)
                /\ Capped(decision, request, resolution.policy)

LEMMA UnchangedServed == Served /\ UNCHANGED policyVars => Served'
BY DEF Served, policyVars, Resolve, Known, Fitting, Broken, Capped

LEMMA ServeServed ==
    ASSUME Loaded, NEW req, req # None, req.override \in Classes \cup {"none"}, Serve(req)
    PROVE  Served'
<1>1. /\ phase = "ready" /\ request' = req
      /\ resolution' = Resolve(req.tenant, req.domain)
      /\ decision' = IF resolution'.policy = None THEN None ELSE Decide(req, resolution'.policy)
      /\ UNCHANGED <<dir, phase, pos, registry, default, errors>>
  BY DEF Serve
<1>2. PICK r : r = Resolve(req.tenant, req.domain)
  OBVIOUS
<1>3. resolution' = r /\ Resolve(req.tenant, req.domain)' = r
  BY <1>1, <1>2 DEF Resolve, Known
<1>4. CASE r.policy = None
  BY <1>1, <1>3, <1>4 DEF Served
<1>5. CASE r.policy # None
  <2>1. r.policy \in Document /\ Valid(r.policy)
    BY <1>1, <1>2, <1>5, Resolved
  <2>2. decision' = Decide(req, r.policy)
    BY <1>1, <1>3, <1>5
  <2>3. /\ Fitting(decision', r.policy) /\ Broken(decision', req.fleet)
        /\ Capped(decision', req, r.policy) /\ decision' # None
    BY <2>1, <2>2, DecideFits
  <2>4. QED
    BY <1>1, <1>3, <1>5, <2>3 DEF Served, Fitting, Broken, Capped
<1>6. QED
  BY <1>4, <1>5

LEMMA EscalateServed ==
    ASSUME Served, Escalate
    PROVE  /\ Served'
           /\ decision # None /\ decision' # None
           /\ decision'.pii = decision.pii /\ decision'.cached = decision.cached
<1>1. /\ decision # None /\ decision.effective # "critical"
      /\ UNCHANGED <<dir, phase, pos, registry, default, errors, request, resolution>>
  BY DEF Escalate
<1>2. PICK n : n = NextClass(decision.effective)
  OBVIOUS
<1>3. decision' = DecisionFor(n, n, "escalation", resolution.policy)
  BY <1>2 DEF Escalate
<1>4. request # None /\ Fitting(decision, resolution.policy)
  BY <1>1 DEF Served
<1>5. n \in Classes
  BY <1>1, <1>2, <1>4, NextClasses DEF Fitting, Classes
<1>6. decision' # None
  BY <1>3, NoDecision
<1>7. /\ decision'.base = n /\ decision'.effective = n /\ decision'.reason = "escalation"
      /\ decision'.pii = resolution.policy.pii /\ decision'.cached = resolution.policy.cached
  BY <1>3 DEF DecisionFor
<1>8. decision.pii = resolution.policy.pii /\ decision.cached = resolution.policy.cached
  BY <1>4 DEF Fitting, DecisionFor
<1>9. /\ Fitting(decision', resolution.policy)
      /\ Broken(decision', request.fleet) /\ Capped(decision', request, resolution.policy)
  BY <1>3, <1>5, <1>7 DEF Fitting, Broken, Capped
<1>10. Resolve(request.tenant, request.domain)' = Resolve(request.tenant, request.domain)
  BY <1>1 DEF Resolve, Known
<1>11. Served'
  BY <1>1, <1>4, <1>6, <1>9, <1>10 DEF Served, Fitting, Broken, Capped
<1>12. QED
  BY <1>1, <1>6, <1>7, <1>8, <1>11

\* The request that Call serves.
RequestOf(c) ==
    [tenant |-> keys[c.key], domain |-> c.domain, score |-> Tenths(Score(c.features)),
     override |-> c.override, fleet |-> c.fleet]

LEMMA RequestIsRequest ==
    ASSUME NEW c \in Callers
    PROVE  RequestOf(c) # None /\ RequestOf(c).override \in Classes \cup {"none"}
BY CallersAssumption DEF RequestOf, None

LEMMA ServedStep == Loaded /\ Served /\ [PrepNext]_allVars => Served'
<1> SUFFICES ASSUME Loaded, Served, [PrepNext]_allVars PROVE Served'
  OBVIOUS
<1>1. CASE Load
  <2>1. CASE LoadFile
    <3>1. /\ phase = "loading" /\ UNCHANGED <<phase, request, resolution, decision>>
      BY <2>1 DEF LoadFile, NotLoading
    <3>2. QED
      BY <3>1 DEF Served
  <2>2. CASE FinishLoading
    <3>1. request = None /\ UNCHANGED <<request, resolution, decision>>
      BY <2>2 DEF FinishLoading, Served
    <3>2. QED
      BY <3>1 DEF Served
  <2>3. QED
    BY <1>1, <2>1, <2>2, UnchangedServed DEF Load, Aborted
<1>2. CASE UNCHANGED policyVars
  BY <1>2, UnchangedServed
<1>3. ASSUME NEW c \in Callers, Call(c) PROVE Served'
  <2>1. Serve(RequestOf(c))
    BY <1>3 DEF Call, RequestOf
  <2>2. QED
    BY <2>1, RequestIsRequest, ServeServed
<1>4. CASE NextAttempt
  BY <1>4, EscalateServed DEF NextAttempt
<1>5. CASE Leave
  <2>1. CASE Respond
    BY <2>1 DEF Respond, Served
  <2>2. QED
    BY <1>5, <2>1, <1>2 DEF Leave
<1>6. ASSUME NEW c \in Callers, Unauthorized(c) PROVE UNCHANGED policyVars
  BY <1>6 DEF Unauthorized
<1>7. CASE CacheAnswers \/ CheckInput \/ Infer
           \/ \E verdict \in {"correct", "incorrect", "skipped", "unverifiable"} : Finish(verdict)
  BY <1>2, <1>7 DEF CacheAnswers, CheckInput, Infer, Finish
<1>8. QED
  BY <1>1, <1>2, <1>3, <1>4, <1>5, <1>6, <1>7 DEF PrepNext, allVars

LEMMA PolicyInvariance == PrepSpec => [](Loaded /\ Served)
<1>1. PrepInit => Loaded /\ Served
  BY InitLoaded DEF PrepInit, Init, Served
<1>2. (Loaded /\ Served) /\ [PrepNext]_allVars => (Loaded /\ Served)'
  BY LoadStep, ServedStep
<1>3. QED
  BY <1>1, <1>2, PTL DEF PrepSpec

\* Whatever policies are there, a request is governed by that of its tenant and
\* domain or by the default one, and only without both by none.
LEMMA ServedGoverned == Loaded /\ Served => GovernedByOwnPolicy
<1> SUFFICES ASSUME Loaded, Served, request # None PROVE
        /\ resolution.fallback = "none" =>
              Key(resolution.policy) = <<request.tenant, request.domain>>
        /\ resolution.fallback # "none" =>
              /\ <<request.tenant, request.domain>> \notin {Key(dir[i]) : i \in DOMAIN dir}
              /\ resolution.policy # None => resolution.policy.tenant = "default"
        /\ decision = None <=>
              /\ resolution.fallback # "none"
              /\ \A i \in DOMAIN dir : dir[i].tenant # "default"
  BY DEF GovernedByOwnPolicy
<1>1. /\ phase = "ready"
      /\ resolution = Resolve(request.tenant, request.domain)
      /\ resolution.policy = None <=> decision = None
  BY DEF Served, Loaded
<1>2. PICK r, t, d : r = resolution /\ t = request.tenant /\ d = request.domain
  OBVIOUS
<1>3. r = Resolve(t, d)
  BY <1>1, <1>2
<1>4. /\ r.policy # None =>
            \E i \in DOMAIN dir :
               /\ r.policy = dir[i] /\ dir[i] \in Document /\ Valid(dir[i])
               /\ r.fallback # "none" => dir[i].tenant = "default"
      /\ r.fallback = "none" => Key(r.policy) = <<t, d>>
      /\ r.fallback # "none" => <<t, d>> \notin {Key(dir[i]) : i \in DOMAIN dir}
      /\ r.policy = None <=>
            r.fallback # "none" /\ \A i \in DOMAIN dir : dir[i].tenant # "default"
  BY <1>1, <1>3, Resolved
<1>5. QED
  BY <1>1, <1>2, <1>4

\* In every state of the gateway a request is governed by the policy of its own
\* tenant and domain or, where there is none, by the default one: resolve never
\* crosses tenants, and leaves a request undecided only without a default.
THEOREM Governed == PrepSpec => []GovernedByOwnPolicy
BY PolicyInvariance, ServedGoverned, PTL

LEMMA ServedWithin == Loaded /\ Served => DecisionWithinPolicy
<1> SUFFICES ASSUME Loaded, Served, decision # None PROVE DecisionWithinPolicy
  BY DEF DecisionWithinPolicy
<1>1. /\ phase = "ready" /\ request # None
      /\ resolution = Resolve(request.tenant, request.domain)
      /\ resolution.policy # None
      /\ Fitting(decision, resolution.policy)
      /\ Broken(decision, request.fleet)
      /\ Capped(decision, request, resolution.policy)
  BY DEF Served, Loaded
<1>2. PICK p \in Document : p = resolution.policy /\ Valid(p)
  <2>1. PICK r, t, d : r = resolution /\ t = request.tenant /\ d = request.domain
    OBVIOUS
  <2>2. r = Resolve(t, d) /\ r.policy # None
    BY <1>1, <2>1
  <2>3. \E i \in DOMAIN dir : r.policy = dir[i] /\ dir[i] \in Document /\ Valid(dir[i])
    BY <1>1, <2>2, Resolved
  <2>4. QED
    BY <2>1, <2>3
<1>3. /\ decision.base \in Classes /\ decision.effective \in Classes
      /\ decision.model = p.model[decision.effective]
      /\ decision.tokens = p.tokens[decision.effective]
      /\ decision.tier = PriorityTier(decision.base)
  BY <1>1, <1>2 DEF Fitting, DecisionFor
<1>4. decision.effective # "low" => decision.model = "deepseek-r1-7b"
  BY <1>2, <1>3, ValidDocument
<1>5. decision.tier = "high" <=> decision.base = "critical"
  BY <1>3 DEF PriorityTier, Classes
<1>6. QED
  BY <1>1, <1>2, <1>3, <1>4, <1>5 DEF Broken, Capped, DecisionWithinPolicy

\* Under any policy that loads, a decision has the model and the tokens of its
\* class, and no circuit breaker, override or escalation takes it elsewhere.
THEOREM DecisionsOfPolicy == PrepSpec => []DecisionWithinPolicy
BY PolicyInvariance, ServedWithin, PTL
-------------------------------------------------------------------------------
(* The order of prompts *)

LEMMA LoadedMonotone == Loaded => RicherNeverLower
<1> SUFFICES ASSUME Loaded, phase = "ready",
                    NEW p \in {c.features : c \in Callers}, NEW q \in {c.features : c \in Callers},
                    NEW k \in DOMAIN registry, NEW f \in Fleets, Richer(q, p)
             PROVE  Rank[Assign(Tenths(Score(p)), registry[k], f).effective]
                       <= Rank[Assign(Tenths(Score(q)), registry[k], f).effective]
  BY DEF RicherNeverLower
<1>1. p \in Features /\ q \in Features
  BY CallersAssumption
<1>2. PICK d \in Document : d = registry[k] /\ Valid(d)
  <2>1. Faultless /\ Before = DOMAIN dir
    BY LoadedIsFaultless DEF Loaded
  <2>2. PICK i \in DOMAIN dir : registry[k] = dir[i]
    BY <2>1 DEF Loaded, Registered
  <2>3. QED
    BY <2>1, <2>2 DEF Faultless, Loaded
<1>3. PICK a \in Nat, b \in Nat : a = Tenths(Score(p)) /\ b = Tenths(Score(q)) /\ a <= b
  BY <1>1, ScoreNatural, ScoreMonotone, TenthsMonotone
<1>4. BaseClass(a, d) \in Classes /\ BaseClass(b, d) \in Classes
      /\ Rank[BaseClass(a, d)] <= Rank[BaseClass(b, d)]
  BY <1>2, <1>3, BaseClassIsClass, BaseClassMonotone
<1>5. Rank[Effective(BaseClass(a, d), f)] <= Rank[Effective(BaseClass(b, d), f)]
  BY <1>4, EffectiveMonotone
<1>6. QED
  BY <1>2, <1>3, <1>5, AssignEffective

\* Over all counts and signals a prompt can have, and all thresholds a policy can
\* have, more of everything the scorer looks for never lowers the class.
THEOREM ScoringMonotone == PrepSpec => []RicherNeverLower
BY PolicyInvariance, LoadedMonotone, PTL
-------------------------------------------------------------------------------
(* Keys and texts *)

\* What is known of the call between its key and its answer: only an
\* authenticated one has a request; the text is redacted as soon as there is a
\* decision, at the level the decision keeps through every escalation; and a
\* consumer has this text or none.
Prepared ==
    /\ deployment \in Deployments /\ keys = LoadTenantKeyMap(deployment)
    /\ stage \in Stages
    /\ stage = "idle" => request = None
    /\ decision = None <=> stage \in {"idle", "refused"}
    /\ request # None => Authenticated(caller.key) /\ request.tenant = keys[caller.key]
    /\ decision = None => seen = Unseen
    /\ decision # None => redacted \cap Detected(decision.pii) = {}
    /\ seen \in [Consumers -> {{}, redacted}]
    /\ seen["cache"] \cap Residual = {}

LEMMA KeysAreGranted ==
    ASSUME deployment \in Deployments, keys = LoadTenantKeyMap(deployment),
           NEW key, Authenticated(key)
    PROVE  Granted(key) = keys[key] /\ Granted(key) # ""
<1>1. CASE deployment.file.state = "absent"
  BY <1>1 DEF LoadTenantKeyMap, Authenticated, Granted
<1>2. CASE deployment.file.state = "broken"
  BY <1>2 DEF LoadTenantKeyMap, NoKeys, Authenticated
<1>3. CASE deployment.file.state = "mapping"
  BY <1>3 DEF LoadTenantKeyMap, Authenticated, Granted
<1>4. QED
  BY <1>1, <1>2, <1>3, DeploymentsAssumption

LEMMA HandedText ==
    ASSUME seen \in [Consumers -> {{}, redacted}], UNCHANGED redacted,
           NEW c \in Consumers, Hand(c, redacted),
           c = "cache" => redacted \cap Residual = {}, seen["cache"] \cap Residual = {}
    PROVE  /\ seen' \in [Consumers -> {{}, redacted'}]
           /\ seen'["cache"] \cap Residual = {}
<1>1. seen[c] \cup redacted = redacted
  OBVIOUS
<1>2. seen' = [seen EXCEPT ![c] = redacted]
  BY <1>1 DEF Hand
<1>3. QED
  BY <1>2 DEF Consumers

LEMMA CallPrepared ==
    ASSUME Prepared, NEW c \in Callers, Call(c)
    PROVE  Prepared'
<1>1. /\ stage = "idle" /\ Authenticated(c.key) /\ caller' = c
      /\ UNCHANGED <<deployment, keys>>
      /\ request' = RequestOf(c)
  BY DEF Call, Serve, RequestOf
<1>2. seen = Unseen /\ Unseen \in [Consumers -> {{}, redacted}]
      /\ Unseen \in [Consumers -> {{}, redacted'}] /\ Unseen["cache"] \cap Residual = {}
  BY <1>1 DEF Prepared, Unseen, Consumers
<1>3. Authenticated(caller.key)' /\ request'.tenant = keys'[caller'.key]
  BY <1>1 DEF RequestOf, Authenticated
<1>4. CASE decision' = None /\ stage' = "refused" /\ UNCHANGED <<redacted, seen>>
  BY <1>1, <1>2, <1>3, <1>4 DEF Prepared, Stages
<1>5. CASE decision' # None /\ redacted' = Redact(c.entities, decision'.pii)
           /\ UseCache' /\ stage' = "lookup" /\ Hand("cache", redacted')
  <2>1. redacted' \cap Detected(decision.pii)' = {}
    BY <1>1, <1>5 DEF Redact, Detected
  <2>2. seen' = [Unseen EXCEPT !["cache"] = redacted'] /\ redacted' \cap Residual = {}
    BY <1>2, <1>5 DEF Hand, UseCache, Unseen, Consumers
  <2>3. seen' \in [Consumers -> {{}, redacted'}] /\ seen'["cache"] \cap Residual = {}
    BY <2>2 DEF Unseen, Consumers
  <2>4. QED
    BY <1>1, <1>3, <1>5, <2>1, <2>3 DEF Prepared, Stages
<1>6. CASE decision' # None /\ redacted' = Redact(c.entities, decision'.pii)
           /\ stage' = "admitted" /\ UNCHANGED seen
  <2>1. redacted' \cap Detected(decision.pii)' = {}
    BY <1>1, <1>6 DEF Redact, Detected
  <2>2. QED
    BY <1>1, <1>2, <1>3, <1>6, <2>1 DEF Prepared, Stages
<1>7. QED
  BY <1>4, <1>5, <1>6 DEF Call

\* What the later steps of a call share: the request, its key and its text stay.
SameCall ==
    /\ UNCHANGED <<deployment, keys, caller, redacted, request>>
    /\ stage' \in Stages \ {"idle", "refused"}
    /\ decision # None /\ decision' # None /\ decision'.pii = decision.pii

LEMMA SameCallPrepared ==
    ASSUME Prepared, SameCall,
           seen' \in [Consumers -> {{}, redacted}], seen'["cache"] \cap Residual = {}
    PROVE  Prepared'
BY DEF Prepared, SameCall, Authenticated, Detected

LEMMA FinishPrepared ==
    ASSUME Prepared, NEW verdict, Finish(verdict)
    PROVE  Prepared'
<1>1. SameCall
  BY DEF Finish, Prepared, SameCall, Stages, policyVars
<1>2. seen \in [Consumers -> {{}, redacted}] /\ seen["cache"] \cap Residual = {}
  BY DEF Prepared
<1>3. PICK a, b : /\ seen' = [seen EXCEPT !["cache"] = a, !["judge"] = b]
                  /\ a = IF UseCache /\ verdict # "incorrect"
                         THEN seen["cache"] \cup redacted ELSE seen["cache"]
                  /\ b \in {seen["judge"], seen["judge"] \cup redacted}
  BY DEF Finish
<1>4. /\ seen["cache"] \in {{}, redacted} /\ seen["judge"] \in {{}, redacted}
  BY <1>2 DEF Consumers
<1>5. a \in {{}, redacted} /\ b \in {{}, redacted} /\ a \cap Residual = {}
  BY <1>2, <1>3, <1>4 DEF UseCache
<1>6. seen' \in [Consumers -> {{}, redacted}] /\ seen'["cache"] \cap Residual = {}
  BY <1>2, <1>3, <1>5 DEF Consumers
<1>7. QED
  BY <1>1, <1>6, SameCallPrepared

LEMMA PreparedStep == Loaded /\ Served /\ Prepared /\ [PrepNext]_allVars => Prepared'
<1> SUFFICES ASSUME Loaded, Served, Prepared, [PrepNext]_allVars PROVE Prepared'
  OBVIOUS
<1>1. seen \in [Consumers -> {{}, redacted}] /\ seen["cache"] \cap Residual = {}
  BY DEF Prepared
<1>2. CASE UNCHANGED <<request, decision>> /\ UNCHANGED prepVars
  BY <1>2 DEF prepVars, Prepared, Authenticated, Detected
<1>3. CASE Load
  BY <1>2, <1>3 DEF Load, LoadFile, NotLoading, FinishLoading, Aborted, policyVars
<1>4. ASSUME NEW c \in Callers, Unauthorized(c) PROVE Prepared'
  BY <1>4 DEF Unauthorized, policyVars, Prepared, Stages, Authenticated, Detected
<1>5. CASE CacheAnswers
  <2>1. SameCall /\ UNCHANGED seen
    BY <1>5 DEF CacheAnswers, Prepared, SameCall, Stages, policyVars
  <2>2. QED
    BY <1>1, <2>1, SameCallPrepared
<1>6. CASE CheckInput
  <2>1. SameCall /\ (UNCHANGED seen \/ Hand("guardrail", redacted))
    BY <1>6 DEF CheckInput, Prepared, SameCall, Stages, policyVars
  <2>2. seen' \in [Consumers -> {{}, redacted}] /\ seen'["cache"] \cap Residual = {}
    BY <1>1, <2>1, HandedText DEF SameCall, Consumers
  <2>3. QED
    BY <2>1, <2>2, SameCallPrepared
<1>7. CASE Infer
  <2>1. SameCall /\ Hand("model", redacted)
    BY <1>7 DEF Infer, Prepared, SameCall, Stages, policyVars
  <2>2. seen' \in [Consumers -> {{}, redacted}] /\ seen'["cache"] \cap Residual = {}
    BY <1>1, <2>1, HandedText DEF SameCall, Consumers
  <2>3. QED
    BY <2>1, <2>2, SameCallPrepared
<1>8. CASE NextAttempt
  <2>1. SameCall /\ UNCHANGED seen
    BY <1>8, EscalateServed DEF NextAttempt, Escalate, SameCall, Stages
  <2>2. QED
    BY <1>1, <2>1, SameCallPrepared
<1>9. CASE Leave
  <2>1. request' = None /\ decision' = None
    BY <1>9 DEF Leave, Respond, policyVars, Served
  <2>2. QED
    BY <1>9, <2>1 DEF Leave, Prepared, Stages, Unseen, Consumers
<1>10. QED
  BY <1>2, <1>3, <1>4, <1>5, <1>6, <1>7, <1>8, <1>9, CallPrepared, FinishPrepared
  DEF PrepNext, allVars, policyVars

LEMMA PreparationInvariance == PrepSpec => [](Loaded /\ Served /\ Prepared)
<1>1. PrepInit => Prepared
  BY DEF PrepInit, Init, Prepared, Stages, Unseen, Consumers
<1>2. Loaded /\ Served /\ Prepared /\ [PrepNext]_allVars => Prepared'
  BY PreparedStep
<1>3. QED
  BY <1>1, <1>2, PolicyInvariance, PTL DEF PrepSpec

LEMMA PreparedFailsClosed == Loaded /\ Served /\ Prepared => KeysFailClosed
<1> SUFFICES ASSUME Loaded, Served, Prepared PROVE KeysFailClosed
  OBVIOUS
<1>1. request = None => decision = None /\ seen = Unseen
  BY DEF Served, Prepared
<1>2. request # None =>
        Granted(caller.key) # "" /\ request.tenant = Granted(caller.key)
  BY KeysAreGranted DEF Prepared
<1>3. decision # None => resolution.policy.tenant \in {request.tenant, "default"}
  <2> SUFFICES ASSUME decision # None
               PROVE  resolution.policy.tenant \in {request.tenant, "default"}
    OBVIOUS
  <2>1. GovernedByOwnPolicy /\ request # None /\ resolution.policy # None
    BY <1>1, ServedGoverned DEF Served
  <2>2. CASE resolution.fallback = "none"
    BY <2>1, <2>2 DEF GovernedByOwnPolicy, Key
  <2>3. CASE resolution.fallback # "none"
    BY <2>1, <2>3 DEF GovernedByOwnPolicy
  <2>4. QED
    BY <2>2, <2>3
<1>4. QED
  BY <1>1, <1>2, <1>3 DEF KeysFailClosed

\* For every deployment: without a key of the source that counts there is no
\* request and no consumer sees anything, and the policy is that of the key's
\* tenant or the default one, whatever the body of the call names.
THEOREM FailsClosed == PrepSpec => []KeysFailClosed
BY PreparationInvariance, PreparedFailsClosed, PTL

LEMMA PreparedRedacted == Served /\ Prepared => OnlyRedactedLeaves
<1> SUFFICES ASSUME Served, Prepared PROVE OnlyRedactedLeaves
  OBVIOUS
<1>1. decision # None => decision.pii = resolution.policy.pii
  BY DEF Served, Fitting, DecisionFor
<1>2. decision # None =>
        \A c \in Consumers :
           seen[c] \cap Detected(resolution.policy.pii) = {} /\ seen[c] \in {{}, redacted}
  BY <1>1 DEF Prepared
<1>3. QED
  BY <1>2 DEF Prepared, OnlyRedactedLeaves

\* For every prompt, policy and number of attempts: what the cache, the
\* guardrail, the model and the judge are handed is one redacted text, and the
\* cache never holds residual personal data.
THEOREM RedactedLeaves == PrepSpec => []OnlyRedactedLeaves
BY PreparationInvariance, PreparedRedacted, PTL
===============================================================================
