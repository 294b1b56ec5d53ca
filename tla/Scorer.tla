-------------------------------- MODULE Scorer --------------------------------
(***************************************************************************)
(* complexity_scorer: the score of a prompt out of what its regular        *)
(* expressions find in it.  A prompt is known by those findings.  Scores   *)
(* are exact, in sixtieths of a point, in which every group is a whole     *)
(* number; the gateway leaves the calibration weights at 1.                *)
(***************************************************************************)
EXTENDS Integers

\* What is found or not, by one search each.
Signals == {"multi_step", "code", "math", "logic", "json",
            "structured", "sections", "constraints"}

\* What is counted; sentences are the pieces between full stops.
Counts == {"tier3", "tier2", "tier1", "qmarks", "sentences", "bullets", "chars"}

Features == [count : [Counts -> Nat], signals : SUBSET Signals, blank : BOOLEAN]

AtMost(cap, n) == IF n > cap THEN cap ELSE n
If(p, signal, points) == IF signal \in p.signals THEN points ELSE 0

ConstraintDensity(p) ==
    AtMost(180, 90 * p.count["tier3"] + 60 * p.count["tier2"] + 30 * p.count["tier1"])

StructuralSignals(p) ==
    AtMost(120, AtMost(30, 10 * p.count["qmarks"]) + AtMost(30, 3 * p.count["sentences"])
                  + AtMost(30, 6 * p.count["bullets"]) + If(p, "multi_step", 30))

TechnicalDomain(p) ==
    AtMost(120, If(p, "code", 60) + If(p, "math", 60) + If(p, "logic", 90) + If(p, "json", 30))

\* (mutant) the longest prompts fall through the buckets.
LengthSignalOpen(p) ==
    CASE p.count["chars"] >= 200 /\ p.count["chars"] < 800 -> 30
      [] p.count["chars"] >= 800 /\ p.count["chars"] < 2000 -> 60
      [] OTHER -> 0

\* Four characters are a token: 50, 200 and 500 tokens part the buckets.
LengthSignal(p) ==
    CASE p.count["chars"] < 200 -> 0
      [] p.count["chars"] >= 200 /\ p.count["chars"] < 800 -> 30
      [] p.count["chars"] >= 800 /\ p.count["chars"] < 2000 -> 60
      [] OTHER -> 90

OutputFormat(p) ==
    AtMost(90, If(p, "structured", 30) + If(p, "sections", 30) + If(p, "constraints", 60))

Score(p) ==
    IF p.blank THEN 0
    ELSE AtMost(600, ConstraintDensity(p) + StructuralSignals(p) + TechnicalDomain(p)
                       + LengthSignal(p) + OutputFormat(p))

\* The score in tenths, rounded up: on the same side of every threshold that is
\* a whole number of tenths as the score itself.
Tenths(points) == (points + 5) \div 6

\* q has every finding of p.
Richer(q, p) ==
    /\ \A c \in Counts : p.count[c] <= q.count[c]
    /\ p.signals \subseteq q.signals
    /\ q.blank => p.blank
===============================================================================
