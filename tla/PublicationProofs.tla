--------------------------- MODULE PublicationProofs ---------------------------
(***************************************************************************)
(* The regression gate is sound for any datasets, numbers of examples and  *)
(* thresholds, with blocked runs and runs repeated in vain, and the script *)
(* publishes what was measured.                                            *)
(*                                                                         *)
(* GateSound is not inductive: that a pass says something of right answers *)
(* needs each file to be empty or the sum of a complete run, in which no   *)
(* more answers were counted correct than were right and none that was     *)
(* right was counted incorrect, and the running totals to be on the way    *)
(* to that.  What the script makes of a README needs the shapes one can    *)
(* take: with a block, with no markers, or what becomes of one that has    *)
(* lost a marker, among them those in which the markers are crossed.       *)
(***************************************************************************)
EXTENDS Publication, SequenceTheorems, TLAPS

\* The counts of n examples of dataset d, r of them answered right.
Tallied(d, t, r, n) ==
    /\ t \in [Outcomes -> Nat] /\ r \in Nat
    /\ n = t["correct"] + t["incorrect"] + t["unverifiable"] + t["error"]
    /\ t["correct"] <= r
    /\ r + t["incorrect"] + t["error"] <= n
    /\ Kind[d] = "adversarial" => t["unverifiable"] = 0

\* A file of zeros, or of a complete run.
FileOk(f) ==
    \/ f.count = 0 /\ f.right = 0
    \/ /\ f.dataset \in Datasets /\ f.count = Examples[f.dataset]
       /\ Tallied(f.dataset, f.tally, f.right, f.count)

PInv ==
    /\ dataset = "none" => tally = NoTally /\ right = 0
    /\ dataset # "none" =>
          /\ side \in Sides /\ dataset \in Datasets /\ left \in Nat
          /\ Tallied(dataset, tally, right, Examples[dataset] - left)
    /\ DOMAIN file = Sides /\ \A s \in Sides : FileOk(file[s])
    /\ gate # "open" => side = "gate"
    /\ gate = "passed" => Passes(file["baseline"], file["governed"])
-------------------------------------------------------------------------------
(* Arithmetic and counts *)

\* The gate compares fractions by cross-multiplication.
LEMMA Cancel ==
    ASSUME NEW x \in Int, NEW y \in Int, NEW n \in Nat, n > 0, x * n <= y * n
    PROVE  x <= y
<1> SUFFICES ASSUME x > y PROVE FALSE
  OBVIOUS
<1>1. PICK d \in Nat : x = y + d /\ d > 0
  <2>1. x - y \in Nat /\ x - y > 0 /\ x = y + (x - y)
    OBVIOUS
  <2>2. QED
    BY <2>1
<1>2. x * n = y * n + d * n
  BY <1>1
<1>3. d * n > 0
  BY <1>1
<1>4. y * n \in Int /\ d * n \in Int
  BY <1>1
<1>5. QED
  BY <1>2, <1>3, <1>4

LEMMA Times ==
    ASSUME NEW x \in Int, NEW y \in Int, NEW n \in Nat, x <= y
    PROVE  x * n \in Int /\ y * n \in Int /\ x * n <= y * n
<1>1. x * n \in Int /\ y * n \in Int
  OBVIOUS
<1>2. CASE n = 0
  BY <1>2
<1>3. CASE n > 0
  <2>1. x * n > y * n => (y + 1) * n <= x * n
    <3>1. PICK d \in Nat : y = x + d
      <4>1. y - x \in Nat /\ y = x + (y - x)
        OBVIOUS
      <4>2. QED
        BY <4>1
    <3>2. y * n = x * n + d * n /\ d * n >= 0
      BY <3>1
    <3>3. QED
      BY <1>1, <3>2
  <2>2. x * n > y * n => y + 1 <= x
    BY <1>3, <2>1, Cancel
  <2>3. QED
    BY <1>1, <2>2
<1>4. QED
  BY <1>1, <1>2, <1>3

\* Shares that are compared, c of j on each side, say this of the whole: each
\* of the n - jg answers nobody judged may hide one.
LEMMA FallOfShares ==
    ASSUME NEW cb \in Nat, NEW jb \in Nat, NEW cg \in Nat, NEW jg \in Nat, NEW n \in Nat,
           NEW t \in Nat, cb <= jb, jb <= n, jg <= n, jb > 0,
           100 * (cb * jg - cg * jb) <= t * jb * jg
    PROVE  100 * (cb - cg) <= t * n + 100 * (n - jg)
<1>1. PICK tb \in Nat : tb = t * jb
  OBVIOUS
<1>2. t * jb * jg = jg * tb /\ t * n * jb = n * tb
  BY <1>1
<1>3. jg * tb <= n * tb /\ jg * tb \in Int /\ n * tb \in Int
  BY Times
<1>4. cb * (jb - jg) <= (n - jg) * jb
  <2>1. CASE jb >= jg
    <3>1. PICK d \in Nat : d = jb - jg
      BY <2>1
    <3>2. cb * d <= jb * d
      BY Times
    <3>3. d * jb <= (n - jg) * jb
      BY <3>1, Times
    <3>4. jb * d = d * jb
      OBVIOUS
    <3>5. cb * d \in Int /\ jb * d \in Int /\ (n - jg) * jb \in Int
      OBVIOUS
    <3>6. cb * d <= (n - jg) * jb
      BY <3>2, <3>3, <3>4, <3>5
    <3>7. QED
      BY <3>1, <3>6
  <2>2. CASE jb < jg
    <3>1. (jb - jg) * cb <= 0 * cb
      BY <2>2, Times
    <3>2. 0 * jb <= (n - jg) * jb
      BY Times
    <3>3. QED
      BY <3>1, <3>2
  <2>3. QED
    BY <2>1, <2>2
<1>5. PICK x1 \in Int, x2 \in Int, x3 \in Int, x4 \in Int, x5 \in Int, x6 \in Int :
         /\ x1 = cb * jb /\ x2 = cb * jg /\ x3 = cg * jb /\ x4 = n * jb /\ x5 = jg * jb
         /\ x6 = n * tb
  OBVIOUS
<1>6. cb * (jb - jg) = x1 - x2 /\ (n - jg) * jb = x4 - x5
  BY <1>5
<1>7. 100 * (x2 - x3) <= x6
  BY <1>2, <1>3, <1>5
<1>8. 100 * (x1 - x3) <= x6 + 100 * (x4 - x5)
  BY <1>4, <1>6, <1>7
<1>9. (100 * (cb - cg)) * jb = 100 * (x1 - x3)
  BY <1>5
<1>10. (t * n + 100 * (n - jg)) * jb = x6 + 100 * (x4 - x5)
  <2>1. PICK tn \in Int : tn = t * n
    OBVIOUS
  <2>2. (tn + 100 * (n - jg)) * jb = tn * jb + 100 * ((n - jg) * jb)
    OBVIOUS
  <2>3. tn * jb = x6
    BY <1>2, <1>5, <2>1
  <2>4. QED
    BY <1>6, <2>1, <2>2, <2>3
<1>11. 100 * (cb - cg) \in Int /\ t * n + 100 * (n - jg) \in Int
  OBVIOUS
<1>12. QED
  BY <1>8, <1>9, <1>10, <1>11, Cancel

\* No answer counts as correct that was not right, none as incorrect that was.
LEMMA JudgementFair ==
    ASSUME NEW d \in Datasets, NEW j \in Judgements(d) \cup {NoAnswer}
    PROVE  /\ j.outcome \in Outcomes
           /\ j.outcome = "correct" => j.right
           /\ j.outcome \in {"incorrect", "error"} => ~j.right
           /\ Kind[d] = "adversarial" => j.outcome # "unverifiable"
<1>1. CASE j = NoAnswer
  BY <1>1 DEF NoAnswer, Outcomes
<1>2. CASE Kind[d] = "adversarial" /\ j \in Judgements(d)
  <2>1. PICK r \in BOOLEAN :
           j = [outcome |-> IF r THEN "correct" ELSE "incorrect", right |-> r]
    BY <1>2 DEF Judgements
  <2>2. QED
    BY <2>1 DEF Outcomes
<1>3. CASE Kind[d] = "enterprise_synthetic" /\ j \in Judgements(d)
  <2>1. PICK r \in BOOLEAN : j = [outcome |-> "unverifiable", right |-> r]
    BY <1>3 DEF Judgements
  <2>2. QED
    BY <1>3, <2>1 DEF Outcomes
<1>4. CASE Kind[d] \notin {"adversarial", "enterprise_synthetic"} /\ j \in Judgements(d)
  <2>0. PICK c \in Channels, v \in Verdicts(d) : j = JudgementOf(c, v)
    BY <1>4 DEF Judgements
  <2>1. j = [outcome |-> HarnessDecision(c, VerifyReply(v, FALSE)), right |-> v = "correct"]
    BY <2>0 DEF JudgementOf
  <2>2. VerifyReply(v, FALSE).passed <=> v = "correct"
    BY DEF VerifyReply
  <2>3. PICK reply : reply = VerifyReply(v, FALSE)
    OBVIOUS
  <2>4. \/ HarnessDecision(c, reply) = "unverifiable"
        \/ HarnessDecision(c, reply) = "correct" /\ reply.passed
        \/ HarnessDecision(c, reply) = "incorrect" /\ ~reply.passed
    BY DEF HarnessDecision
  <2>5. QED
    BY <1>4, <2>1, <2>2, <2>3, <2>4 DEF Outcomes
<1>5. QED
  BY <1>1, <1>2, <1>3, <1>4

LEMMA OneMore ==
    ASSUME NEW d \in Datasets, NEW t, NEW r, NEW n \in Int, Tallied(d, t, r, n),
           NEW j \in Judgements(d) \cup {NoAnswer}
    PROVE  Tallied(d, [t EXCEPT ![j.outcome] = @ + 1], IF j.right THEN r + 1 ELSE r, n + 1)
<1>1. PICK o \in Outcomes : o = j.outcome
  BY JudgementFair
<1>2. PICK u : u = [t EXCEPT ![o] = @ + 1]
  OBVIOUS
<1>3. u \in [Outcomes -> Nat]
  BY <1>2 DEF Tallied
<1>4. u[o] = t[o] + 1 /\ \A p \in Outcomes \ {o} : u[p] = t[p]
  BY <1>2 DEF Tallied
<1>5. CASE o = "correct"
  <2>1. j.right
    BY <1>1, <1>5, JudgementFair
  <2>2. Tallied(d, u, r + 1, n + 1)
    BY <1>3, <1>4, <1>5 DEF Tallied, Outcomes
  <2>3. QED
    BY <1>1, <1>2, <2>1, <2>2
<1>6. CASE o \in {"incorrect", "error"}
  <2>1. ~j.right
    BY <1>1, <1>6, JudgementFair
  <2>2. Tallied(d, u, r, n + 1)
    BY <1>3, <1>4, <1>6 DEF Tallied, Outcomes
  <2>3. QED
    BY <1>1, <1>2, <2>1, <2>2
<1>7. CASE o = "unverifiable"
  <2>1. Kind[d] # "adversarial"
    BY <1>1, <1>7, JudgementFair
  <2>2. Tallied(d, u, r, n + 1) /\ Tallied(d, u, r + 1, n + 1)
    BY <1>3, <1>4, <1>7, <2>1 DEF Tallied, Outcomes
  <2>3. QED
    BY <1>1, <1>2, <2>2
<1>8. QED
  BY <1>5, <1>6, <1>7 DEF Outcomes
-------------------------------------------------------------------------------
(* The inductive invariant *)

LEMMA InitPInv == PubInit => PInv
<1> SUFFICES ASSUME PubInit PROVE PInv
  OBVIOUS
<1> QED
  BY DEF PubInit, Init, PInv, FileOk, NoFile

LEMMA BlockedKeeps ==
    ASSUME PInv, NEW d \in Datasets, Blocked(d)
    PROVE  PInv'
<1>1. side \in Sides /\ gate = "open" /\ gate' = "open"
  BY DEF Blocked, Write, PInv, Sides
<1>2. /\ dataset' = "none" /\ tally' = NoTally /\ right' = 0
      /\ file' = [file EXCEPT ![side] = [NoFile EXCEPT !.dataset = d]]
  BY DEF Blocked, Write
<1>3. FileOk([NoFile EXCEPT !.dataset = d])
  BY DEF FileOk, NoFile
<1>4. QED
  BY <1>1, <1>2, <1>3 DEF PInv

LEMMA LoadKeeps ==
    ASSUME PInv, NEW d \in Datasets, Load(d)
    PROVE  PInv'
<1>1. /\ tally = NoTally /\ right = 0 /\ UNCHANGED <<side, tally, right, file, gate>>
      /\ dataset' = d /\ left' = Examples[d] /\ Examples[d] \in Nat
  BY ExamplesAssumption DEF Load, PInv
<1>2. side \in Sides /\ d # "none"
  BY ExamplesAssumption DEF Kind, Load
<1>3. Tallied(d, NoTally, 0, Examples[d] - Examples[d])
  BY <1>1 DEF Tallied, NoTally, Outcomes
<1>4. QED
  BY <1>1, <1>2, <1>3 DEF PInv

LEMMA RunExampleKeeps ==
    ASSUME PInv, RunExample
    PROVE  PInv'
<1>1. /\ dataset # "none" /\ side \in Sides /\ dataset \in Datasets /\ left \in Nat /\ left > 0
      /\ left' = left - 1 /\ UNCHANGED <<side, dataset, file, gate>>
      /\ Examples[dataset] \in Nat
      /\ Tallied(dataset, tally, right, Examples[dataset] - left)
  BY ExamplesAssumption DEF RunExample, PInv
<1>2. PICK j \in Judgements(dataset) \cup {NoAnswer} :
         /\ tally' = [tally EXCEPT ![j.outcome] = @ + 1]
         /\ right' = IF j.right THEN right + 1 ELSE right
  BY DEF RunExample
<1>3. PICK n \in Int : n = Examples[dataset] - left
  BY <1>1
<1>4. Tallied(dataset, tally', right', n + 1)
  BY <1>1, <1>2, <1>3, OneMore
<1>5. n + 1 = Examples[dataset] - left' /\ left' \in Nat
  BY <1>1, <1>3
<1>6. QED
  BY <1>1, <1>4, <1>5 DEF PInv

LEMMA WriteResultKeeps ==
    ASSUME PInv, WriteResult
    PROVE  PInv'
<1> DEFINE f == [dataset |-> dataset, count |-> Examples[dataset], tally |-> tally,
                 right |-> right]
<1>1. /\ dataset # "none" /\ dataset \in Datasets /\ left = 0
      /\ Examples[dataset] \in Nat
      /\ Tallied(dataset, tally, right, Examples[dataset] - 0)
  BY ExamplesAssumption DEF WriteResult, PInv
<1>2. Examples[dataset] - 0 = Examples[dataset]
  BY <1>1
<1>3. FileOk(f)
  BY <1>1, <1>2 DEF FileOk
<1>4. /\ dataset' = "none" /\ tally' = NoTally /\ right' = 0
      /\ file' = [file EXCEPT ![side] = f] /\ gate' = gate
      /\ side' = Following(side)
  BY DEF WriteResult, Write
<1> HIDE DEF f
<1>5. gate = "open"
  BY DEF PInv, WriteResult, Sides
<1>6. QED
  BY <1>3, <1>4, <1>5 DEF PInv

LEMMA GateKeeps ==
    ASSUME PInv, Gate
    PROVE  PInv'
<1>1. /\ UNCHANGED <<side, dataset, left, tally, right, file>> /\ side = "gate"
      /\ gate' = IF Passes(file["baseline"], file["governed"]) THEN "passed" ELSE "failed"
  BY DEF Gate
<1>2. PICK passes \in BOOLEAN : passes <=> Passes(file["baseline"], file["governed"])
  OBVIOUS
<1>3. gate' = "passed" => passes
  BY <1>1, <1>2
<1>4. PICK b, g : b = file["baseline"] /\ g = file["governed"]
  OBVIOUS
<1>5. gate' = "passed" => Passes(b, g)
  BY <1>2, <1>3, <1>4
<1>6. b = file'["baseline"] /\ g = file'["governed"]
  BY <1>1, <1>4
<1>7. gate' = "passed" => Passes(file["baseline"], file["governed"])'
  BY <1>5, <1>6
<1>8. QED
  BY <1>1, <1>7 DEF PInv

LEMMA RerunKeeps ==
    ASSUME PInv, NEW s \in Sides, Rerun(s)
    PROVE  PInv'
<1>1. FileOk([NoFile EXCEPT !.dataset = file[s].dataset])
  BY DEF FileOk, NoFile
<1>2. PICK f : f = [NoFile EXCEPT !.dataset = file[s].dataset]
  OBVIOUS
<1>3. /\ file' = [file EXCEPT ![s] = f] /\ gate' = "open"
      /\ UNCHANGED <<side, dataset, left, tally, right>>
  BY <1>2 DEF Rerun
<1>4. QED
  BY <1>1, <1>2, <1>3 DEF PInv

LEMMA StepPInv ==
    ASSUME PInv, [PubNext]_pubVars
    PROVE  PInv'
<1>1. CASE UNCHANGED vars
  <2>1. UNCHANGED <<side, dataset, left, tally, right, file, gate>>
    BY <1>1 DEF vars
  <2>2. gate' = "passed" => Passes(file["baseline"], file["governed"])'
    <3>1. PICK b, g : b = file["baseline"] /\ g = file["governed"]
      OBVIOUS
    <3>2. gate' = "passed" => Passes(b, g)
      BY <2>1, <3>1 DEF PInv
    <3>3. b = file'["baseline"] /\ g = file'["governed"]
      BY <2>1, <3>1
    <3>4. QED
      BY <3>2, <3>3
  <2>3. QED
    BY <2>1, <2>2 DEF PInv
<1>2. CASE Next
  <2>1. CASE \E d \in Datasets : Blocked(d) \/ Load(d)
    BY <2>1, BlockedKeeps, LoadKeeps
  <2>2. CASE RunExample \/ WriteResult \/ Gate
    BY <2>2, RunExampleKeeps, WriteResultKeeps, GateKeeps
  <2>3. CASE Deployed
    BY <1>1, <2>3 DEF Deployed
  <2>4. QED
    BY <1>2, <2>1, <2>2, <2>3 DEF Next
<1>3. CASE Publish
  BY <1>1, <1>3 DEF Publish
<1>4. CASE \E s \in Sides : Rerun(s)
  BY <1>4, RerunKeeps
<1>5. QED
  BY <1>1, <1>2, <1>3, <1>4 DEF PubNext, Measure, pubVars

LEMMA PubInvariance == PubSpec => []PInv
<1>1. PInv /\ [PubNext]_pubVars => PInv'
  BY StepPInv
<1>2. QED
  BY <1>1, InitPInv, PTL DEF PubSpec
-------------------------------------------------------------------------------
(* What a pass says *)

\* How many answers were right, from those counted.
LEMMA Counted ==
    ASSUME NEW f, Tallied(f.dataset, f.tally, f.right, f.count)
    PROVE  /\ f.right \in Nat /\ f.count \in Nat /\ f.tally["unverifiable"] \in Nat
           /\ f.tally["correct"] \in Nat /\ Judged(f) \in Nat
           /\ f.tally["correct"] <= f.right
           /\ f.right <= f.tally["correct"] + f.tally["unverifiable"]
           /\ f.tally["correct"] <= Judged(f) /\ Judged(f) <= f.count /\ f.right <= f.count
<1>1. \A o \in Outcomes : f.tally[o] \in Nat
  BY DEF Tallied
<1>2. PICK c \in Nat, i \in Nat, u \in Nat, e \in Nat :
         /\ c = f.tally["correct"] /\ i = f.tally["incorrect"]
         /\ u = f.tally["unverifiable"] /\ e = f.tally["error"]
  BY <1>1 DEF Outcomes
<1>3. /\ f.right \in Nat /\ f.count = c + i + u + e
      /\ c <= f.right /\ f.right + i + e <= f.count
  BY <1>2 DEF Tallied
<1>4. Judged(f) = c + i
  BY <1>2 DEF Judged
<1>5. QED
  BY <1>2, <1>3, <1>4

LEMMA SlicePassSound ==
    ASSUME NEW b, NEW g, FileOk(b), FileOk(g), b.dataset = g.dataset, SlicePasses(b, g)
    PROVE  /\ b.count = Examples[b.dataset] /\ g.count = Examples[g.dataset]
           /\ 100 * (b.right - g.right)
                 <= Threshold(g.dataset) * g.count
                       + 100 * (g.count - Judged(g) + b.tally["unverifiable"])
<1>1. b.count > 0 /\ g.count > 0
  BY DEF SlicePasses
<1>2. /\ b.count = Examples[b.dataset] /\ Tallied(b.dataset, b.tally, b.right, b.count)
      /\ g.count = Examples[g.dataset] /\ Tallied(g.dataset, g.tally, g.right, g.count)
  BY <1>1 DEF FileOk
<1>3. PICK n \in Nat, rb \in Nat, rg \in Nat, cb \in Nat, cg \in Nat, jb \in Nat,
           jg \in Nat, u \in Nat :
         /\ n = g.count /\ n = b.count /\ rb = b.right /\ rg = g.right
         /\ cb = b.tally["correct"] /\ cg = g.tally["correct"]
         /\ jb = Judged(b) /\ jg = Judged(g) /\ u = b.tally["unverifiable"]
         /\ rb <= cb + u /\ cg <= rg /\ cb <= jb /\ cg <= jg /\ jb <= n /\ jg <= n /\ rb <= n
  BY <1>2, Counted
<1>4. PICK t \in Nat : t = Threshold(g.dataset)
  BY ThresholdsAssumption DEF Threshold
<1>5. PICK tn \in Nat : tn = t * n
  OBVIOUS
<1>6. 100 * (rb - rg) <= tn + 100 * (n - jg + u)
  <2>1. CASE jb = 0 \/ jg = 0
    BY <1>3, <2>1
  <2>2. CASE jb > 0 /\ jg > 0
    <3>1. Accuracy(b) = <<cb, jb>> /\ Accuracy(g) = <<cg, jg>>
      BY <1>3, <2>2 DEF Accuracy
    <3>2. 100 * (cb * jg - cg * jb) <= t * jb * jg
      BY <1>4, <3>1 DEF SlicePasses
    <3>0. /\ cb \in Nat /\ jb \in Nat /\ cg \in Nat /\ jg \in Nat /\ n \in Nat /\ t \in Nat
          /\ cb <= jb /\ jb <= n /\ jg <= n /\ jb > 0
      BY <1>3, <1>4, <2>2
    <3>3. 100 * (cb - cg) <= t * n + 100 * (n - jg)
      BY ONLY <3>0, <3>2, FallOfShares, Zenon
    <3>4. QED
      BY <1>3, <1>5, <3>3
  <2>3. QED
    BY <2>1, <2>2
<1>7. QED
  BY <1>2, <1>3, <1>4, <1>5, <1>6

\* A gate that passes speaks of complete runs, in which the right answers fell by no
\* more than the threshold and the answers in which a fall can hide; or of an
\* adversarial file that was blocked or had every example answered as expected.
THEOREM GateIsSound == PubSpec => []GateSound
<1>1. PInv => GateSound
  <2> SUFFICES ASSUME PInv, gate = "passed"
               PROVE  /\ Compared =>
                         /\ \A s \in Sides : file[s].count = Examples[file[s].dataset]
                         /\ FallWithin(Threshold(file["governed"].dataset), Hidden)
                      /\ file["governed"].dataset = "adversarial" =>
                            \/ file["governed"].count = 0
                            \/ /\ file["governed"].count = Examples["adversarial"]
                               /\ file["governed"].right = file["governed"].count
    BY DEF GateSound
  <2>1. PICK b, g : b = file["baseline"] /\ g = file["governed"]
    OBVIOUS
  <2>2. FileOk(b) /\ FileOk(g) /\ Passes(b, g)
    BY <2>1 DEF PInv, Sides
  <2>3. ASSUME Compared
        PROVE  /\ \A s \in Sides : file[s].count = Examples[file[s].dataset]
               /\ FallWithin(Threshold(file["governed"].dataset), Hidden)
    <3>1. b.dataset = g.dataset /\ SlicePasses(b, g)
      BY <2>1, <2>2, <2>3 DEF Compared, Passes
    <3>2. /\ b.count = Examples[b.dataset] /\ g.count = Examples[g.dataset]
          /\ 100 * (b.right - g.right)
                <= Threshold(g.dataset) * g.count
                      + 100 * (g.count - Judged(g) + b.tally["unverifiable"])
      BY <2>2, <3>1, SlicePassSound
    <3>3. FallWithin(Threshold(file["governed"].dataset), Hidden)
      BY <2>1, <3>2, Zenon DEF FallWithin, Hidden
    <3>4. QED
      BY <2>1, <3>2, <3>3 DEF Sides
  <2>4. ASSUME g.dataset = "adversarial"
        PROVE  g.count = 0 \/ (g.count = Examples["adversarial"] /\ g.right = g.count)
    <3>1. AdversarialCompliant(g) /\ Kind[g.dataset] = "adversarial"
      BY <2>2, <2>4 DEF Passes, Kind
    <3>2. CASE g.count = 0
      BY <3>2
    <3>3. CASE /\ g.dataset \in Datasets /\ g.count = Examples[g.dataset]
               /\ Tallied(g.dataset, g.tally, g.right, g.count)
      <4>1. g.count > 0
        BY <3>3, ExamplesAssumption
      <4>2. g.right = g.count
        BY <3>1, <3>3, <4>1 DEF Tallied, AdversarialCompliant, Outcomes
      <4>3. QED
        BY <2>4, <3>3, <4>2
    <3>4. QED
      BY <2>2, <3>2, <3>3 DEF FileOk
  <2>5. QED
    BY <2>1, <2>3, <2>4
<1>2. QED
  BY <1>1, PubInvariance, PTL
-------------------------------------------------------------------------------
(* What the script makes of the README *)

\* Its pieces are a sequence.
IsDoc(doc) == \E S : doc \in Seq(S)

Intro == Piece("intro")
Outro == Piece("outro")
Table(t) == [kind |-> "table", table |-> t]

\* A block with table t takes the place of the pieces i..j of a README.
Spliced(doc, new, t, i, j) ==
    /\ IsDoc(new) /\ Len(new) = i + 2 + Len(doc) - j
    /\ \A k \in 1..i - 1 : new[k] = doc[k]
    /\ new[i] = Begin /\ new[i + 1] = Table(t) /\ new[i + 2] = End
    /\ \A k \in j + 1..Len(doc) : new[k + i + 2 - j] = doc[k]

LEMMA Kinds ==
    /\ Intro.kind = "intro" /\ Outro.kind = "outro" /\ Begin.kind = "BEGIN" /\ End.kind = "END"
    /\ \A t : Table(t).kind = "table" /\ Table(t).table = t
BY DEF Intro, Outro, Begin, End, Piece, Table

LEMMA BlockPlaces ==
    ASSUME NEW t, NEW S, Begin \in S, Table(t) \in S, End \in S
    PROVE  /\ Block(t) \in Seq(S) /\ Len(Block(t)) = 3
           /\ Block(t)[1] = Begin /\ Block(t)[2] = Table(t) /\ Block(t)[3] = End
<1>1. Block(t) = <<Begin, Table(t), End>>
  BY DEF Block, Begin, End, Table
<1>2. QED
  BY <1>1

\* Two sequences one after the other, place by place.
LEMMA Joined ==
    ASSUME NEW S, NEW x \in Seq(S), NEW y \in Seq(S)
    PROVE  /\ x \o y \in Seq(S) /\ Len(x \o y) = Len(x) + Len(y)
           /\ \A k \in 1..Len(x) : (x \o y)[k] = x[k]
           /\ \A k \in 1..Len(y) : (x \o y)[Len(x) + k] = y[k]
OBVIOUS

\* The pieces m..n of a sequence.
LEMMA Part ==
    ASSUME NEW S, NEW x \in Seq(S), NEW m \in Int, NEW n \in Int,
           1 <= m, m <= n + 1, n <= Len(x)
    PROVE  /\ SubSeq(x, m, n) \in Seq(S) /\ Len(SubSeq(x, m, n)) = n - m + 1
           /\ \A k \in 1..n - m + 1 : SubSeq(x, m, n)[k] = x[m + k - 1]
<1>1. \A i \in m..n : x[i] \in S
  <2>1. \A i \in m..n : i \in 1..Len(x)
    OBVIOUS
  <2>2. \A i \in 1..Len(x) : x[i] \in S
    OBVIOUS
  <2>3. QED
    BY <2>1, <2>2, Zenon
<1>2. /\ SubSeq(x, m, n) \in Seq(S)
      /\ Len(SubSeq(x, m, n)) = IF m <= n THEN n - m + 1 ELSE 0
      /\ \A i \in 1 .. n - m + 1 : SubSeq(x, m, n)[i] = x[m + i - 1]
  BY <1>1, SubSeqProperties
<1>3. (IF m <= n THEN n - m + 1 ELSE 0) = n - m + 1
  OBVIOUS
<1>4. QED
  BY <1>2, <1>3

\* A sequence of pieces stays one when more pieces are possible.
LEMMA Wider ==
    ASSUME NEW doc, IsDoc(doc), NEW t
    PROVE  \E S : doc \in Seq(S) /\ Begin \in S /\ Table(t) \in S /\ End \in S
<1>1. PICK S : doc \in Seq(S)
  BY DEF IsDoc
<1>2. PICK T : T = S \cup {Begin, Table(t), End}
  OBVIOUS
<1>3. doc \in Seq(T)
  BY <1>1, <1>2
<1>4. QED
  BY <1>2, <1>3

LEMMA BlockAppended ==
    ASSUME IsDoc(readme), NEW t, UpdateReadme(Block(t)),
           ~Contains(readme, Begin) \/ ~Contains(readme, End)
    PROVE  Spliced(readme, readme', t, Len(readme) + 1, Len(readme))
<1>1. PICK S : readme \in Seq(S) /\ Begin \in S /\ Table(t) \in S /\ End \in S
  BY Wider
<1>2. PICK b \in Seq(S) :
         b = Block(t) /\ Len(b) = 3 /\ b[1] = Begin /\ b[2] = Table(t) /\ b[3] = End
  BY <1>1, BlockPlaces
<1>3. readme' = readme \o b
  BY <1>2 DEF UpdateReadme
<1>4. PICK n \in Nat : n = Len(readme)
  BY <1>1
<1>5. /\ readme' \in Seq(S) /\ Len(readme') = n + 3
      /\ \A k \in 1..n : readme'[k] = readme[k]
      /\ \A k \in 1..3 : readme'[n + k] = b[k]
  <2>1. /\ readme \o b \in Seq(S) /\ Len(readme \o b) = Len(readme) + Len(b)
        /\ \A k \in 1..Len(readme) : (readme \o b)[k] = readme[k]
        /\ \A k \in 1..Len(b) : (readme \o b)[Len(readme) + k] = b[k]
    BY ONLY <1>1, b \in Seq(S), Joined
  <2>2. QED
    BY <1>2, <1>3, <1>4, <2>1, Zenon
<1>6. /\ readme'[n + 1] = Begin /\ readme'[n + 1 + 1] = Table(t) /\ readme'[n + 1 + 2] = End
  BY <1>2, <1>5
<1>7. IsDoc(readme')
  BY <1>5 DEF IsDoc
<1>8. n + 3 = n + 1 + 2 + n - n /\ n + 1 - 1 = n /\ n + 1..n = {}
  OBVIOUS
<1>9. QED
  BY <1>4, <1>5, <1>6, <1>7, <1>8 DEF Spliced

LEMMA BlockReplaced ==
    ASSUME IsDoc(readme), NEW t, UpdateReadme(Block(t)),
           Contains(readme, Begin), Contains(readme, End),
           NEW i \in 1..Len(readme), NEW j \in 1..Len(readme),
           First(Begin) = i, First(End) = j
    PROVE  Spliced(readme, readme', t, i, j)
<1>1. PICK S : readme \in Seq(S) /\ Begin \in S /\ Table(t) \in S /\ End \in S
  BY Wider
<1>2. PICK b \in Seq(S) :
         b = Block(t) /\ Len(b) = 3 /\ b[1] = Begin /\ b[2] = Table(t) /\ b[3] = End
  BY <1>1, BlockPlaces
<1>3. PICK n \in Nat : n = Len(readme)
  BY <1>1
<1>4. PICK x \in Seq(S) : /\ x = SubSeq(readme, 1, i - 1) /\ Len(x) = i - 1
                          /\ \A k \in 1..i - 1 : x[k] = readme[k]
  <2>1. 1 \in Int /\ i - 1 \in Int /\ 1 <= i - 1 + 1 /\ i - 1 <= Len(readme) /\ i - 1 - 1 + 1 = i - 1
        /\ \A k \in 1..i - 1 : 1 + k - 1 = k
    BY <1>3
  <2>2. /\ SubSeq(readme, 1, i - 1) \in Seq(S) /\ Len(SubSeq(readme, 1, i - 1)) = i - 1 - 1 + 1
        /\ \A k \in 1..i - 1 - 1 + 1 : SubSeq(readme, 1, i - 1)[k] = readme[1 + k - 1]
    BY ONLY <1>1, <2>1, Part
  <2>3. PICK x : x = SubSeq(readme, 1, i - 1)
    OBVIOUS
  <2>4. /\ x \in Seq(S) /\ Len(x) = i - 1
        /\ \A k \in 1..i - 1 : x[k] = readme[k]
    BY <2>1, <2>2, <2>3, Zenon
  <2>5. QED
    BY <2>3, <2>4, Zenon
<1>5. PICK z \in Seq(S) : /\ z = SubSeq(readme, j + 1, n) /\ Len(z) = n - j
                          /\ \A k \in 1..n - j : z[k] = readme[j + k]
  <2>1. j + 1 \in Int /\ n \in Int /\ 1 <= j + 1 /\ j + 1 <= n + 1 /\ n <= Len(readme)
        /\ n - (j + 1) + 1 = n - j /\ \A k \in 1..n - j : j + 1 + k - 1 = j + k
    BY <1>3
  <2>2. /\ SubSeq(readme, j + 1, n) \in Seq(S) /\ Len(SubSeq(readme, j + 1, n)) = n - (j + 1) + 1
        /\ \A k \in 1..n - (j + 1) + 1 : SubSeq(readme, j + 1, n)[k] = readme[j + 1 + k - 1]
    BY ONLY <1>1, <2>1, Part
  <2>3. PICK z : z = SubSeq(readme, j + 1, n)
    OBVIOUS
  <2>4. /\ z \in Seq(S) /\ Len(z) = n - j
        /\ \A k \in 1..n - j : z[k] = readme[j + k]
    BY <2>1, <2>2, <2>3, Zenon
  <2>5. QED
    BY <2>3, <2>4, Zenon
<1>6. readme' = x \o b \o z
  BY <1>2, <1>3, <1>4, <1>5 DEF UpdateReadme
<1>7. PICK u \in Seq(S) : /\ u = x \o b /\ Len(u) = i + 2
                          /\ \A k \in 1..i - 1 : u[k] = readme[k]
                          /\ \A k \in 1..3 : u[i - 1 + k] = b[k]
  <2>1. i - 1 + 3 = i + 2
    OBVIOUS
  <2>2. /\ x \o b \in Seq(S) /\ Len(x \o b) = Len(x) + Len(b)
        /\ \A k \in 1..Len(x) : (x \o b)[k] = x[k]
        /\ \A k \in 1..Len(b) : (x \o b)[Len(x) + k] = b[k]
    BY ONLY x \in Seq(S), b \in Seq(S), Joined
  <2>3. PICK u : u = x \o b
    OBVIOUS
  <2>4. /\ u \in Seq(S) /\ Len(u) = i + 2
        /\ \A k \in 1..i - 1 : u[k] = readme[k]
        /\ \A k \in 1..3 : u[i - 1 + k] = b[k]
    BY <1>2, <1>4, <2>1, <2>2, <2>3
  <2>5. QED
    BY <2>3, <2>4, Zenon
<1>8. /\ readme' \in Seq(S) /\ Len(readme') = i + 2 + (n - j)
      /\ \A k \in 1..i + 2 : readme'[k] = u[k]
      /\ \A k \in 1..n - j : readme'[i + 2 + k] = readme[j + k]
  <2>1. /\ u \o z \in Seq(S) /\ Len(u \o z) = Len(u) + Len(z)
        /\ \A k \in 1..Len(u) : (u \o z)[k] = u[k]
        /\ \A k \in 1..Len(z) : (u \o z)[Len(u) + k] = z[k]
    BY ONLY u \in Seq(S), z \in Seq(S), Joined
  <2>2. readme' = u \o z
    BY <1>6, <1>7, Zenon
  <2>3. QED
    <3>1. Len(u) = i + 2 /\ Len(z) = n - j /\ \A k \in 1..n - j : z[k] = readme[j + k]
      BY <1>5, <1>7
    <3>2. PICK r : r = readme' /\ r = u \o z
      BY <2>2
    <3>3. /\ r \in Seq(S) /\ Len(r) = i + 2 + (n - j)
          /\ \A k \in 1..i + 2 : r[k] = u[k]
          /\ \A k \in 1..n - j : r[i + 2 + k] = z[k]
      BY ONLY <2>1, <3>1, <3>2
    <3>4. \A k \in 1..n - j : r[i + 2 + k] = readme[j + k]
      BY <3>1, <3>3, Zenon
    <3>5. QED
      BY <3>2, <3>3, <3>4, Zenon
<1>9. \A k \in 1..i - 1 : readme'[k] = readme[k]
  <2>1. \A k \in 1..i - 1 : k \in 1..i + 2
    OBVIOUS
  <2>2. QED
    BY <1>7, <1>8, <2>1, Zenon
<1>10. readme'[i] = Begin /\ readme'[i + 1] = Table(t) /\ readme'[i + 2] = End
  <2>1. i - 1 + 1 = i /\ i - 1 + 2 = i + 1 /\ i - 1 + 3 = i + 2
    OBVIOUS
  <2>2. u[i] = Begin /\ u[i + 1] = Table(t) /\ u[i + 2] = End
    <3>1. 1 \in 1..3 /\ 2 \in 1..3 /\ 3 \in 1..3
      OBVIOUS
    <3>2. u[i - 1 + 1] = Begin /\ u[i - 1 + 2] = Table(t) /\ u[i - 1 + 3] = End
      BY <1>2, <1>7, <3>1, Zenon
    <3>3. QED
      BY <2>1, <3>2, Zenon
  <2>3. i \in 1..i + 2 /\ i + 1 \in 1..i + 2 /\ i + 2 \in 1..i + 2
    OBVIOUS
  <2>4. QED
    BY <1>8, <2>2, <2>3, Zenon
<1>11. ASSUME NEW k \in j + 1..n PROVE readme'[k + i + 2 - j] = readme[k]
  <2>1. PICK m \in 1..n - j : m = k - j /\ i + 2 + m = k + i + 2 - j /\ j + m = k
    OBVIOUS
  <2>2. QED
    BY <1>8, <2>1
<1>12. IsDoc(readme') /\ i + 2 + (n - j) = i + 2 + n - j
  BY <1>8 DEF IsDoc
<1>13. QED
  BY <1>3, <1>8, <1>9, <1>10, <1>11, <1>12 DEF Spliced

\* Every piece after the splice was there before or is one of the block.
LEMMA NoOtherPieces ==
    ASSUME NEW doc, IsDoc(doc), NEW new, NEW t, NEW i \in 1..Len(doc) + 1, NEW j \in 0..Len(doc),
           Spliced(doc, new, t, i, j)
    PROVE  /\ Range(new) \subseteq Range(doc) \cup {Begin, Table(t), End}
           /\ Table(t) \in Range(new)
<1>1. PICK n \in Nat : n = Len(doc) /\ DOMAIN doc = 1..n
  BY DEF IsDoc
<1>2. PICK l \in Int : l = Len(new) /\ l = i + 2 + n - j /\ DOMAIN new = 1..l
  BY <1>1 DEF Spliced, IsDoc
<1>3. ASSUME NEW k \in 1..l PROVE new[k] \in Range(doc) \cup {Begin, Table(t), End}
  <2>1. CASE k < i
    <3>1. k \in 1..i - 1 /\ k \in DOMAIN doc
      BY <1>1, <2>1
    <3>2. QED
      BY <3>1 DEF Spliced, Range
  <2>2. CASE k \in {i, i + 1, i + 2}
    BY <2>2 DEF Spliced
  <2>3. CASE k > i + 2
    <3>1. PICK m \in j + 1..n : k = m + i + 2 - j
      <4>1. k - i - 2 + j \in j + 1..n /\ k = (k - i - 2 + j) + i + 2 - j
        BY <1>1, <1>2, <2>3
      <4>2. QED
        BY <4>1
    <3>2. new[k] = doc[m] /\ m \in DOMAIN doc
      BY <1>1, <3>1 DEF Spliced
    <3>3. QED
      BY <3>2 DEF Range
  <2>4. QED
    BY <2>1, <2>2, <2>3
<1>4. i + 1 \in DOMAIN new /\ new[i + 1] = Table(t)
  BY <1>1, <1>2 DEF Spliced
<1>5. QED
  BY <1>2, <1>3, <1>4 DEF Range

\* Every piece before the splice is there after it or stood between the markers.
LEMMA NothingElseGone ==
    ASSUME NEW doc, IsDoc(doc), NEW new, NEW t, NEW i \in 1..Len(doc) + 1, NEW j \in 0..Len(doc),
           Spliced(doc, new, t, i, j),
           \/ i = Len(doc) + 1 /\ j = Len(doc)
           \/ i \in DOMAIN doc /\ j \in DOMAIN doc /\ doc[i] = Begin /\ doc[j] = End
    PROVE  \A piece \in Range(doc) \ Range(new) : Enclosed(doc, piece)
<1>1. PICK n \in Nat : n = Len(doc) /\ DOMAIN doc = 1..n
  BY DEF IsDoc
<1>2. PICK l \in Int : l = Len(new) /\ l = i + 2 + n - j /\ DOMAIN new = 1..l
  BY <1>1 DEF Spliced, IsDoc
<1> SUFFICES ASSUME NEW k \in 1..n, doc[k] \notin Range(new) PROVE Enclosed(doc, doc[k])
  BY <1>1 DEF Range
<1>3. ASSUME NEW m \in 1..l PROVE new[m] # doc[k]
  BY <1>2, <1>3 DEF Range
<1>4. ~(k < i)
  <2> SUFFICES ASSUME k < i PROVE FALSE
    OBVIOUS
  <2>1. k \in 1..l /\ k \in 1..i - 1
    BY <1>1, <1>2
  <2>2. QED
    BY <1>3, <2>1 DEF Spliced
<1>5. ~(j < k)
  <2> SUFFICES ASSUME j < k PROVE FALSE
    OBVIOUS
  <2>1. k + i + 2 - j \in 1..l /\ k \in j + 1..Len(doc)
    BY <1>1, <1>2
  <2>2. QED
    BY <1>3, <2>1 DEF Spliced
<1>6. i \in 1..n /\ j \in 1..n /\ doc[i] = Begin /\ doc[j] = End
  BY <1>1, <1>4, <1>5
<1>7. i \in 1..l /\ i + 2 \in 1..l /\ new[i] = Begin /\ new[i + 2] = End
  BY <1>1, <1>2 DEF Spliced
<1>8. k # i /\ k # j
  BY <1>3, <1>6, <1>7
<1>9. i < k /\ k < j
  BY <1>4, <1>5, <1>8
<1>10. QED
  BY <1>1, <1>6, <1>9 DEF Enclosed

-------------------------------------------------------------------------------
(* The pieces of a kind *)

\* The pieces of these kinds among the first i, when s are those before it.
Extended(doc, kinds, i, s) == IF doc[i].kind \in kinds THEN Append(s, doc[i]) ELSE s

\* up[i] holds the pieces of these kinds among the first i.
UpTo(doc, kinds, n, up) ==
    up = [i \in 0..n |->
             IF i = 0 THEN <<>>
             ELSE IF doc[i].kind \in kinds THEN Append(up[i - 1], doc[i])
             ELSE up[i - 1]]

\* A README of at most six pieces is enough: a longer one is crossed.
LEMMA PiecesExist ==
    ASSUME NEW doc, NEW kinds, NEW n \in 0..6
    PROVE  \E up : UpTo(doc, kinds, n, up)
<1> DEFINE next(i, s) == IF doc[i].kind \in kinds THEN Append(s, doc[i]) ELSE s
           a == next(1, <<>>)
           b == next(2, a)
           c == next(3, b)
           d == next(4, c)
           e == next(5, d)
           f == next(6, e)
           up == [i \in 0..n |-> IF i = 0 THEN <<>> ELSE IF i = 1 THEN a ELSE IF i = 2 THEN b
                                 ELSE IF i = 3 THEN c ELSE IF i = 4 THEN d
                                 ELSE IF i = 5 THEN e ELSE f]
<1>1. ASSUME NEW i \in 0..n
      PROVE  up[i] = IF i = 0 THEN <<>> ELSE next(i, up[i - 1])
  <2>1. i \in {0, 1, 2, 3, 4, 5, 6}
    OBVIOUS
  <2>2. i # 0 => i - 1 \in 0..n
    OBVIOUS
  <2> HIDE DEF next
  <2>3. QED
    BY <2>1, <2>2
<1>2. up = [i \in 0..n |-> up[i]]
  OBVIOUS
<1> HIDE DEF up
<1>3. UpTo(doc, kinds, n, up)
  BY <1>1, <1>2, Zenon DEF UpTo
<1>4. QED
  BY <1>3

\* The same step by step, and all of them at the end.
Steps(doc, kinds, n, up) ==
    /\ up[0] = <<>>
    /\ \A i \in 1..n : up[i] = Extended(doc, kinds, i, up[i - 1])
    /\ Pieces(doc, kinds) = up[n]

LEMMA PiecesUpTo ==
    ASSUME NEW doc, NEW kinds, NEW n \in 0..6, Len(doc) = n
    PROVE  \E up : Steps(doc, kinds, n, up)
<1>1. \E up : UpTo(doc, kinds, n, up)
  BY PiecesExist
<1>2. PICK up : UpTo(doc, kinds, n, up) /\ Pieces(doc, kinds) = up[n]
  BY <1>1 DEF UpTo, Pieces
<1>3. \A j \in 0..n : up[j] = IF j = 0 THEN <<>>
                             ELSE IF doc[j].kind \in kinds THEN Append(up[j - 1], doc[j])
                             ELSE up[j - 1]
  BY <1>2 DEF UpTo
<1>4. 0 \in 0..n /\ \A i \in 1..n : i \in 0..n /\ i # 0
  OBVIOUS
<1>5. up[0] = <<>> /\ \A i \in 1..n : up[i] = Extended(doc, kinds, i, up[i - 1])
  BY <1>3, <1>4, Zenon DEF Extended
<1>6. QED
  BY <1>2, <1>5 DEF Steps

\* Of n pieces, the k-th is of these kinds, or the first and the k-th are.
OneOf(doc, kinds, n, k) ==
    Len(doc) = n /\ \A i \in 1..n : doc[i].kind \in kinds <=> i = k
TwoOf(doc, kinds, n, k) ==
    Len(doc) = n /\ \A i \in 1..n : doc[i].kind \in kinds <=> i \in {1, k}

LEMMA OnePiece ==
    ASSUME NEW doc, NEW kinds, NEW n \in 0..6, NEW k \in 1..n, OneOf(doc, kinds, n, k)
    PROVE  Pieces(doc, kinds) = Append(<<>>, doc[k])
<1>0. PICK up : Steps(doc, kinds, n, up)
  BY PiecesUpTo DEF OneOf
<1>1. /\ up[0] = <<>>
      /\ \A i \in 1..n : up[i] = Extended(doc, kinds, i, up[i - 1])
      /\ Pieces(doc, kinds) = up[n]
  BY <1>0 DEF Steps
<1> DEFINE P(i) == up[i] = IF i < k THEN <<>> ELSE Append(<<>>, doc[k])
<1>2. P(0)
  BY <1>1
<1>3. ASSUME NEW i \in 1..n, P(i - 1) PROVE P(i)
  <2>1. up[i] = IF i = k THEN Append(up[i - 1], doc[i]) ELSE up[i - 1]
    BY <1>1 DEF Extended, OneOf
  <2>2. CASE i = k
    BY <1>3, <2>1, <2>2
  <2>3. CASE i # k
    BY <1>3, <2>1, <2>3
  <2>4. QED
    BY <2>2, <2>3
<1>4. P(n)
  <2> HIDE DEF P
  <2>1. P(1) /\ (n >= 2 => P(2))
    BY <1>2, <1>3
  <2>2. n >= 3 => P(3)
    BY <1>3, <2>1
  <2>3. n >= 4 => P(4)
    BY <1>3, <2>2
  <2>4. n >= 5 => P(5)
    BY <1>3, <2>3
  <2>5. n >= 6 => P(6)
    BY <1>3, <2>4
  <2>6. QED
    BY <2>1, <2>2, <2>3, <2>4, <2>5
<1>5. QED
  BY <1>1, <1>4

LEMMA TwoPieces ==
    ASSUME NEW doc, NEW kinds, NEW n \in 0..6, NEW k \in 2..n, TwoOf(doc, kinds, n, k)
    PROVE  Pieces(doc, kinds) = Append(Append(<<>>, doc[1]), doc[k])
<1>0. PICK up : Steps(doc, kinds, n, up)
  BY PiecesUpTo DEF TwoOf
<1>1. /\ up[0] = <<>>
      /\ \A i \in 1..n : up[i] = Extended(doc, kinds, i, up[i - 1])
      /\ Pieces(doc, kinds) = up[n]
  BY <1>0 DEF Steps
<1> DEFINE P(i) == up[i] = IF i = 0 THEN <<>>
                           ELSE IF i < k THEN Append(<<>>, doc[1])
                           ELSE Append(Append(<<>>, doc[1]), doc[k])
<1>2. P(0)
  BY <1>1
<1>3. ASSUME NEW i \in 1..n, P(i - 1) PROVE P(i)
  <2>1. up[i] = IF i \in {1, k} THEN Append(up[i - 1], doc[i]) ELSE up[i - 1]
    BY <1>1 DEF Extended, TwoOf
  <2>2. CASE i = 1
    BY <1>3, <2>1, <2>2
  <2>3. CASE i = k
    <3>1. i - 1 # 0 /\ i - 1 < k /\ i # 0 /\ ~(i < k)
      BY <2>3
    <3>2. up[i - 1] = Append(<<>>, doc[1])
      BY <1>3, <3>1, Zenon
    <3>3. up[i] = Append(up[i - 1], doc[k])
      BY <2>1, <2>3, Zenon
    <3>4. up[i] = Append(Append(<<>>, doc[1]), doc[k])
      BY <3>2, <3>3, Zenon
    <3>5. QED
      BY <3>1, <3>4, Zenon
  <2>4. CASE i \notin {1, k}
    BY <1>3, <2>1, <2>4
  <2>5. QED
    BY <2>2, <2>3, <2>4
<1>4. P(n)
  <2> HIDE DEF P
  <2>1. P(1) /\ (n >= 2 => P(2))
    BY <1>2, <1>3
  <2>2. n >= 3 => P(3)
    BY <1>3, <2>1
  <2>3. n >= 4 => P(4)
    BY <1>3, <2>2
  <2>4. n >= 5 => P(5)
    BY <1>3, <2>3
  <2>5. n >= 6 => P(6)
    BY <1>3, <2>4
  <2>6. QED
    BY <2>1, <2>2, <2>3, <2>4, <2>5
<1>5. QED
  BY <1>1, <1>4
-------------------------------------------------------------------------------
(* The shapes a README can take *)

\* No markers, one marker, a block with some table between the pieces of text or
\* behind them.
Bare(doc) == IsDoc(doc) /\ Len(doc) = 2 /\ doc[1] = Intro /\ doc[2] = Outro
OneBegin(doc) ==
    IsDoc(doc) /\ Len(doc) = 3 /\ doc[1] = Intro /\ doc[2] = Begin /\ doc[3] = Outro
OneEnd(doc) ==
    IsDoc(doc) /\ Len(doc) = 3 /\ doc[1] = Intro /\ doc[2] = End /\ doc[3] = Outro
Inside(doc, t) ==
    /\ IsDoc(doc) /\ Len(doc) = 5
    /\ doc[1] = Intro /\ doc[2] = Begin /\ doc[3] = Table(t) /\ doc[4] = End /\ doc[5] = Outro
Behind(doc, t) ==
    /\ IsDoc(doc) /\ Len(doc) = 5
    /\ doc[1] = Intro /\ doc[2] = Outro /\ doc[3] = Begin /\ doc[4] = Table(t) /\ doc[5] = End

\* What becomes of a lone BEGIN: a block behind the text, then one in place of all
\* that follows the first piece.
TwoBegins(doc, t) ==
    /\ IsDoc(doc) /\ Len(doc) = 6 /\ doc[1] = Intro /\ doc[2] = Begin /\ doc[3] = Outro
    /\ doc[4] = Begin /\ doc[5] = Table(t) /\ doc[6] = End
Trimmed(doc, t) ==
    /\ IsDoc(doc) /\ Len(doc) = 4
    /\ doc[1] = Intro /\ doc[2] = Begin /\ doc[3] = Table(t) /\ doc[4] = End

\* What becomes of a lone END: it comes first for good.
EndFirst(doc) ==
    /\ IsDoc(doc) /\ Len(doc) >= 6
    /\ doc[1] = Intro /\ doc[2] = End /\ doc[3] = Outro /\ doc[4] = Begin
EndBlock(doc, t) ==
    EndFirst(doc) /\ Len(doc) = 6 /\ doc[5] = Table(t) /\ doc[6] = End

RInv ==
    \/ Bare(readme) \/ OneBegin(readme) \/ OneEnd(readme) \/ EndFirst(readme)
    \/ \E t : \/ Inside(readme, t) \/ Behind(readme, t)
              \/ TwoBegins(readme, t) \/ Trimmed(readme, t)

\* The text of these shapes, and their tables.
LEMMA BareText ==
    ASSUME NEW doc, Bare(doc)
    PROVE  Outside(doc) = Append(Append(<<>>, Intro), Outro)
<1>1. Len(doc) = 2 /\ \A i \in 1..2 : i \in {1, 2}
  BY DEF Bare
<1>2. TwoOf(doc, {"intro", "outro"}, 2, 2)
  BY <1>1, Kinds DEF TwoOf, Bare
<1>3. Outside(doc) = Append(Append(<<>>, Intro), Outro)
  <2>1. 2 \in 0..6 /\ 2 \in 2..2 /\ doc[1] = Intro /\ doc[2] = Outro
    BY DEF Bare
  <2>2. Outside(doc) = Append(Append(<<>>, doc[1]), doc[2])
    BY <1>2, <2>1, TwoPieces DEF Outside
  <2>3. QED
    BY <2>1, <2>2, Zenon
<1>4. QED
  BY <1>3

LEMMA OneBeginText ==
    ASSUME NEW doc, OneBegin(doc)
    PROVE  Outside(doc) = Append(Append(<<>>, Intro), Outro)
<1>1. Len(doc) = 3 /\ \A i \in 1..3 : i \in {1, 2, 3}
  BY DEF OneBegin
<1>2. TwoOf(doc, {"intro", "outro"}, 3, 3)
  BY <1>1, Kinds DEF TwoOf, OneBegin
<1>3. Outside(doc) = Append(Append(<<>>, Intro), Outro)
  <2>1. 3 \in 0..6 /\ 3 \in 2..3 /\ doc[1] = Intro /\ doc[3] = Outro
    BY DEF OneBegin
  <2>2. Outside(doc) = Append(Append(<<>>, doc[1]), doc[3])
    BY <1>2, <2>1, TwoPieces DEF Outside
  <2>3. QED
    BY <2>1, <2>2, Zenon
<1>4. QED
  BY <1>3

LEMMA OneEndText ==
    ASSUME NEW doc, OneEnd(doc)
    PROVE  Outside(doc) = Append(Append(<<>>, Intro), Outro)
<1>1. Len(doc) = 3 /\ \A i \in 1..3 : i \in {1, 2, 3}
  BY DEF OneEnd
<1>2. TwoOf(doc, {"intro", "outro"}, 3, 3)
  BY <1>1, Kinds DEF TwoOf, OneEnd
<1>3. Outside(doc) = Append(Append(<<>>, Intro), Outro)
  <2>1. 3 \in 0..6 /\ 3 \in 2..3 /\ doc[1] = Intro /\ doc[3] = Outro
    BY DEF OneEnd
  <2>2. Outside(doc) = Append(Append(<<>>, doc[1]), doc[3])
    BY <1>2, <2>1, TwoPieces DEF Outside
  <2>3. QED
    BY <2>1, <2>2, Zenon
<1>4. QED
  BY <1>3

LEMMA InsideText ==
    ASSUME NEW doc, NEW t, Inside(doc, t)
    PROVE  Outside(doc) = Append(Append(<<>>, Intro), Outro) /\ Tables(doc) = Append(<<>>, Table(t))
<1>1. Len(doc) = 5 /\ \A i \in 1..5 : i \in {1, 2, 3, 4, 5}
  BY DEF Inside
<1>2. TwoOf(doc, {"intro", "outro"}, 5, 5)
  BY <1>1, Kinds DEF TwoOf, Inside
<1>3. Outside(doc) = Append(Append(<<>>, Intro), Outro)
  <2>1. 5 \in 0..6 /\ 5 \in 2..5 /\ doc[1] = Intro /\ doc[5] = Outro
    BY DEF Inside
  <2>2. Outside(doc) = Append(Append(<<>>, doc[1]), doc[5])
    BY <1>2, <2>1, TwoPieces DEF Outside
  <2>3. QED
    BY <2>1, <2>2, Zenon
<1>4. OneOf(doc, {"table"}, 5, 3)
  BY <1>1, Kinds DEF OneOf, Inside
<1>5. Tables(doc) = Append(<<>>, Table(t))
  BY <1>1, <1>4, OnePiece DEF Tables, Inside
<1>6. QED
  BY <1>3, <1>5

LEMMA BehindText ==
    ASSUME NEW doc, NEW t, Behind(doc, t)
    PROVE  Outside(doc) = Append(Append(<<>>, Intro), Outro) /\ Tables(doc) = Append(<<>>, Table(t))
<1>1. Len(doc) = 5 /\ \A i \in 1..5 : i \in {1, 2, 3, 4, 5}
  BY DEF Behind
<1>2. TwoOf(doc, {"intro", "outro"}, 5, 2)
  BY <1>1, Kinds DEF TwoOf, Behind
<1>3. Outside(doc) = Append(Append(<<>>, Intro), Outro)
  <2>1. 5 \in 0..6 /\ 2 \in 2..5 /\ doc[1] = Intro /\ doc[2] = Outro
    BY DEF Behind
  <2>2. Outside(doc) = Append(Append(<<>>, doc[1]), doc[2])
    BY <1>2, <2>1, TwoPieces DEF Outside
  <2>3. QED
    BY <2>1, <2>2, Zenon
<1>4. OneOf(doc, {"table"}, 5, 4)
  BY <1>1, Kinds DEF OneOf, Behind
<1>5. Tables(doc) = Append(<<>>, Table(t))
  BY <1>1, <1>4, OnePiece DEF Tables, Behind
<1>6. QED
  BY <1>3, <1>5

LEMMA TwoBeginsText ==
    ASSUME NEW doc, NEW t, TwoBegins(doc, t)
    PROVE  Outside(doc) = Append(Append(<<>>, Intro), Outro) /\ Tables(doc) = Append(<<>>, Table(t))
<1>1. Len(doc) = 6 /\ \A i \in 1..6 : i \in {1, 2, 3, 4, 5, 6}
  BY DEF TwoBegins
<1>2. TwoOf(doc, {"intro", "outro"}, 6, 3)
  BY <1>1, Kinds DEF TwoOf, TwoBegins
<1>3. Outside(doc) = Append(Append(<<>>, Intro), Outro)
  <2>1. 6 \in 0..6 /\ 3 \in 2..6 /\ doc[1] = Intro /\ doc[3] = Outro
    BY DEF TwoBegins
  <2>2. Outside(doc) = Append(Append(<<>>, doc[1]), doc[3])
    BY <1>2, <2>1, TwoPieces DEF Outside
  <2>3. QED
    BY <2>1, <2>2, Zenon
<1>4. OneOf(doc, {"table"}, 6, 5)
  BY <1>1, Kinds DEF OneOf, TwoBegins
<1>5. Tables(doc) = Append(<<>>, Table(t))
  BY <1>1, <1>4, OnePiece DEF Tables, TwoBegins
<1>6. QED
  BY <1>3, <1>5

LEMMA TrimmedText ==
    ASSUME NEW doc, NEW t, Trimmed(doc, t)
    PROVE  Outside(doc) = Append(<<>>, Intro) /\ Tables(doc) = Append(<<>>, Table(t))
<1>1. Len(doc) = 4 /\ \A i \in 1..4 : i \in {1, 2, 3, 4}
  BY DEF Trimmed
<1>2. OneOf(doc, {"intro", "outro"}, 4, 1)
  BY <1>1, Kinds DEF OneOf, Trimmed
<1>3. Outside(doc) = Append(<<>>, Intro)
  BY <1>1, <1>2, OnePiece DEF Outside, Trimmed
<1>4. OneOf(doc, {"table"}, 4, 3)
  BY <1>1, Kinds DEF OneOf, Trimmed
<1>5. Tables(doc) = Append(<<>>, Table(t))
  BY <1>1, <1>4, OnePiece DEF Tables, Trimmed
<1>6. QED
  BY <1>3, <1>5

LEMMA EndBlockText ==
    ASSUME NEW doc, NEW t, EndBlock(doc, t)
    PROVE  Outside(doc) = Append(Append(<<>>, Intro), Outro) /\ Tables(doc) = Append(<<>>, Table(t))
<1>1. Len(doc) = 6 /\ \A i \in 1..6 : i \in {1, 2, 3, 4, 5, 6}
  BY DEF EndBlock, EndFirst
<1>2. TwoOf(doc, {"intro", "outro"}, 6, 3)
  BY <1>1, Kinds DEF TwoOf, EndBlock, EndFirst
<1>3. Outside(doc) = Append(Append(<<>>, Intro), Outro)
  <2>1. 6 \in 0..6 /\ 3 \in 2..6 /\ doc[1] = Intro /\ doc[3] = Outro
    BY DEF EndBlock, EndFirst
  <2>2. Outside(doc) = Append(Append(<<>>, doc[1]), doc[3])
    BY <1>2, <2>1, TwoPieces DEF Outside
  <2>3. QED
    BY <2>1, <2>2, Zenon
<1>4. OneOf(doc, {"table"}, 6, 5)
  BY <1>1, Kinds DEF OneOf, EndBlock, EndFirst
<1>5. Tables(doc) = Append(<<>>, Table(t))
  BY <1>1, <1>4, OnePiece DEF Tables, EndBlock, EndFirst
<1>6. QED
  BY <1>3, <1>5

LEMMA FirstAt ==
    ASSUME NEW x, NEW n \in Nat, DOMAIN readme = 1..n, NEW i \in 1..n, readme[i] = x,
           \A k \in 1..i - 1 : readme[k] # x
    PROVE  First(x) = i
<1>1. \A k \in DOMAIN readme :
         (readme[k] = x /\ \A j \in 1..k - 1 : readme[j] # x) => k = i
  <2> SUFFICES ASSUME NEW k \in 1..n, readme[k] = x, \A j \in 1..k - 1 : readme[j] # x
               PROVE  k = i
    OBVIOUS
  <2>1. ~(k < i) /\ ~(i < k)
    OBVIOUS
  <2>2. QED
    BY <2>1
<1>2. i \in DOMAIN readme
  OBVIOUS
<1>3. QED
  BY <1>1, <1>2, Zenon DEF First

\* The update of each shape: where the block goes, and the shape that comes of it.
LEMMA BareUpdated ==
    ASSUME Bare(readme), NEW t, UpdateReadme(Block(t))
    PROVE  Spliced(readme, readme', t, 3, 2) /\ Behind(readme', t)
<1>1. IsDoc(readme) /\ Len(readme) = 2 /\ DOMAIN readme = 1..2
  BY DEF IsDoc, Bare
<1>2. ~Contains(readme, Begin)
  BY <1>1, Kinds DEF Contains, Bare
<1>3. Spliced(readme, readme', t, 3, 2)
  BY <1>1, <1>2, BlockAppended
<1>4. QED
  BY <1>1, <1>3 DEF Spliced, Bare, Behind

LEMMA OneBeginUpdated ==
    ASSUME OneBegin(readme), NEW t, UpdateReadme(Block(t))
    PROVE  Spliced(readme, readme', t, 4, 3) /\ TwoBegins(readme', t)
<1>1. IsDoc(readme) /\ Len(readme) = 3 /\ DOMAIN readme = 1..3
  BY DEF IsDoc, OneBegin
<1>2. ~Contains(readme, End)
  BY <1>1, Kinds DEF Contains, OneBegin
<1>3. Spliced(readme, readme', t, 4, 3)
  BY <1>1, <1>2, BlockAppended
<1>4. QED
  BY <1>1, <1>3 DEF Spliced, OneBegin, TwoBegins

LEMMA OneEndUpdated ==
    ASSUME OneEnd(readme), NEW t, UpdateReadme(Block(t))
    PROVE  Spliced(readme, readme', t, 4, 3) /\ EndBlock(readme', t)
<1>1. IsDoc(readme) /\ Len(readme) = 3 /\ DOMAIN readme = 1..3
  BY DEF IsDoc, OneEnd
<1>2. ~Contains(readme, Begin)
  BY <1>1, Kinds DEF Contains, OneEnd
<1>3. Spliced(readme, readme', t, 4, 3)
  BY <1>1, <1>2, BlockAppended
<1>4. QED
  BY <1>1, <1>3 DEF Spliced, OneEnd, EndBlock, EndFirst

LEMMA InsideUpdated ==
    ASSUME NEW u, Inside(readme, u), NEW t, UpdateReadme(Block(t))
    PROVE  Spliced(readme, readme', t, 2, 4) /\ Inside(readme', t)
<1>1. IsDoc(readme) /\ Len(readme) = 5 /\ DOMAIN readme = 1..5
  BY DEF IsDoc, Inside
<1>2. Contains(readme, Begin) /\ Contains(readme, End) /\ First(Begin) = 2 /\ First(End) = 4
  <2>1. Contains(readme, Begin) /\ Contains(readme, End)
    BY <1>1 DEF Contains, Inside
  <2>2. /\ readme[2] = Begin /\ \A k \in 1..2 - 1 : readme[k] # Begin
        /\ readme[4] = End /\ \A k \in 1..4 - 1 : readme[k] # End
    BY Kinds DEF Inside
  <2>3. First(Begin) = 2 /\ First(End) = 4
    BY <1>1, <2>2, FirstAt
  <2>4. QED
    BY <2>1, <2>3
<1>3. Spliced(readme, readme', t, 2, 4)
  BY <1>1, <1>2, BlockReplaced
<1>4. QED
  BY <1>1, <1>3 DEF Spliced, Inside

LEMMA BehindUpdated ==
    ASSUME NEW u, Behind(readme, u), NEW t, UpdateReadme(Block(t))
    PROVE  Spliced(readme, readme', t, 3, 5) /\ Behind(readme', t)
<1>1. IsDoc(readme) /\ Len(readme) = 5 /\ DOMAIN readme = 1..5
  BY DEF IsDoc, Behind
<1>2. Contains(readme, Begin) /\ Contains(readme, End) /\ First(Begin) = 3 /\ First(End) = 5
  <2>1. Contains(readme, Begin) /\ Contains(readme, End)
    BY <1>1 DEF Contains, Behind
  <2>2. /\ readme[3] = Begin /\ \A k \in 1..3 - 1 : readme[k] # Begin
        /\ readme[5] = End /\ \A k \in 1..5 - 1 : readme[k] # End
    BY Kinds DEF Behind
  <2>3. First(Begin) = 3 /\ First(End) = 5
    BY <1>1, <2>2, FirstAt
  <2>4. QED
    BY <2>1, <2>3
<1>3. Spliced(readme, readme', t, 3, 5)
  BY <1>1, <1>2, BlockReplaced
<1>4. QED
  BY <1>1, <1>3 DEF Spliced, Behind

LEMMA TwoBeginsUpdated ==
    ASSUME NEW u, TwoBegins(readme, u), NEW t, UpdateReadme(Block(t))
    PROVE  Spliced(readme, readme', t, 2, 6) /\ Trimmed(readme', t)
<1>1. IsDoc(readme) /\ Len(readme) = 6 /\ DOMAIN readme = 1..6
  BY DEF IsDoc, TwoBegins
<1>2. Contains(readme, Begin) /\ Contains(readme, End) /\ First(Begin) = 2 /\ First(End) = 6
  <2>1. Contains(readme, Begin) /\ Contains(readme, End)
    BY <1>1 DEF Contains, TwoBegins
  <2>2. /\ readme[2] = Begin /\ \A k \in 1..2 - 1 : readme[k] # Begin
        /\ readme[6] = End /\ \A k \in 1..6 - 1 : readme[k] # End
    BY Kinds DEF TwoBegins
  <2>3. First(Begin) = 2 /\ First(End) = 6
    BY <1>1, <2>2, FirstAt
  <2>4. QED
    BY <2>1, <2>3
<1>3. Spliced(readme, readme', t, 2, 6)
  BY <1>1, <1>2, BlockReplaced
<1>4. QED
  BY <1>1, <1>3 DEF Spliced, TwoBegins, Trimmed

LEMMA TrimmedUpdated ==
    ASSUME NEW u, Trimmed(readme, u), NEW t, UpdateReadme(Block(t))
    PROVE  Spliced(readme, readme', t, 2, 4) /\ Trimmed(readme', t)
<1>1. IsDoc(readme) /\ Len(readme) = 4 /\ DOMAIN readme = 1..4
  BY DEF IsDoc, Trimmed
<1>2. Contains(readme, Begin) /\ Contains(readme, End) /\ First(Begin) = 2 /\ First(End) = 4
  <2>1. Contains(readme, Begin) /\ Contains(readme, End)
    BY <1>1 DEF Contains, Trimmed
  <2>2. /\ readme[2] = Begin /\ \A k \in 1..2 - 1 : readme[k] # Begin
        /\ readme[4] = End /\ \A k \in 1..4 - 1 : readme[k] # End
    BY Kinds DEF Trimmed
  <2>3. First(Begin) = 2 /\ First(End) = 4
    BY <1>1, <2>2, FirstAt
  <2>4. QED
    BY <2>1, <2>3
<1>3. Spliced(readme, readme', t, 2, 4)
  BY <1>1, <1>2, BlockReplaced
<1>4. QED
  BY <1>1, <1>3 DEF Spliced, Trimmed

LEMMA EndFirstUpdated ==
    ASSUME EndFirst(readme), NEW t, UpdateReadme(Block(t))
    PROVE  Spliced(readme, readme', t, 4, 2) /\ EndFirst(readme')
<1>1. PICK n \in Nat : n = Len(readme) /\ n >= 6 /\ DOMAIN readme = 1..n
  BY DEF IsDoc, EndFirst
<1>2. Contains(readme, Begin) /\ Contains(readme, End) /\ First(Begin) = 4 /\ First(End) = 2
  <2>1. Contains(readme, Begin) /\ Contains(readme, End)
    BY <1>1 DEF Contains, EndFirst
  <2>2. /\ readme[4] = Begin /\ \A k \in 1..4 - 1 : readme[k] # Begin
        /\ readme[2] = End /\ \A k \in 1..2 - 1 : readme[k] # End
    BY Kinds DEF EndFirst
  <2>3. First(Begin) = 4 /\ First(End) = 2
    BY <1>1, <2>2, FirstAt
  <2>4. QED
    BY <2>1, <2>3
<1>3. Spliced(readme, readme', t, 4, 2)
  <2>1. 4 \in 1..Len(readme) /\ 2 \in 1..Len(readme) /\ IsDoc(readme)
    BY <1>1 DEF EndFirst
  <2>2. QED
    BY <1>2, <2>1, BlockReplaced
<1>4. EndFirst(readme')
  <2>1. /\ IsDoc(readme') /\ Len(readme') = 4 + 2 + n - 2 /\ readme'[4] = Begin
        /\ \A k \in 1..4 - 1 : readme'[k] = readme[k]
    BY <1>1, <1>3 DEF Spliced
  <2>2. QED
    BY <1>1, <2>1 DEF EndFirst
<1>5. QED
  BY <1>3, <1>4

LEMMA CrossedShapes ==
    /\ \A t : TwoBegins(readme, t) => Crossed(readme)
    /\ EndFirst(readme) => Crossed(readme)
<1>1. ASSUME NEW t, TwoBegins(readme, t) PROVE Crossed(readme)
  <2>1. DOMAIN readme = 1..6 /\ Len(readme) = 6
    BY <1>1 DEF IsDoc, TwoBegins
  <2>2. readme[2] = Begin /\ readme[4] = Begin /\ readme[6] = End
    BY <1>1 DEF TwoBegins
  <2>3. QED
    BY <2>1, <2>2 DEF Crossed, Contains
<1>2. ASSUME EndFirst(readme) PROVE Crossed(readme)
  <2>1. PICK n \in Nat : n = Len(readme) /\ n >= 6 /\ DOMAIN readme = 1..n
    BY <1>2 DEF IsDoc, EndFirst
  <2>2. readme[2] = End /\ readme[4] = Begin
    BY <1>2 DEF EndFirst
  <2>3. \A i \in 1..n : ~(i + 2 = 2)
    OBVIOUS
  <2>4. QED
    BY <2>1, <2>2, <2>3 DEF Crossed, Contains
<1>3. QED
  BY <1>1, <1>2

\* Whatever the shape: the README keeps one, gets the block, keeps its tables at most,
\* loses what stood between markers only, and if none cross it, it keeps its text and
\* has one table.
LEMMA Updated ==
    ASSUME RInv, NEW t, UpdateReadme(Block(t))
    PROVE  /\ RInv'
           /\ Range(readme') \subseteq Range(readme) \cup {Begin, Table(t), End}
           /\ Table(t) \in Range(readme')
           /\ \A piece \in Range(readme) \ Range(readme') : Enclosed(readme, piece)
           /\ ~Crossed(readme) => /\ Outside(readme') = Outside(readme)
                                  /\ Tables(readme') = Append(<<>>, Table(t))
<1> DEFINE Pieced == /\ Range(readme') \subseteq Range(readme) \cup {Begin, Table(t), End}
                     /\ Table(t) \in Range(readme')
                     /\ \A piece \in Range(readme) \ Range(readme') : Enclosed(readme, piece)
           Kept == /\ Outside(readme') = Outside(readme)
                   /\ Tables(readme') = Append(<<>>, Table(t))
<1>0. ASSUME NEW n, Len(readme) = n, IsDoc(readme), NEW i \in 1..n + 1, NEW j \in 0..n,
             Spliced(readme, readme', t, i, j),
             \/ i = n + 1 /\ j = n
             \/ i \in DOMAIN readme /\ j \in DOMAIN readme
                /\ readme[i] = Begin /\ readme[j] = End
      PROVE  Pieced
  <2>1. \A piece \in Range(readme) \ Range(readme') : Enclosed(readme, piece)
    BY <1>0, NothingElseGone
  <2>2. QED
    BY <1>0, <2>1, NoOtherPieces
<1>1. ASSUME Bare(readme)
      PROVE  RInv' /\ Pieced /\ (~Crossed(readme) => Kept)
  <2>1. Spliced(readme, readme', t, 3, 2) /\ Behind(readme', t)
    BY <1>1, BareUpdated
  <2>2. IsDoc(readme) /\ Len(readme) = 2 /\ 3 \in 1..2 + 1 /\ 2 \in 0..2
    BY <1>1 DEF Bare
  <2>3. Pieced
    BY <1>0, <2>1, <2>2
  <2>4. RInv'
    BY <2>1 DEF RInv
  <2>5. ~Crossed(readme) => Kept
    BY <1>1, <2>1, BareText, BehindText
  <2>6. QED
    BY <2>3, <2>4, <2>5
<1>2. ASSUME OneBegin(readme)
      PROVE  RInv' /\ Pieced /\ (~Crossed(readme) => Kept)
  <2>1. Spliced(readme, readme', t, 4, 3) /\ TwoBegins(readme', t)
    BY <1>2, OneBeginUpdated
  <2>2. IsDoc(readme) /\ Len(readme) = 3 /\ 4 \in 1..3 + 1 /\ 3 \in 0..3
    BY <1>2 DEF OneBegin
  <2>3. Pieced
    BY <1>0, <2>1, <2>2
  <2>4. RInv'
    BY <2>1 DEF RInv
  <2>5. ~Crossed(readme) => Kept
    BY <1>2, <2>1, OneBeginText, TwoBeginsText
  <2>6. QED
    BY <2>3, <2>4, <2>5
<1>3. ASSUME OneEnd(readme)
      PROVE  RInv' /\ Pieced /\ (~Crossed(readme) => Kept)
  <2>1. Spliced(readme, readme', t, 4, 3) /\ EndBlock(readme', t)
    BY <1>3, OneEndUpdated
  <2>2. IsDoc(readme) /\ Len(readme) = 3 /\ 4 \in 1..3 + 1 /\ 3 \in 0..3
    BY <1>3 DEF OneEnd
  <2>3. Pieced
    BY <1>0, <2>1, <2>2
  <2>4. RInv'
    BY <2>1 DEF RInv, EndBlock
  <2>5. ~Crossed(readme) => Kept
    BY <1>3, <2>1, OneEndText, EndBlockText
  <2>6. QED
    BY <2>3, <2>4, <2>5
<1>4. ASSUME NEW u, Inside(readme, u)
      PROVE  RInv' /\ Pieced /\ (~Crossed(readme) => Kept)
  <2>1. Spliced(readme, readme', t, 2, 4) /\ Inside(readme', t)
    BY <1>4, InsideUpdated
  <2>2. /\ IsDoc(readme) /\ Len(readme) = 5 /\ 2 \in 1..5 + 1 /\ 4 \in 0..5
        /\ 2 \in DOMAIN readme /\ 4 \in DOMAIN readme /\ readme[2] = Begin /\ readme[4] = End
    BY <1>4 DEF IsDoc, Inside
  <2>3. Pieced
    BY <1>0, <2>1, <2>2
  <2>4. RInv'
    BY <2>1 DEF RInv
  <2>5. ~Crossed(readme) => Kept
    BY <1>4, <2>1, InsideText
  <2>6. QED
    BY <2>3, <2>4, <2>5
<1>5. ASSUME NEW u, Behind(readme, u)
      PROVE  RInv' /\ Pieced /\ (~Crossed(readme) => Kept)
  <2>1. Spliced(readme, readme', t, 3, 5) /\ Behind(readme', t)
    BY <1>5, BehindUpdated
  <2>2. /\ IsDoc(readme) /\ Len(readme) = 5 /\ 3 \in 1..5 + 1 /\ 5 \in 0..5
        /\ 3 \in DOMAIN readme /\ 5 \in DOMAIN readme /\ readme[3] = Begin /\ readme[5] = End
    BY <1>5 DEF IsDoc, Behind
  <2>3. Pieced
    BY <1>0, <2>1, <2>2
  <2>4. RInv'
    BY <2>1 DEF RInv
  <2>5. ~Crossed(readme) => Kept
    BY <1>5, <2>1, BehindText
  <2>6. QED
    BY <2>3, <2>4, <2>5
<1>6. ASSUME NEW u, TwoBegins(readme, u)
      PROVE  RInv' /\ Pieced /\ (~Crossed(readme) => Kept)
  <2>1. Spliced(readme, readme', t, 2, 6) /\ Trimmed(readme', t)
    BY <1>6, TwoBeginsUpdated
  <2>2. /\ IsDoc(readme) /\ Len(readme) = 6 /\ 2 \in 1..6 + 1 /\ 6 \in 0..6
        /\ 2 \in DOMAIN readme /\ 6 \in DOMAIN readme /\ readme[2] = Begin /\ readme[6] = End
    BY <1>6 DEF IsDoc, TwoBegins
  <2>3. Pieced
    BY <1>0, <2>1, <2>2
  <2>4. RInv'
    BY <2>1 DEF RInv
  <2>5. ~Crossed(readme) => Kept
    BY <1>6, <2>1, CrossedShapes
  <2>6. QED
    BY <2>3, <2>4, <2>5
<1>7. ASSUME NEW u, Trimmed(readme, u)
      PROVE  RInv' /\ Pieced /\ (~Crossed(readme) => Kept)
  <2>1. Spliced(readme, readme', t, 2, 4) /\ Trimmed(readme', t)
    BY <1>7, TrimmedUpdated
  <2>2. /\ IsDoc(readme) /\ Len(readme) = 4 /\ 2 \in 1..4 + 1 /\ 4 \in 0..4
        /\ 2 \in DOMAIN readme /\ 4 \in DOMAIN readme /\ readme[2] = Begin /\ readme[4] = End
    BY <1>7 DEF IsDoc, Trimmed
  <2>3. Pieced
    BY <1>0, <2>1, <2>2
  <2>4. RInv'
    BY <2>1 DEF RInv
  <2>5. ~Crossed(readme) => Kept
    BY <1>7, <2>1, TrimmedText
  <2>6. QED
    BY <2>3, <2>4, <2>5
<1>8. ASSUME EndFirst(readme)
      PROVE  RInv' /\ Pieced /\ (~Crossed(readme) => Kept)
  <2>1. Spliced(readme, readme', t, 4, 2) /\ EndFirst(readme')
    BY <1>8, EndFirstUpdated
  <2>2. PICK n \in Nat : n = Len(readme) /\ n >= 6 /\ IsDoc(readme) /\ DOMAIN readme = 1..n
    BY <1>8 DEF EndFirst, IsDoc
  <2>3. Pieced
    <3>1. /\ 4 \in 1..n + 1 /\ 2 \in 0..n /\ 4 \in DOMAIN readme /\ 2 \in DOMAIN readme
          /\ readme[4] = Begin /\ readme[2] = End
      BY <1>8, <2>2 DEF EndFirst
    <3>2. QED
      BY <1>0, <2>1, <2>2, <3>1
  <2>4. RInv' /\ Crossed(readme)
    BY <1>8, <2>1, CrossedShapes DEF RInv
  <2>5. QED
    BY <2>3, <2>4
<1> HIDE DEF Pieced, Kept
<1>9. RInv' /\ Pieced /\ (~Crossed(readme) => Kept)
  BY <1>1, <1>2, <1>3, <1>4, <1>5, <1>6, <1>7, <1>8 DEF RInv
<1>10. QED
  BY <1>9 DEF Pieced, Kept

-------------------------------------------------------------------------------
(* What the script publishes *)

\* A number of a complete run.
LEMMA NumberMeasured ==
    ASSUME NEW s \in Sides, FileOk(file[s]), Complete(file[s])
    PROVE  CellMeasured(Accuracy(file[s]), file[s].dataset, s)
<1>1. PICK f : f = file[s]
  OBVIOUS
<1>2. f.count = Examples[f.dataset] /\ Tallied(f.dataset, f.tally, f.right, f.count)
  BY <1>1 DEF FileOk, Complete
<1>3. PICK n \in Nat, r \in Nat, c \in Nat, j \in Nat, u \in Nat :
         /\ n = f.count /\ r = f.right /\ c = f.tally["correct"] /\ j = Judged(f)
         /\ u = f.tally["unverifiable"] /\ c <= r /\ r <= c + u
  BY <1>2, Counted
<1>4. CASE j = 0
  <2>1. Accuracy(f) = <<0, 1>>
    BY <1>3, <1>4 DEF Accuracy
  <2>2. QED
    BY <1>1, <1>2, <1>3, <1>4, <2>1 DEF CellMeasured
<1>5. CASE j > 0
  <2>1. Accuracy(f) = <<c, j>>
    BY <1>3, <1>5 DEF Accuracy
  <2>2. r - u <= c
    BY <1>3
  <2>3. QED
    BY <1>1, <1>2, <1>3, <1>5, <2>1, <2>2 DEF CellMeasured
<1>6. QED
  BY <1>3, <1>4, <1>5

LEMMA BlockMeasured ==
    ASSUME PInv
    PROVE  \E t : MetricsBlock = Block(t) /\ TableMeasured(t)
<1>1. CASE \E s \in Sides : ~Complete(file[s])
  <2>1. MetricsBlock = Block(NotMeasured)
    BY <1>1 DEF MetricsBlock
  <2>2. TableMeasured(NotMeasured)
    BY <1>1 DEF TableMeasured
  <2>3. QED
    BY <2>1, <2>2
<1>2. CASE \A s \in Sides : Complete(file[s])
  <2> DEFINE t == [d \in {file[s].dataset : s \in Sides} |->
              [s \in Sides |-> IF file[s].dataset = d THEN Accuracy(file[s]) ELSE BlockedCell]]
  <2>1. MetricsBlock = Block(t)
    BY <1>2 DEF MetricsBlock
  <2>2. ASSUME NEW d \in DOMAIN t, NEW s \in Sides
        PROVE  CellMeasured(t[d][s], d, s)
    <3>1. CASE file[s].dataset = d
      <4>1. t[d][s] = Accuracy(file[s])
        BY <3>1
      <4>2. FileOk(file[s]) /\ Complete(file[s])
        BY <1>2 DEF PInv
      <4> HIDE DEF t
      <4>3. QED
        BY <3>1, <4>1, <4>2, NumberMeasured
    <3>2. CASE file[s].dataset # d
      <4>1. t[d][s] = BlockedCell
        BY <3>2
      <4> HIDE DEF t
      <4>2. QED
        BY <4>1 DEF CellMeasured
    <3>3. QED
      BY <3>1, <3>2
  <2>3. t # NotMeasured
    <3>1. file["baseline"].dataset \in DOMAIN t
      BY DEF Sides
    <3>2. DOMAIN NotMeasured = {}
      BY DEF NotMeasured
    <3>3. QED
      BY <3>1, <3>2
  <2> HIDE DEF t
  <2>4. TableMeasured(t)
    BY <2>2, <2>3 DEF TableMeasured
  <2>5. QED
    BY <2>1, <2>4
<1>3. QED
  BY <1>1, <1>2

LEMMA ReadmeStep == RInv /\ PInv /\ [PubNext]_pubVars => RInv'
<1> SUFFICES ASSUME RInv, PInv, [PubNext]_pubVars PROVE RInv'
  OBVIOUS
<1>1. CASE UNCHANGED readme
  <2>1. PICK r : r = readme
    OBVIOUS
  <2>2. readme' = r
    BY <1>1, <2>1
  <2>3. QED
    BY <2>1, <2>2 DEF RInv
<1>2. CASE Publish
  <2>1. PICK t : MetricsBlock = Block(t)
    BY <1>2, BlockMeasured
  <2>2. UpdateReadme(Block(t))
    BY <1>2, <2>1 DEF Publish
  <2>3. QED
    BY <2>2, Updated
<1>3. QED
  BY <1>1, <1>2 DEF PubNext, Measure, Rerun, pubVars

LEMMA InitRInv == PubInit => RInv
<1> SUFFICES ASSUME readme \in Readmes PROVE RInv
  BY DEF PubInit
<1>1. PICK S : S = {Intro, Begin, Table(NotMeasured), End, Outro}
  OBVIOUS
<1>2. \/ readme = <<Intro, Begin, Table(NotMeasured), End, Outro>>
      \/ readme = <<Intro, Begin, Outro>> \/ readme = <<Intro, End, Outro>>
      \/ readme = <<Intro, Outro>>
  BY DEF Readmes, Block, Intro, Outro, Begin, End, Table
<1>3. CASE readme = <<Intro, Begin, Table(NotMeasured), End, Outro>>
  <2>1. readme \in Seq(S)
    BY <1>1, <1>3
  <2>2. Inside(readme, NotMeasured)
    BY <1>3, <2>1 DEF Inside, IsDoc
  <2>3. QED
    BY <2>2 DEF RInv
<1>4. CASE readme = <<Intro, Begin, Outro>>
  <2>1. readme \in Seq(S)
    BY <1>1, <1>4
  <2>2. QED
    BY <1>4, <2>1 DEF OneBegin, IsDoc, RInv
<1>5. CASE readme = <<Intro, End, Outro>>
  <2>1. readme \in Seq(S)
    BY <1>1, <1>5
  <2>2. QED
    BY <1>5, <2>1 DEF OneEnd, IsDoc, RInv
<1>6. CASE readme = <<Intro, Outro>>
  <2>1. readme \in Seq(S)
    BY <1>1, <1>6
  <2>2. QED
    BY <1>6, <2>1 DEF Bare, IsDoc, RInv
<1>7. QED
  BY <1>2, <1>3, <1>4, <1>5, <1>6

LEMMA PublicationInvariance == PubSpec => [](PInv /\ RInv)
<1>1. PubInit => RInv
  BY InitRInv
<1>2. QED
  BY <1>1, ReadmeStep, PubInvariance, PTL DEF PubSpec

\* Whenever the script changes the README, what it adds is one table, of numbers of
\* complete runs only, or of nothing because a side has none; what it takes away stood
\* between markers; and unless stray markers cross the block, the table is the only
\* one and the text around it stays.
THEOREM OnlyMeasuredPublished == PubSpec => PublishedIsMeasured
<1>1. ASSUME PInv, RInv, [PubNext]_pubVars, readme' # readme
      PROVE  /\ \A piece \in Range(readme') \ Range(readme) :
                   piece.kind = "table" => TableMeasured(piece.table)
             /\ \E piece \in Range(readme') : piece.kind = "table" /\ TableMeasured(piece.table)
             /\ \A piece \in Range(readme) \ Range(readme') : Enclosed(readme, piece)
             /\ ~Crossed(readme) =>
                   /\ Outside(readme') = Outside(readme)
                   /\ Len(Tables(readme')) = 1
  <2>1. UpdateReadme(MetricsBlock)
    BY <1>1 DEF PubNext, Measure, Rerun, Publish, pubVars
  <2>2. PICK t : MetricsBlock = Block(t) /\ TableMeasured(t)
    BY <1>1, BlockMeasured
  <2>3. UpdateReadme(Block(t))
    BY <2>1, <2>2
  <2>4. /\ Range(readme') \subseteq Range(readme) \cup {Begin, Table(t), End}
        /\ Table(t) \in Range(readme')
        /\ \A piece \in Range(readme) \ Range(readme') : Enclosed(readme, piece)
        /\ ~Crossed(readme) => /\ Outside(readme') = Outside(readme)
                               /\ Tables(readme') = Append(<<>>, Table(t))
    BY <1>1, <2>3, Updated
  <2>5. ASSUME NEW piece \in Range(readme') \ Range(readme), piece.kind = "table"
        PROVE  TableMeasured(piece.table)
    <3>1. piece = Table(t)
      BY <2>4, <2>5, Kinds
    <3>2. QED
      BY <2>2, <3>1, Kinds
  <2>6. \E piece \in Range(readme') : piece.kind = "table" /\ TableMeasured(piece.table)
    BY <2>2, <2>4, Kinds
  <2>7. Len(Append(<<>>, Table(t))) = 1
    <3>1. PICK S : Table(t) \in S /\ <<>> \in Seq(S)
      <4>1. Table(t) \in {Table(t)} /\ <<>> \in Seq({Table(t)})
        OBVIOUS
      <4>2. QED
        BY <4>1
    <3>2. QED
      BY <3>1, AppendProperties
  <2>8. QED
    BY <2>4, <2>5, <2>6, <2>7
<1>2. QED
  BY <1>1, PublicationInvariance, PTL DEF PubSpec, PublishedIsMeasured
===============================================================================
