----------------------------- MODULE AttemptProofs -----------------------------
(***************************************************************************)
(* Theorems about a generation under a budget (Generation) and about the   *)
(* attempt around it (Attempt), for any budgets, limits, jobs and texts.   *)
(*                                                                         *)
(* ThoughtBounded is not inductive: that the count stops at the budget     *)
(* needs the processor to count exactly the tokens generated, which holds  *)
(* only while it has not closed the thought, and that no thought follows   *)
(* needs the delimiter to be generated or forced when it has.  GInv says   *)
(* so phase by phase: Shape for every call, Thinking before the processor  *)
(* has closed the thought, Closed after, Reported at the end.  That no     *)
(* token is metered twice is Metered, an invariant on top of GInv.         *)
(*                                                                         *)
(* An attempt is a generation with services around it, so that what holds  *)
(* of a generation holds in an attempt.  VerdictSound is inductive;        *)
(* Screened needs to know that the engine gets nothing before the          *)
(* screening and the client nothing before the end.                        *)
(***************************************************************************)
EXTENDS Attempt, TLAPS

Shape ==
    /\ phase = "new" => /\ processor = NoProcessor /\ logits = "free"
                        /\ thought = 0 /\ total = 0
                        /\ delimiter = "none" /\ last = "none"
    /\ HasProcessor => WithProcessor(call)
    /\ ~HasProcessor => processor = NoProcessor
    /\ (HasProcessor /\ ~call.runs) => processor = FreshProcessor
    /\ ~call.inVocabulary => delimiter = "none" /\ last # "delimiter"
    /\ last = "delimiter" => delimiter # "none"
    /\ processor.complete => Enforced
    /\ processor.complete <=> processor.stop \in {"natural_boundary", "budget_exhausted"}
    /\ processor.stop \in {"", "natural_boundary", "budget_exhausted", "exception"}
    /\ processor.exception => ~call.inVocabulary
    /\ processor.stop = "exception" => ~call.inVocabulary
    /\ logits = "forced" => processor.stop = "budget_exhausted"
    /\ logits = "blank" => ~call.inVocabulary
    /\ delimiter = "processor" => processor.stop = "budget_exhausted"

\* The processor counts the tokens generated, and is one ahead between its
\* step and the next token; only the last token can be no thought.
Thinking ==
    (Enforced /\ ~processor.complete) =>
        /\ processor.count < call.reasoning
        /\ phase = "sample" => processor.count = total + 1
        /\ phase # "sample" => processor.count = total
        /\ last \in {"delimiter", "eos"} => total = thought + 1
        /\ last \in {"none", "text"} => total = thought
        /\ delimiter # "none" => last = "delimiter"
        /\ phase \in {"call", "sample"} => last # "eos"
        /\ phase = "sample" => last # "delimiter"

Closed ==
    processor.complete =>
        /\ processor.stop = "natural_boundary" =>
              /\ delimiter = "model"
              /\ processor.count = thought + 2 /\ processor.count <= call.reasoning
              /\ logits = "free"
        /\ processor.stop = "budget_exhausted" =>
              /\ processor.count = thought + 1 /\ processor.count = call.reasoning
              /\ \/ delimiter = "processor" /\ (phase = "sample" => logits = "free")
                 \/ delimiter = "none" /\ phase = "sample" /\ logits = "forced"

Reported ==
    phase = "done" =>
        /\ report.used = IF HasProcessor THEN processor.count ELSE 0
        /\ report.stop = StopReason
        /\ report.exception = (HasProcessor /\ processor.exception)

\* The processor is never more than its one step ahead of the text, counts every
\* token when its delimiter is outside the vocabulary, and none when the engine
\* does not run it; the rest of the tokens is output.
Metered ==
    /\ HasProcessor =>
          /\ phase = "sample" => processor.count <= total + 1
          /\ phase # "sample" => processor.count <= total
          /\ call.runs /\ ~call.inVocabulary =>
                processor.count = IF phase = "sample" THEN total + 1 ELSE total
    /\ phase = "done" => report.output \in {OutputTokens(0), OutputTokens(total)}

GInv == GenTypeOK /\ Shape /\ Thinking /\ Closed /\ Reported
-------------------------------------------------------------------------------
(* What the types say of the fields. *)

LEMMA Fields ==
  ASSUME GenTypeOK
  PROVE  /\ call.reasoning \in Nat /\ call.output \in Nat /\ call.output > 0
         /\ call.validated \in BOOLEAN /\ call.fallback \in BOOLEAN
         /\ call.inVocabulary \in BOOLEAN /\ call.runs \in BOOLEAN
         /\ processor.count \in Int /\ processor.count >= -1
         /\ processor.complete \in BOOLEAN /\ processor.exception \in BOOLEAN
         /\ processor.stop \in StopReasons
         /\ maxTokens \in Nat /\ thought \in Nat /\ total \in Nat
<1>1. call.reasoning \in Nat /\ call.output \in Nat /\ call.output # 0
  BY BudgetsAssumption, OutputsAssumption DEF GenTypeOK, CallType
<1>2. /\ call.validated \in BOOLEAN /\ call.fallback \in BOOLEAN
      /\ call.inVocabulary \in BOOLEAN /\ call.runs \in BOOLEAN
  BY DEF GenTypeOK, CallType
<1>3. processor.count \in Nat \cup {-1}
  BY DEF GenTypeOK, ProcessorType
<1>4. /\ processor.complete \in BOOLEAN /\ processor.exception \in BOOLEAN
      /\ processor.stop \in StopReasons
  BY DEF GenTypeOK, ProcessorType
<1>5. maxTokens \in Nat /\ thought \in Nat /\ total \in Nat
  BY DEF GenTypeOK
<1> QED
  BY <1>1, <1>2, <1>3, <1>4, <1>5

LEMMA ProcessorFields ==
  /\ NoProcessor.count = -1 /\ FreshProcessor.count = 0
  /\ NoProcessor.complete = FALSE /\ FreshProcessor.complete = FALSE
  /\ NoProcessor.stop = "" /\ FreshProcessor.stop = ""
  /\ NoProcessor.exception = FALSE /\ FreshProcessor.exception = FALSE
  /\ NoProcessor \in ProcessorType /\ FreshProcessor \in ProcessorType
  BY DEF NoProcessor, FreshProcessor, Processor, ProcessorType, StopReasons, FinishReasons
-------------------------------------------------------------------------------
(* GInv holds initially, and each action keeps it. *)

LEMMA Initially == GenInit => GInv
<1> SUFFICES ASSUME GenInit PROVE GInv
  OBVIOUS
<1>1. GenTypeOK
  BY ProcessorFields
  DEF GenInit, GenTypeOK, ReportType, NoReport, Tokens, StopReasons, FinishReasons
<1>2. Shape
  BY ProcessorFields DEF GenInit, Shape, HasProcessor, Enforced
<1>3. Thinking /\ Closed /\ Reported
  BY ProcessorFields DEF GenInit, Thinking, Closed, Reported, HasProcessor, Enforced
<1> QED
  BY <1>1, <1>2, <1>3 DEF GInv

LEMMA BuildCallSpecKeeps ==
  ASSUME GInv, BuildCallSpec
  PROVE  GInv'
<1>1. processor' = IF WithProcessor(call) THEN FreshProcessor ELSE NoProcessor
  BY DEF BuildCallSpec
<1>2. maxTokens' \in Nat
  BY Fields DEF GInv, BuildCallSpec
<1>3. GenTypeOK'
  BY <1>1, <1>2, ProcessorFields DEF GInv, GenTypeOK, BuildCallSpec
<1>4. /\ processor'.complete = FALSE /\ processor'.stop = "" /\ processor'.exception = FALSE
      /\ processor'.count = IF WithProcessor(call) THEN 0 ELSE -1
  BY <1>1, ProcessorFields
<1>5. HasProcessor' <=> WithProcessor(call)
  <2>1. 0 # -1
    OBVIOUS
  <2> QED
    BY <1>4, <2>1, Zenon DEF HasProcessor
<1>6. /\ phase = "new" /\ phase' = "call"
      /\ logits = "free" /\ delimiter = "none" /\ last = "none"
      /\ thought = 0 /\ total = 0
      /\ UNCHANGED <<call, logits, thought, delimiter, last, total, report>>
  BY DEF GInv, Shape, BuildCallSpec
<1>7. Shape'
  BY <1>1, <1>4, <1>5, <1>6 DEF Shape, Enforced, WithProcessor
<1>8. WithProcessor(call) => call.reasoning > 0
  BY DEF WithProcessor
<1>9. Thinking'
  <2>1. Enforced' => processor'.count = 0 /\ call.reasoning > 0
    BY <1>4, <1>5, <1>8 DEF Enforced
  <2>2. /\ phase' = "call" /\ last' = "none" /\ delimiter' = "none"
        /\ thought' = 0 /\ total' = 0 /\ call' = call /\ call.reasoning \in Nat
    BY <1>6, Fields DEF GInv
  <2> QED
    BY <2>1, <2>2 DEF Thinking
<1>10. Closed' /\ Reported'
  BY <1>4, <1>6 DEF Closed, Reported
<1> QED
  BY <1>3, <1>7, <1>9, <1>10 DEF GInv

\* CallProcessor leaves everything but the processor and the logits.
LEMMA CallProcessorFrame ==
  ASSUME GInv, CallProcessor
  PROVE  /\ phase = "call" /\ phase' = "sample"
         /\ UNCHANGED <<call, maxTokens, thought, delimiter, last, total, report>>
         /\ Reported'
  BY DEF CallProcessor, Reported

LEMMA SilentKeeps ==
  ASSUME GInv, CallProcessor, ~(HasProcessor /\ call.runs) \/ StepComplete
  PROVE  GInv'
<1>1. logits' = "free" /\ processor' = processor
  BY DEF CallProcessor, StepComplete
<1>2. ~Enforced \/ processor.complete
  BY DEF Enforced, StepComplete
<1>3. GenTypeOK'
  BY <1>1, CallProcessorFrame DEF GInv, GenTypeOK
<1>4. Shape'
  BY <1>1, CallProcessorFrame DEF GInv, Shape, HasProcessor, Enforced, WithProcessor
<1>5. Thinking'
  BY <1>1, <1>2, CallProcessorFrame DEF GInv, Thinking, HasProcessor, Enforced
<1>6. Closed'
  BY <1>1, CallProcessorFrame DEF GInv, Closed
<1> QED
  BY <1>3, <1>4, <1>5, <1>6, CallProcessorFrame DEF GInv

\* A step of the processor on a call it counts: what is known before.
LEMMA Counting ==
  ASSUME GInv, CallProcessor, HasProcessor, call.runs, ~processor.complete
  PROVE  /\ Counted \in Nat /\ Counted # -1 /\ Counted = processor.count + 1
         /\ processor.count \in Nat /\ call.reasoning \in Nat
         /\ call.inVocabulary => 
               /\ processor.count < call.reasoning /\ processor.count = total
               /\ last # "eos" /\ (delimiter # "none" => last = "delimiter")
               /\ last = "delimiter" => total = thought + 1
               /\ last \in {"none", "text"} => total = thought
         /\ ~call.inVocabulary => delimiter = "none" /\ last # "delimiter"
<1>1. processor.count \in Nat
  BY Fields DEF GInv, HasProcessor
<1>2. Counted \in Nat /\ Counted # -1
  BY <1>1 DEF Counted
<1>3. call.inVocabulary => Enforced
  BY DEF Enforced
<1> QED
  BY <1>1, <1>2, <1>3, Fields, CallProcessorFrame DEF GInv, Thinking, Shape, Counted

LEMMA CountsKeeps ==
  ASSUME GInv, CallProcessor, HasProcessor, call.runs, StepCounts
  PROVE  GInv'
<1>1. processor' \in ProcessorType
  BY Counting DEF StepCounts, GInv, GenTypeOK, ProcessorType
<1>2. /\ processor'.count = Counted /\ processor'.complete = processor.complete
      /\ processor'.stop = processor.stop /\ processor'.exception = processor.exception
      /\ logits' = "free" /\ ~processor.complete
  BY DEF StepCounts, GInv, GenTypeOK, ProcessorType
<1>3. GenTypeOK'
  BY <1>1, <1>2, CallProcessorFrame DEF GInv, GenTypeOK
<1>4. HasProcessor'
  BY <1>2, Counting DEF HasProcessor
<1>5. Shape'
  BY <1>2, <1>4, CallProcessorFrame DEF GInv, Shape, Enforced, WithProcessor
<1>6. Counted < call.reasoning /\ last # "delimiter"
  BY <1>2, Counting DEF StepCounts, CeilingReached, AtDelimiter
<1>7. Thinking'
  BY <1>2, <1>6, Counting, CallProcessorFrame DEF Thinking, Enforced
<1>8. Closed'
  BY <1>2 DEF Closed
<1> QED
  BY <1>3, <1>5, <1>7, <1>8, CallProcessorFrame DEF GInv

LEMMA NoticesKeeps ==
  ASSUME GInv, CallProcessor, HasProcessor, call.runs, StepNotices
  PROVE  GInv'
<1>1. processor' \in ProcessorType
  BY Counting DEF StepNotices, GInv, GenTypeOK, ProcessorType, StopReasons
<1>2. /\ processor'.count = Counted /\ processor'.complete = TRUE
      /\ processor'.stop = "natural_boundary" /\ processor'.exception = processor.exception
      /\ logits' = "free" /\ ~processor.complete /\ last = "delimiter"
  BY DEF StepNotices, GInv, GenTypeOK, ProcessorType, AtDelimiter
<1>3. GenTypeOK'
  BY <1>1, <1>2, CallProcessorFrame DEF GInv, GenTypeOK
<1>4. HasProcessor' /\ call.inVocabulary
  BY <1>2, Counting DEF HasProcessor
<1>5. delimiter = "model"
  <2>1. delimiter # "processor"
    BY <1>2 DEF GInv, Shape
  <2> QED
    BY <1>2, <2>1 DEF GInv, GenTypeOK, Shape
<1>6. Shape'
  BY <1>2, <1>4, <1>5, CallProcessorFrame DEF GInv, Shape, Enforced, WithProcessor
<1>7. Counted = thought + 2 /\ Counted <= call.reasoning
  BY <1>2, <1>4, Counting, Fields DEF GInv
<1>8. Thinking'
  BY <1>2 DEF Thinking
<1>9. Closed'
  BY <1>2, <1>5, <1>7, CallProcessorFrame DEF Closed
<1> QED
  BY <1>3, <1>6, <1>8, <1>9, CallProcessorFrame DEF GInv

LEMMA ForcesKeeps ==
  ASSUME GInv, CallProcessor, HasProcessor, call.runs, StepForces
  PROVE  GInv'
<1>1. processor' \in ProcessorType
  BY Counting DEF StepForces, GInv, GenTypeOK, ProcessorType, StopReasons
<1>2. /\ processor'.count = Counted /\ processor'.complete = TRUE
      /\ processor'.stop = "budget_exhausted" /\ processor'.exception = processor.exception
      /\ logits' = "forced" /\ ~processor.complete /\ last # "delimiter"
      /\ call.inVocabulary
  BY DEF StepForces, GInv, GenTypeOK, ProcessorType, AtDelimiter, CeilingReached
<1>3. GenTypeOK'
  BY <1>1, <1>2, CallProcessorFrame DEF GInv, GenTypeOK
<1>4. HasProcessor'
  BY <1>2, Counting DEF HasProcessor
<1>5. delimiter = "none"
  BY <1>2, Counting DEF GInv, GenTypeOK
<1>6. Shape'
  BY <1>2, <1>4, <1>5, CallProcessorFrame DEF GInv, Shape, Enforced, WithProcessor
<1>7. Counted = thought + 1 /\ Counted = call.reasoning
  <2>1. last \in {"none", "text"}
    BY <1>2, Counting DEF GInv, GenTypeOK, Tokens
  <2>2. Counted >= call.reasoning
    BY DEF StepForces, CeilingReached
  <2> QED
    BY <1>2, <2>1, <2>2, Counting
<1>8. Thinking'
  BY <1>2 DEF Thinking
<1>9. Closed'
  BY <1>2, <1>5, <1>7, CallProcessorFrame DEF Closed
<1> QED
  BY <1>3, <1>6, <1>8, <1>9, CallProcessorFrame DEF GInv

LEMMA FailsKeeps ==
  ASSUME GInv, CallProcessor, HasProcessor, call.runs, StepFails
  PROVE  GInv'
<1>1. processor' \in ProcessorType
  BY Counting DEF StepFails, GInv, GenTypeOK, ProcessorType, StopReasons
<1>2. /\ processor'.count = Counted /\ processor'.complete = FALSE
      /\ processor'.stop = "exception" /\ processor'.exception = TRUE
      /\ logits' = "blank" /\ ~processor.complete /\ ~call.inVocabulary
  BY DEF StepFails, GInv, GenTypeOK, ProcessorType
<1>3. GenTypeOK'
  BY <1>1, <1>2, CallProcessorFrame DEF GInv, GenTypeOK
<1>4. HasProcessor' /\ ~Enforced'
  BY <1>2, CallProcessorFrame, Counting DEF HasProcessor, Enforced
<1>5. Shape'
  BY <1>2, <1>4, Counting, CallProcessorFrame DEF GInv, Shape, WithProcessor
<1>6. Thinking' /\ Closed'
  BY <1>2, <1>4 DEF Thinking, Closed
<1> QED
  BY <1>3, <1>5, <1>6, CallProcessorFrame DEF GInv

LEMMA CallProcessorKeeps ==
  ASSUME GInv, CallProcessor
  PROVE  GInv'
  BY SilentKeeps, CountsKeeps, NoticesKeeps, ForcesKeeps, FailsKeeps DEF CallProcessor

LEMMA SampleKeeps ==
  ASSUME GInv, NEW t \in Tokens \ {"none"}, Sample(t)
  PROVE  GInv'
<1>1. /\ phase = "sample" /\ phase' \in {"call", "reply"} /\ (t = "eos" => phase' = "reply")
      /\ total' = total + 1 /\ last' = t
      /\ UNCHANGED <<call, maxTokens, processor, logits, report>>
  BY DEF Sample
<1>2. thought' = IF t = "text" /\ delimiter = "none" THEN thought + 1 ELSE thought
  BY DEF Sample
<1>3. delimiter' = IF t # "delimiter" \/ delimiter # "none" THEN delimiter
                   ELSE IF logits = "forced" THEN "processor" ELSE "model"
  BY DEF Sample
<1>4. /\ logits = "forced" => t = "delimiter"
      /\ t = "delimiter" => call.inVocabulary
  BY DEF Sample, Permitted
<1>5. GenTypeOK'
  <2>1. total' \in Nat /\ thought' \in Nat
    BY <1>1, <1>2, Fields DEF GInv
  <2>2. delimiter' \in {"none", "model", "processor"}
    BY <1>3 DEF GInv, GenTypeOK
  <2> QED
    BY <1>1, <2>1, <2>2 DEF GInv, GenTypeOK
<1>6. Shape'
  BY <1>1, <1>3, <1>4 DEF GInv, Shape, HasProcessor, Enforced, WithProcessor
<1>7. Thinking'
  <2> SUFFICES ASSUME Enforced, ~processor.complete
               PROVE  Thinking'
    BY <1>1 DEF Thinking, Enforced, HasProcessor
  <2>1. /\ processor.count < call.reasoning /\ processor.count = total + 1
        /\ last \notin {"delimiter", "eos"} /\ delimiter = "none"
    BY <1>1 DEF GInv, Thinking
  <2>2. total = thought
    BY <2>1 DEF GInv, GenTypeOK, Thinking, Tokens
  <2>3. /\ last' \in {"delimiter", "eos"} => total' = thought' + 1
        /\ last' \in {"none", "text"} => total' = thought'
    BY <1>1, <1>2, <2>1, <2>2, Fields DEF GInv
  <2>4. delimiter' # "none" => last' = "delimiter"
    BY <1>1, <1>3, <2>1
  <2> QED
    BY <1>1, <2>1, <2>3, <2>4 DEF Thinking
<1>8. Closed'
  <2>1. processor.complete => thought' = thought
    BY <1>1, <1>2, <1>4 DEF GInv, Closed, Shape
  <2>2. processor.stop = "natural_boundary" => (processor.complete => delimiter' = "model")
    BY <1>3 DEF GInv, Closed
  <2>3. (processor.complete /\ processor.stop = "budget_exhausted") => delimiter' = "processor"
    BY <1>1, <1>3, <1>4 DEF GInv, Closed
  <2> QED
    BY <1>1, <2>1, <2>2, <2>3 DEF GInv, Closed
<1>9. Reported'
  BY <1>1 DEF Reported
<1> QED
  BY <1>5, <1>6, <1>7, <1>8, <1>9 DEF GInv

LEMMA BuildResultKeeps ==
  ASSUME GInv, BuildResult
  PROVE  GInv'
<1>1. /\ phase = "reply" /\ phase' = "done"
      /\ UNCHANGED <<call, maxTokens, processor, logits, thought, delimiter, last, total>>
  BY DEF BuildResult
<1>2. PICK counted \in {0, total} :
          report' = [used |-> IF HasProcessor THEN processor.count ELSE 0,
                     output |-> OutputTokens(counted),
                     stop |-> StopReason,
                     exception |-> HasProcessor /\ processor.exception]
  BY DEF BuildResult
<1>3. (IF HasProcessor THEN processor.count ELSE 0) \in Nat
  BY Fields DEF GInv, HasProcessor
<1>4. OutputTokens(counted) \in Nat
  BY <1>3, Fields DEF GInv, OutputTokens
<1>5. StopReason \in StopReasons
  BY Fields DEF GInv, StopReason, StopReasons, FinishReason, FinishReasons
<1>6. report' \in ReportType
  BY <1>2, <1>3, <1>4, <1>5, Fields DEF GInv, ReportType
<1>7. GenTypeOK'
  BY <1>1, <1>6 DEF GInv, GenTypeOK
<1>8. Shape' /\ Thinking' /\ Closed'
  BY <1>1 DEF GInv, Shape, Thinking, Closed, HasProcessor, Enforced, WithProcessor
<1>9. Reported'
  BY <1>1, <1>2 DEF Reported, StopReason, HasProcessor, FinishReason
<1> QED
  BY <1>7, <1>8, <1>9 DEF GInv

\* Every step of the call, and every step of others, keeps GInv.
LEMMA StepKeeps ==
  ASSUME GInv, [GenNext]_genVars
  PROVE  GInv'
<1>1. CASE GenNext
  BY <1>1, BuildCallSpecKeeps, CallProcessorKeeps, SampleKeeps, BuildResultKeeps DEF GenNext
<1>2. CASE UNCHANGED genVars
  <2>1. GenTypeOK'
    BY <1>2 DEF genVars, GInv, GenTypeOK
  <2>2. Shape'
    BY <1>2 DEF genVars, GInv, Shape, HasProcessor, Enforced, WithProcessor
  <2>3. Thinking'
    BY <1>2 DEF genVars, GInv, Thinking, HasProcessor, Enforced, WithProcessor
  <2>4. Closed'
    BY <1>2 DEF genVars, GInv, Closed, HasProcessor, Enforced, WithProcessor
  <2>5. Reported'
    BY <1>2 DEF genVars, GInv, Reported, HasProcessor, StopReason, FinishReason
  <2>6. QED
    BY <2>1, <2>2, <2>3, <2>4, <2>5 DEF GInv
<1> QED
  BY <1>1, <1>2
-------------------------------------------------------------------------------
(* What GInv says to a reader. *)

LEMMA ClosedCount ==
  ASSUME GInv, processor.complete
  PROVE  /\ processor.count = thought + 1 \/ processor.count = thought + 2
         /\ processor.count <= call.reasoning
<1>1. CASE processor.stop = "natural_boundary"
  BY <1>1 DEF GInv, Closed
<1>2. CASE processor.stop = "budget_exhausted"
  <2>1. processor.count = thought + 1 /\ processor.count = call.reasoning
    BY <1>2 DEF GInv, Closed
  <2> QED
    BY <2>1, Fields DEF GInv
<1> QED
  BY <1>1, <1>2 DEF GInv, Shape

LEMMA BoundedByGInv == GInv => ThoughtBounded
<1> SUFFICES ASSUME GInv, Enforced
             PROVE  thought < call.reasoning /\ processor.count <= call.reasoning
  BY DEF ThoughtBounded
<1>1. CASE processor.complete
  BY <1>1, ClosedCount, Fields DEF GInv
<1>2. CASE ~processor.complete
  <2>1. processor.count < call.reasoning /\ processor.count >= total
    BY <1>2, Fields DEF GInv, Thinking
  <2>2. total >= thought
    BY <1>2, Fields DEF GInv, GenTypeOK, Thinking, Tokens
  <2> QED
    BY <2>1, <2>2, Fields DEF GInv
<1> QED
  BY <1>1, <1>2

LEMMA UntouchedByGInv == GInv => AnswerUntouched
  BY DEF GInv, GenTypeOK, Shape, Closed, AnswerUntouched, Enforced

LEMMA MeteredStep ==
  ASSUME GInv, Metered, [GenNext]_genVars
  PROVE  Metered'
<1>1. CASE BuildCallSpec
  <2>1. /\ processor'.count \in {0, -1} /\ phase' = "call" /\ total' = 0
        /\ call' = call /\ report' = report
    BY <1>1, ProcessorFields DEF BuildCallSpec, GInv, Shape
  <2>2. HasProcessor' => processor'.count = 0
    BY <2>1 DEF HasProcessor
  <2> QED
    BY <2>1, <2>2 DEF Metered
<1>2. CASE CallProcessor
  <2>1. phase = "call" /\ phase' = "sample" /\ UNCHANGED <<call, total, report>>
    BY <1>2, CallProcessorFrame
  <2>2. CASE ~(HasProcessor /\ call.runs) \/ StepComplete
    <3>1. processor' = processor
      BY <1>2, <2>2 DEF CallProcessor, StepComplete
    <3>2. ~(HasProcessor /\ call.runs) \/ call.inVocabulary
      BY <2>2 DEF StepComplete, GInv, Shape, Enforced
    <3>3. HasProcessor => processor.count \in Nat /\ processor.count <= total /\ total \in Nat
      BY <2>1, Fields DEF GInv, Metered, HasProcessor
    <3> QED
      BY <2>1, <3>1, <3>2, <3>3 DEF Metered, HasProcessor
  <2>3. CASE HasProcessor /\ call.runs /\ ~StepComplete
    <3>1. ~processor.complete /\ processor'.count = Counted
      BY <1>2, <2>3 DEF CallProcessor, StepCounts, StepNotices, StepForces, StepFails,
                        GInv, GenTypeOK, ProcessorType
    <3>2. Counted = processor.count + 1 /\ processor.count \in Nat /\ total \in Nat
      BY <1>2, <2>3, <3>1, Counting, Fields DEF GInv
    <3> QED
      BY <2>1, <2>3, <3>1, <3>2 DEF Metered
  <2> QED
    BY <2>2, <2>3
<1>3. ASSUME NEW t \in Tokens \ {"none"}, Sample(t)
      PROVE  Metered'
  <2>1. phase = "sample" /\ phase' \in {"call", "reply"} /\ total' = total + 1
        /\ UNCHANGED <<call, processor, report>>
    BY <1>3 DEF Sample
  <2> QED
    BY <2>1 DEF Metered, HasProcessor
<1>4. CASE BuildResult
  <2>1. /\ phase = "reply" /\ phase' = "done" /\ UNCHANGED <<call, processor, total>>
        /\ report'.output \in {OutputTokens(0), OutputTokens(total)}
    BY <1>4 DEF BuildResult
  <2> QED
    BY <2>1 DEF Metered, HasProcessor, OutputTokens
<1>5. CASE UNCHANGED genVars
  BY <1>5 DEF genVars, Metered, HasProcessor, OutputTokens
<1> QED
  BY <1>1, <1>2, <1>3, <1>4, <1>5 DEF GenNext

LEMMA TruthfulByGInv == GInv /\ Metered => ReportTruthful
<1> SUFFICES ASSUME GInv, Metered, phase = "done"
             PROVE  /\ report.stop = "budget_exhausted" =>
                          delimiter = "processor" /\ report.used = call.reasoning
                    /\ delimiter = "processor" => report.stop = "budget_exhausted"
                    /\ report.stop = "natural_boundary" => delimiter = "model"
                    /\ report.stop = "hard_truncation" <=> call.reasoning > 0 /\ ~HasProcessor
                    /\ report.exception => ~call.inVocabulary
                    /\ Enforced => report.used \in thought..(thought + 2)
                    /\ HasProcessor /\ call.runs /\ ~call.inVocabulary => report.used = total
                    /\ ~HasProcessor \/ ~call.runs => report.used = 0
                    /\ report.used <= total
                    /\ report.output = 0 \/ report.used + report.output = total
  BY DEF ReportTruthful
<1>1. /\ report.used = IF HasProcessor THEN processor.count ELSE 0
      /\ report.stop = StopReason
      /\ report.exception = (HasProcessor /\ processor.exception)
  BY DEF GInv, Reported
<1>2. FinishReason \in {"stop", "length"}
  BY DEF FinishReason
<1>3. /\ report.stop = "budget_exhausted" => HasProcessor /\ processor.stop = "budget_exhausted"
      /\ report.stop = "natural_boundary" => HasProcessor /\ processor.stop = "natural_boundary"
      /\ report.stop = "hard_truncation" <=> call.reasoning > 0 /\ ~HasProcessor
  BY <1>1, <1>2 DEF GInv, Shape, StopReason
<1>4. delimiter = "processor" => HasProcessor /\ processor.stop = "budget_exhausted"
  BY DEF GInv, Shape, Enforced
<1>5. Enforced => report.used \in thought..(thought + 2)
  <2> SUFFICES ASSUME Enforced PROVE processor.count \in thought..(thought + 2)
    BY <1>1 DEF Enforced
  <2>1. CASE processor.complete
    BY <2>1, ClosedCount, Fields DEF GInv
  <2>2. CASE ~processor.complete
    <3>1. processor.count = total /\ (total = thought \/ total = thought + 1)
      BY <2>2, Fields DEF GInv, GenTypeOK, Thinking, Tokens
    <3> QED
      BY <3>1, Fields DEF GInv
  <2> QED
    BY <2>1, <2>2
<1>6. /\ HasProcessor /\ call.runs /\ ~call.inVocabulary => report.used = total
      /\ ~HasProcessor \/ ~call.runs => report.used = 0
  BY <1>1, ProcessorFields DEF GInv, Shape, Metered
<1>7. report.used \in Nat /\ report.used <= total /\ total \in Nat
  BY <1>1, Fields DEF GInv, HasProcessor, Metered
<1>8. report.output = 0 \/ report.used + report.output = total
  BY <1>1, <1>7 DEF Metered, OutputTokens
<1> QED
  BY <1>1, <1>3, <1>4, <1>5, <1>6, <1>7, <1>8 DEF GInv, Shape, Closed, StopReason
-------------------------------------------------------------------------------
\* GInv is an invariant of a call, for all budgets and output limits.
THEOREM GenInvariance == GenSpec => []GInv
<1>1. GInv /\ [GenNext]_genVars => GInv'
  BY StepKeeps
<1> QED
  BY Initially, <1>1, PTL DEF GenSpec

\* The type invariant of a call: counts stay natural numbers and the report is
\* always one that build_result can make.
THEOREM GenTypeCorrect == GenSpec => []GenTypeOK
<1>1. GInv => GenTypeOK
  BY DEF GInv
<1> QED
  BY GenInvariance, <1>1, PTL

\* An enforced budget is never exceeded, whatever the model generates.
THEOREM ThoughtIsBounded == GenSpec => []ThoughtBounded
  BY GenInvariance, BoundedByGInv, PTL

\* The processor forces a delimiter only in a thought, never in the answer.
THEOREM AnswerIsUntouched == GenSpec => []AnswerUntouched
  BY GenInvariance, UntouchedByGInv, PTL

\* The result handed to the gateway tells how the thought really ended and
\* meters no token twice; what it meters as reasoning is said for every engine,
\* with the zero of one that does not run the processor.
THEOREM ReportIsTruthful == GenSpec => []ReportTruthful
<1>1. GenInit => Metered
  BY ProcessorFields DEF GenInit, Metered, HasProcessor
<1>2. GInv /\ Metered /\ [GenNext]_genVars => Metered'
  BY MeteredStep
<1> QED
  BY <1>1, <1>2, GenInvariance, TruthfulByGInv, PTL DEF GenSpec
-------------------------------------------------------------------------------
(* The attempt around a generation *)

LEMMA StepOfGeneration == [Next]_vars => [GenNext]_genVars
<1> SUFFICES ASSUME [Next]_vars PROVE [GenNext]_genVars
  OBVIOUS
<1>1. CASE Generate
  BY <1>1 DEF Generate, GenNext
<1>2. CASE Report
  BY <1>2 DEF Report, GenNext
<1>3. CASE \/ Screen \/ CallFails \/ Receive \/ Show \/ ReportRaises \/ Verify
           \/ BackgroundCheck \/ Finished \/ UNCHANGED vars
  BY <1>3 DEF Screen, CallFails, Receive, Show, ReportRaises, Verify, BackgroundCheck,
              Finished, vars
<1> QED
  BY <1>1, <1>2, <1>3 DEF Next

\* The pipeline around a generation cannot make it do anything else: every
\* attempt of the gateway is a behaviour of the adapter and the engine.
THEOREM AttemptImplementsGeneration == Spec => GenSpec
<1>1. Init => GenInit
  BY DEF Init
<1> QED
  BY <1>1, StepOfGeneration, PTL DEF Spec, GenSpec

\* In every attempt an enforced budget of reasoning tokens is kept.
THEOREM AttemptThoughtBounded == Spec => []ThoughtBounded
  BY AttemptImplementsGeneration, ThoughtIsBounded, PTL
-------------------------------------------------------------------------------
(* The verdict *)

LEMMA DecisionIsVerdict ==
  ASSUME NEW c, NEW s, NEW a, NEW echo,
         VerifierDecision(c, VerifyReply(SchemaVerdict(s, a), echo)) \in {"correct", "incorrect"}
  PROVE  /\ c = "answered"
         /\ SchemaVerdict(s, a) = VerifierDecision(c, VerifyReply(SchemaVerdict(s, a), echo))
<1> DEFINE v == SchemaVerdict(s, a)
           r == VerifyReply(v, echo)
<1>1. v \in {"correct", "incorrect", "unverifiable"}
  BY DEF SchemaVerdict
<1>2. r.passed = (v = "correct") /\ r.saysUnverifiable = (v = "unverifiable" \/ echo)
  BY DEF VerifyReply
<1> HIDE DEF v, r
<1>3. Usable(c, r)
  BY DEF VerifierDecision, v, r
<1>4. CASE r.passed
  BY <1>2, <1>3, <1>4 DEF VerifierDecision, Usable, v, r
<1>5. CASE ~r.passed
  BY <1>1, <1>2, <1>3, <1>5 DEF VerifierDecision, Usable, v, r
<1> QED
  BY <1>4, <1>5

\* No failure of the verifier, no timeout and no wording of its reason makes
\* an answer count as correct or incorrect: only its judgement does, or a reply
\* without one, which counts as incorrect.
THEOREM VerdictIsSound == Spec => []VerdictSound
<1>1. Init => VerdictSound
  BY DEF Init, VerdictSound
<1>2. VerdictSound /\ [Next]_vars => VerdictSound'
  <2> SUFFICES ASSUME VerdictSound, [Next]_vars PROVE VerdictSound'
    OBVIOUS
  <2>1. CASE Verify
    <3>1. PICK c \in Channels, a \in {"malformed", "violates", "conforms"}, known \in BOOLEAN :
          \E echo \in Echoes(a) :
             LET v == SchemaVerdict(job.schema, a)
                 reply == IF known THEN VerifyReply(v, echo) ELSE Fieldless
             IN  /\ judged' = IF c = "answered" /\ known THEN v ELSE "none"
                 /\ verdict' = VerifierDecision(c, reply)
                 /\ Understood("verifier", c, known)
      BY <2>1 DEF Verify
    <3>2. CASE known
      BY <3>1, <3>2, DecisionIsVerdict DEF VerdictSound, Understood
    <3>3. CASE ~known
      <4>1. verdict' = VerifierDecision(c, Fieldless) /\ (c = "answered" => "verifier" \in defaulted')
        BY <3>1, <3>3 DEF Understood
      <4>2. VerifierDecision(c, Fieldless) = IF c = "answered" THEN "incorrect" ELSE "unverifiable"
        BY DEF VerifierDecision, Usable, Fieldless
      <4> QED
        BY <4>1, <4>2 DEF VerdictSound
    <3> QED
      BY <3>2, <3>3
  <2>2. CASE Report
    BY <2>2 DEF Report, VerdictSound
  <2>3. CASE Screen
    <3>1. UNCHANGED <<judged, verdict>> /\ ("verifier" \in defaulted => "verifier" \in defaulted')
      BY <2>3 DEF Screen, Understood
    <3> QED
      BY <3>1 DEF VerdictSound
  <2>4. CASE Show
    BY <2>4 DEF Show, Understood, VerdictSound
  <2>5. CASE \/ Generate \/ CallFails \/ Receive \/ ReportRaises
             \/ BackgroundCheck \/ Finished \/ UNCHANGED vars
    BY <2>5 DEF Generate, CallFails, Receive, ReportRaises, BackgroundCheck,
                Finished, vars, attemptVars, VerdictSound
  <2> QED
    BY <2>1, <2>2, <2>3, <2>4, <2>5 DEF Next
<1> QED
  BY <1>1, <1>2, PTL DEF Spec
-------------------------------------------------------------------------------
(* Both sides of the model are screened. *)

Approved ==
    Screens(job) =>
        IF "input" \in defaulted
        THEN input = "pass"
        ELSE /\ prompt.length
             /\ RunsSafety(job) => ~Unsafe(job.onnx, prompt)
             /\ RunsInjection(job) /\ Injected(job.onnx, prompt) => input = "flag"

Shown ==
    job.output = "sync" =>
        /\ output \in {"pass", "degraded"}
        /\ output = "pass" /\ "output" \notin defaulted => ~Unsafe(job.onnx, completion)

SInv ==
    /\ stage \in {"screen", "generate", "show", "report", "verify", "end"}
    /\ stage = "screen" => phase = "new" /\ defaulted = {}
    /\ stage \in {"generate", "show", "report", "verify"} \/ phase # "new" => Approved
    /\ stage \in {"generate", "show"} => "output" \notin defaulted
    /\ stage # "end" => answer = "none"
    /\ stage \in {"report", "verify"} \/ answer = "delivered" => Shown

\* What a known reply and one that is not known make of a call.
LEMMA ApprovalApproves ==
  ASSUME NEW c, NEW onnx, NEW t, NEW i \in BOOLEAN, NEW s \in BOOLEAN, NEW d,
         d = InputDecision(c, InputReply(onnx, t, i, s)),
         d \notin {"block", "degraded"}
  PROVE  /\ t.length
         /\ s => ~Unsafe(onnx, t)
         /\ i /\ Injected(onnx, t) => d = "flag"
<1> DEFINE r == InputReply(onnx, t, i, s)
<1>1. c # "timeout" /\ Usable(c, r) /\ d = Parsed(r)
  BY DEF InputDecision, Usable
<1>2. r.ok
  BY <1>1 DEF Usable
<1>3. t.length
  BY <1>2 DEF InputReply, Refused
<1>4. r.result = IF s /\ Unsafe(onnx, t) THEN "block"
                 ELSE IF i /\ Injected(onnx, t) THEN "flag" ELSE "pass"
  BY <1>3 DEF InputReply
<1>5. d = r.result
  BY <1>1, <1>4 DEF Parsed
<1> QED
  BY <1>1, <1>3, <1>4, <1>5

LEMMA UnrecognizedPasses ==
  /\ InputDecision("answered", Unrecognized) = "pass"
  /\ \A c \in Channels \ {"answered"} :
        /\ InputDecision(c, Unrecognized) \in {"block", "degraded"}
        /\ OutputDecision(c, Unrecognized) = "degraded"
  /\ OutputDecision("answered", Unrecognized) = "pass"
  BY DEF InputDecision, OutputDecision, Parsed, Usable, Unrecognized, Channels

LEMMA ShownIsSafe ==
  ASSUME NEW c, NEW onnx, NEW t, NEW d,
         d = OutputDecision(c, OutputReply(onnx, t)), d # "block"
  PROVE  d = "degraded" \/ (d = "pass" /\ ~Unsafe(onnx, t))
  BY DEF OutputDecision, OutputReply, Parsed, Usable, Refused

LEMMA ScreenKeeps ==
  ASSUME SInv, Screen
  PROVE  SInv'
<1>1. /\ UNCHANGED <<genVars, job, completion, output>>
      /\ stage = "screen" /\ phase = "new" /\ answer = "none" /\ phase' = "new"
      /\ defaulted = {}
      /\ IF input' \in {"block", "degraded"}
         THEN stage' = "end" /\ answer' = "guardrail_block"
         ELSE stage' = "generate" /\ UNCHANGED answer
  BY DEF Screen, SInv, genVars
<1>2. PICK t \in Texts, c \in Channels, known \in BOOLEAN :
          LET reply == IF known
                       THEN InputReply(job.onnx, t, RunsInjection(job), RunsSafety(job))
                       ELSE Unrecognized
          IN  /\ prompt' = t
              /\ IF Screens(job)
                 THEN /\ input' = InputDecision(c, reply)
                      /\ Understood("input", c, known)
                 ELSE UNCHANGED <<input, defaulted>>
  BY DEF Screen
<1>3. input' \notin {"block", "degraded"} => Approved'
  <2> SUFFICES ASSUME input' \notin {"block", "degraded"}, Screens(job) PROVE Approved'
    BY <1>1 DEF Approved, Screens, RunsInjection, RunsSafety
  <2>1. CASE known
    <3>1. /\ input' = InputDecision(c, InputReply(job.onnx, t, RunsInjection(job), RunsSafety(job)))
          /\ defaulted' = {} /\ prompt' = t
      BY <1>1, <1>2, <2>1 DEF Understood
    <3>2. RunsInjection(job) \in BOOLEAN /\ RunsSafety(job) \in BOOLEAN
      BY DEF RunsInjection, RunsSafety
    <3> QED
      BY <1>1, <3>1, <3>2, ApprovalApproves DEF Approved, RunsInjection, RunsSafety
  <2>2. CASE ~known
    <3>1. input' = InputDecision(c, Unrecognized)
      BY <1>2, <2>2
    <3>2. c = "answered" /\ input' = "pass"
      BY <3>1, UnrecognizedPasses
    <3>3. "input" \in defaulted'
      BY <1>2, <2>2, <3>2 DEF Understood
    <3> QED
      BY <3>2, <3>3 DEF Approved
  <2> QED
    BY <2>1, <2>2
<1>4. "output" \notin defaulted'
  BY <1>1, <1>2 DEF Understood
<1> QED
  BY <1>1, <1>3, <1>4 DEF SInv

LEMMA LaterStepsKeep ==
  ASSUME SInv, [Next]_vars, ~Screen
  PROVE  SInv'
<1>1. CASE Generate
  BY <1>1 DEF Generate, attemptVars, SInv, Approved, Shown
<1>2. CASE CallFails
  BY <1>2 DEF CallFails, genVars, SInv, Approved
<1>3. CASE Receive
  BY <1>3 DEF Receive, genVars, SInv, Approved, Shown
<1>4. CASE Show
  <2>1. PICK c \in Channels, known \in BOOLEAN :
          LET reply == IF known THEN OutputReply(job.onnx, completion) ELSE Unrecognized
          IN  /\ output' = OutputDecision(c, reply)
              /\ Understood("output", c, known)
    BY <1>4 DEF Show
  <2>2. output' # "block" => Shown'
    <3> SUFFICES ASSUME output' # "block" PROVE Shown'
      OBVIOUS
    <3>1. UNCHANGED <<job, completion>>
      BY <1>4 DEF Show
    <3>2. CASE known
      <4>1. output' = "degraded" \/ (output' = "pass" /\ ~Unsafe(job.onnx, completion))
        BY <2>1, <3>2, ShownIsSafe
      <4> QED
        BY <3>1, <4>1 DEF Shown
    <3>3. CASE ~known
      <4>1. output' = OutputDecision(c, Unrecognized)
        BY <2>1, <3>3
      <4>2. output' = "degraded" \/ (output' = "pass" /\ "output" \in defaulted')
        BY <2>1, <3>3, <4>1, UnrecognizedPasses DEF Understood
      <4> QED
        BY <4>2 DEF Shown
    <3> QED
      BY <3>2, <3>3
  <2>3. "input" \in defaulted' <=> "input" \in defaulted
    BY <2>1 DEF Understood
  <2>4. Approved => Approved'
    BY <1>4, <2>3 DEF Show, Approved
  <2> QED
    BY <1>4, <2>2, <2>4 DEF Show, genVars, SInv
<1>5. CASE ReportRaises
  BY <1>5 DEF ReportRaises, genVars, SInv, Approved
<1>6. CASE Report
  BY <1>6 DEF Report, SInv, Approved, Shown
<1>7. CASE Verify
  <2>1. UNCHANGED <<genVars, job, prompt, input, completion, output>>
        /\ stage = "verify" /\ stage' = "end"
    BY <1>7 DEF Verify
  <2>2. \A side \in {"input", "output"} : side \in defaulted' <=> side \in defaulted
    BY <1>7 DEF Verify, Understood
  <2>3. (Approved => Approved') /\ (Shown => Shown')
    BY <2>1, <2>2 DEF Approved, Shown
  <2> QED
    BY <2>1, <2>3 DEF SInv, genVars
<1>8. CASE BackgroundCheck \/ Finished \/ UNCHANGED vars
  BY <1>8 DEF BackgroundCheck, Finished, vars, genVars, attemptVars, SInv, Approved, Shown
<1> QED
  BY <1>1, <1>2, <1>3, <1>4, <1>5, <1>6, <1>7, <1>8 DEF Next

\* No prompt reaches the engine, and no completion the client, but with the
\* screening that the policy asks for, however the guardrail fails; the one
\* answer that opens it is a reply of status 200 without a known result.
THEOREM BothSidesScreened == Spec => []Screened
<1>1. Init => SInv
  BY DEF Init, GenInit, SInv
<1>2. SInv /\ [Next]_vars => SInv'
  BY ScreenKeeps, LaterStepsKeep
<1>3. SInv => Screened
  BY DEF SInv, Screened, PromptScreened, CompletionScreened, Approved, Shown
<1> QED
  BY <1>1, <1>2, <1>3, PTL DEF Spec
===============================================================================
