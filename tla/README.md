# InferaCordon in TLA+

InferaCordon is a gateway that decides how much reasoning a language model may
spend on a request. This directory holds TLA+ models of its code, TLC runs that
check them on small instances, and TLAPS proofs of what matters most. Every
definition is translated from the source; `PROJECT.json` maps each one to its
lines. A definition marked `(mutant)` is a plausible bug: putting it in the place
of the definition it varies must break the property named beside it in
`PROJECT.json`.

## 1. The system

```
client -> POST /v1/infer (gateway/main.py, one event loop)
            key map, scorer, PII redactor                 (immutable, text in and out)
            policy registry -> budget controller          (immutable after start)
            semantic cache                                (lock, 2 threads, 2 files)
            admission controller                          (asyncio semaphore)
            guardrail service   <- HTTP, timeouts
            vLLM + logit processor <- HTTP, timeouts
            verifier service    <- HTTP, timeouts
            escalation handler: back to admission, one class higher
            audit log                                     (bounded queue, thread, file)
            evaluation worker -> judge                    (thread pool, SQLite, HTTP)
client -> GET /audit/records                              (reads the audit file)
offline:  evaluation/*: harness, metrics, regression gate, README metrics
```

| Component | State | Operations | What makes it hard | Correct when |
|---|---|---|---|---|
| admission control | semaphore value and queue, `_active_count` | acquire, release | the timer of `wait_for` against a grant; granted waiters that have not run; newcomers | slots conserved, no lost wake-up, order of arrival, acquire returns |
| request pipeline | per request: await, class, held slot, verdict, records | steps 3 to 16 of `infer`, escalation loop, background tasks | slots across escalations and a dozen exits; failures of four services | slots balanced, an outcome per decision, incorrect answers not reused, every request answered |
| policy registry | `_registry`, `_default` | load, resolve | faults in any file order | starts on faultless directories only; own policy or default |
| budget controller | none | assign, override, downgrade, escalate | thresholds, circuit breakers and overrides combine | monotone, within the policy |
| audit log | queue, writer thread, file | enqueue, append, start, stop, list records | queue full, stop against a slow writer, crash, a reader beside the writer | every record accounted for, a ledger of the calls, pages that stay, stop returns |
| semantic cache | index, entries, next id, two files | lookup, store, sweep, invalidate, flush, load | stores that embed outside the lock, crash between two writes, failed flush, expired entries on load | a hit answers its prompt, ids never reused, what was invalidated stays out |
| evaluation worker, judge | SQLite rows, pool, attempts of a judgement | submit, run, judge, shutdown | failing statements, retries, restarts | one thread per job, status machine, no row forgotten |
| guardrail, verifier, model clients | HTTP client | check, verify, complete | timeouts, refusals, replies without a known result | closed on a failing input check, a failing output check recorded as degraded, unverifiable on error; a reply without a known result is read as pass |
| inference adapter, logit processor | token counter, flags, stop reason | build a call, step, force the delimiter, build a result | off-by-one at the budget; a processor one token ahead of the text; failing inside a step | never beyond the budget, the answer untouched, a truthful report |
| guardrail and verifier services | none | classify, verify | precedence of rules, fallbacks of the classifiers | block before flag; only a judgement makes an answer incorrect |
| request preparation | key map | load keys, authenticate, score, redact, render | a broken key file; caps and buckets; one redaction for many consumers | fails closed; monotone; only redacted text leaves |
| harness, regression gate, README metrics | counts, result files, README | run a dataset, write, compare two files, publish | blocked runs, failing verifiers, rates at thresholds, a later run in vain, lost markers | a pass speaks of two complete runs; what is published was measured, and the text around it stays |
| offline statistics | none | statistics, formatting | | |
| telemetry, front ends | metrics | | | |

The components interact by calls on the event loop (budget controller, audit
queue), by awaits (cache, admission, HTTP clients), by threads (audit writer,
cache persister and sweeper, evaluation pool) and by files (audit log, cache,
evaluation database). There is no cancellation of a handler when its client goes
away: no middleware of the application asks for it.

## 2. Modules

| Module | Models | State and actions |
|---|---|---|
| `SlotPool` | the abstract promise of the admission gate | `inUse`; `Take`, `Give`, `PassOn` |
| `AdmissionControl` | `gateway/admission_control.py` over `asyncio.Semaphore` (CPython 3.11) | `value`, `waiters`, `active` are `_value`, `_waiters`, `_active_count`; `st[c]` is where a coroutine is inside acquire; `AcquireBypass`, `AcquireCall`, `StartAcquire`, `ResumeWaiter`, `Admit`, `TimeOut`, `Release`, `Reacquire` |
| `AdmissionControlProofs` | theorems about it | |
| `BudgetClasses` | the four classes and their order | |
| `Scorer` | `gateway/complexity_scorer.py` | no state: the five groups and their sum, over what the regular expressions find |
| `Preparation` | `gateway/auth.py`, `pii_redactor.py`, `context_engine.py` and the way of the text through `infer`, its escalation loop and its background tasks | extends `PolicyEngine`, whose steps it takes, and `Scorer`; `keys` is `tenant_key_map`, `redacted` is `redacted_prompt`, `seen` is history; `Unauthorized`, `Call`, `CacheAnswers`, `CheckInput`, `Infer`, `NextAttempt`, `Finish`, `Leave` |
| `PreparationProofs` | theorems about `Scorer`, `PolicyEngine` and `Preparation` | |
| `PolicyEngine` | `policy_engine/loader.py`, `validator.py`, `budget_controller.py`, `_apply_budget_override` | `dir`, `pos`, `errors`, `registry`, `default` are the loop of `load_from_dir`; `request`, `resolution`, `decision` one request; `LoadFile`, `FinishLoading`, `Serve`, `Escalate`, `Respond` |
| `Gateway` | `gateway/main.py` from the resolved policy to the answer, `escalation_handler.py` | `pc[r]` names the await; composes `AdmissionControl` by INSTANCE, whose variables it shares and whose steps its actions take |
| `GatewayProofs` | theorems about it, on top of those about the gate | |
| `Generation` | `vllm_adapter/inference_adapter.py`, `logit_processor.py` and the engine that calls them | `processor`, `maxTokens`, `report` are the fields of the call and its result; `thought`, `delimiter`, `last`, `total` are the text generated; `BuildCallSpec`, `CallProcessor` (one disjunct for each way through `_step`), `Sample`, `BuildResult` |
| `Services` | the replies of `guardrail_service/` and `verifier_service/`, and what `guardrail_client.py`, `verifier_client.py` and the harness make of them | no state: operators, used by `Attempt` and `Evaluation` |
| `Attempt` | step 10 of `infer` and `_run_single_attempt` with the services it calls | extends `Generation`, whose variables it shares and whose steps it takes; `Screen`, `Generate`, `CallFails`, `Receive`, `Show`, `ReportRaises`, `Report`, `Verify`, `BackgroundCheck` |
| `AttemptProofs` | theorems about `Generation` and `Attempt`; that the second implements the first | |
| `Evaluation` | `evaluation/benchmark_harness.py`, `datasets.py`, `metric_calculator.py`, `regression_gate.py` | `side`, `dataset`, `left`, `tally` are a run in progress, `file` what it wrote, `gate` the verdict; `right` is history; `Blocked`, `Load`, `RunExample`, `WriteResult`, `Gate` |
| `Publication` | `evaluation/update_readme_metrics.py` | extends `Evaluation`; `readme` is README.md as a sequence of pieces; `Publish`, `Rerun` |
| `PublicationProofs` | theorems about `Evaluation` and `Publication` | |
| `Ledger` | the abstract promise of the audit log to its readers | `offered`, `log`; `Offer`, `Keep` |
| `AuditLog` | `policy_engine/audit_log.py`, `GET /audit/records` | event loop, queue, writer, file; `Enqueue`, `WriterGet`, `WriterAppend`, `Stop`, `PutSentinel`, `PutTimeout`, `JoinReturns`, `Die`, `Start`; the operators `Listed`, `Page` and `Replies` are what a reader gets at a moment, the empty page of an `OSError` and a 500 included |
| `AuditLogProofs` | theorems about it; that it implements `Ledger` | |
| `SemanticCache` | `gateway/semantic_cache.py` | index, dictionary and next id in memory and on disk, stores that are embedding; `StoreCall`, `Insert`, `Expire`, `Sweep`, `Invalidate`, `FlushIndex`, `FlushMeta`, `Die`, `Start` |
| `SemanticCacheProofs` | theorems about it | |
| `EvalWorker` | `gateway/async_eval_worker.py`, `evaluation/llm_judge.py` | rows, pool, threads, attempts of a judgement; `Submit`, `Take`, `Begin`, `Judge`, `Finish`, `Shutdown`, `Close`, `Die`, `Start` |
| `EvalWorkerProofs` | theorems about it | |
| `MC*` | constants of the instances TLC checks | |

Grain. In `AdmissionControl` and `Gateway` the code between two awaits is one
action, because nothing else runs on the event loop meanwhile. In `AuditLog` and
`EvalWorker` each queue operation, append or SQL statement is one action. In
`SemanticCache` each critical section of the lock is one action, except the
flush, which holds the lock over two writes that a crash can separate; a store is
two, its embedding and its insertion. In
`Generation` a call of the processor and the token sampled after it are two
actions, because the processor looks at the text before that token; in `Attempt`
and `Evaluation` a call of a service is one action with its failures as choices.

Abstractions.
- Time: a timer may fire at any moment of the wait it bounds, so that the
  priority tiers, which only differ in their durations, disappear.
- asyncio's semaphore and queues of the standard library are outside the
  repository; they are modelled from the way the code uses them and marked
  external. A granted waiter that is cancelled gives its slot back; a task that
  is done when the timer fires returns its result.
- Services: an answer of the guardrail, the model or the verifier is any of the
  outcomes their client can return. A timeout of the input guardrail is a block,
  its other failures are `degraded`; a failure of the verifier is
  `unverifiable`; a failing cache lookup is a miss. `Gateway` chooses among these
  outcomes; `Services` and `Attempt` derive them from what the text is to the
  classifiers (a probability in hundredths, a keyword) and from how the call ends.
  A call that breaks off may have been worked on by its service.
- The engine: it samples any token the logits permit, may or may not run the
  processor (over HTTP it does not, `inference_adapter.py:148-153`), and stops at an
  end-of-sequence token or at `max_tokens`.
- Data: a response is the pair of a request and the number of its attempt, a
  cost is the number of attempts it accounts for, a prompt is a model value, two
  prompts are similar when they are equal.
- `Gateway` keeps the records a request enqueues; whether they reach the file is
  the subject of `AuditLog`. Likewise its cache may miss at any time.
- `Preparation`: a text is the set of the kinds of personal data left in it, and what a
  regular expression or Presidio recognises is taken as recognised. Two requests share
  nothing before admission, so that one call is followed at a time.
- `Scorer`: a prompt is known by its findings; points are whole sixtieths and exact,
  where the code adds floating-point numbers. The calibration weights are left out:
  the gateway calls `get_scorer()` without them.
- A line of the audit file is whole, without its newline, torn, or cut inside a
  character of several bytes; the README is a sequence of pieces, which begins with
  both markers, one of them or none.
- `PolicyEngine` gives scores and thresholds in tenths and keeps the fields of a
  policy that validation or a decision looks at. The gateway always passes
  nominal fleet state and a score of at least zero; the model lets the circuit
  breakers open and the fast path be taken, as the function's other callers do.

## 3. Runs

| Run | Instance | States | Question |
|---|---|---|---|
| `admission` | 3 callers, 2 slots | 5,180 | can any interleaving of acquire, release and timers break the gate? |
| `gateway` | 2 requests, 1 slot, 6 kinds of request | 43,543 | do slots, records, cache and answers stay consistent through escalation and failures? |
| `audit_log` | queue of 2, 4 records, 2 processes | 61,358 | where can a record go, and what does a reader find? |
| `cache` | 2 scopes, 2 prompts, 2 stores, 3 processes | 108,273 | what does a hit serve, before and after restarts? what becomes of what was invalidated? |
| `eval_worker` | 3 tasks, 2 threads, 2 processes, 2 attempts of the judge | 184,807 | what happens to a row and its job? |
| `policy` | all directories of up to 3 files, 3 deployments, 9 prompts, texts with and without personal data | 276,917 | which policy and class does a call get, and who gets its text? |
| `attempt` | 3 kinds of request, 5 texts, budgets 0, 1 and 3, limits 1 and 4 | 2,590,095 | does the budget hold and is its report true? what passes the guardrails when they fail? |
| `evaluation` | 5 datasets of 2 to 4 examples, both sides, a README with both markers, one or none | 1,097,368 | what does a pass of the gate say, and what is published? |
| `gateway_costs`, `cache_crash`, `override_cap`, `gate_enterprise` | | | claims of the documentation the code does not keep, see section 6 |

Why the bounds are enough. Three callers and two slots are the least with a
holder, a granted waiter and a pending one at once, and with a newcomer beside a
queue. Two requests and one slot make every admission contested, and the job with
two retries climbs from the bypassed class through two reasoning classes. A queue
of two with four records fills, drains and fills again, and two processes make one
crash and one recovery. Two stores let an id be lost in a crash and handed out again,
and the third process loads what the second has flushed; `cache_crash` runs three
stores on two processes, which leaves too many states for a full search. Directories
of three files contain each pair of faults in each order; the prompts score on both
sides of each threshold of the shipped policies and of each bucket of length, each
richer than the one before or not comparable with it; the texts hold kinds of data
that the three levels, Presidio and the residual check treat differently, and the keys
belong to two tenants, to none and to nobody. The judge's two attempts are the code's.
A budget of 1 forces the delimiter on the first token, a budget of 3 leaves room for
a natural one before, at and after the ceiling, and a limit of 1 cuts off behind the
first token; the texts lie on both sides of both thresholds and at them, and one
makes both models of the guardrail raise. Datasets of four and two examples with
thresholds of 25 and 50 points stand for 50 to 200 examples with 1 and 2: a fall of
exactly the threshold occurs, and one example more or less. A README that has lost one
marker is updated twice within six pieces, which is when text is lost or doubled; from
then on each update does the same again.

Bounds that stop a counter: `MaxRecords` and `MaxStarts` (`AuditLog`),
`MaxStores` and `MaxStarts` (`SemanticCache`), `MaxStarts` (`EvalWorker`), the
policies' `retries` (`Gateway`); an attempt ends by `max_tokens`, a run of the harness
with its examples, and the script is not run on a README of more than `MaxPieces` pieces
(`Publication`). A model that has used them up stutters
(`Finished`), so that deadlock is checked in every run.

Fairness, and why the code justifies it.
- `AdmissionControl`: the event loop runs ready tasks and `wait_for` has a timer;
  nobody is obliged to release (`AcquireReturns` holds without it).
- `Gateway`: every await is bounded, by the clients' timeouts or by admission's;
  no client is obliged to send a request.
- `AuditLog`: only the timeouts of `stop` expire; nothing is assumed of the disk,
  so `StopReturns` says that a hanging writer cannot hang the shutdown.
- `SemanticCache`: the sweep thread wakes up again and again and obtains the lock,
  hence strong fairness; a flush ends.
- `EvalWorker`: threads run and the judge's HTTP call has a timeout.

## 4. Properties

Each property is stated above its definition. `TypeOK` (`GenTypeOK` in `Generation`)
documents the variables of a module; those of the admission gate and of a generation
are proved. The central ones:

- `AdmissionControl`: `SlotConservation`, `CeilingRespected`, `NoLostWakeUp`, `FirstComeFirstServed`, `AcquireReturns`; `PoolSpec`, the
  refinement of `SlotPool` with `inUse` mapped to the callers a slot is reserved
  for. That the order is one of arrival is also a limit of the code: a request of
  the highest tier waits behind those that came first, only longer.
- `Gateway`: `SlotAccounting` (no slot lost or released twice through escalation,
  block, timeout or error, and no more than the ceiling's attempts of a reasoning class at
  once), `ClearedBeforeInference`,
  `AuditPaired`, `OutcomeMatchesResponse`, `IncorrectNeverServed`, `ClimbBounded`,
  `Answered`; `AdmissionSpec`, that the gateway uses the controller
  only as the controller's specification allows.
- `AuditLog`: `EveryRecordAccounted`, `CleanStopDrains`, `StopReturns`; `LedgerSpec`, the
  refinement of `Ledger` with `log` mapped to the lines a reader can parse, which are
  therefore only appended to and in the order of the calls; `FullPageStable`, that
  offset and limit page through them without a gap or a repetition for as long as the
  file can be read and decoded, and that no record is served any more once a line was cut
  inside a character.
- `SemanticCache`: `HitAnswersPrompt` and `IndexMatchesEntries` for processes that
  have loaded the files of one flush, `InvalidatedStaysOut`, `ExpiredSwept`.
- `EvalWorker`: `OneThreadPerJob`, `StatusMachine`, `NoRowForgotten`,
  `ShutdownReturns`.
- `PolicyEngine`: `RegistryIsDirectory`, `GovernedByOwnPolicy`,
  `DecisionWithinPolicy`.
- `Preparation`: `KeysFailClosed` (no broken key file opens the gateway, no body borrows
  a tenant), `OnlyRedactedLeaves` (cache, guardrail, model and judge are handed the same
  text, without what the policy redacts, in every attempt), `RicherNeverLower` (more of
  anything the scorer looks for never lowers the class, under any policy that loads).
- `Generation`: `ThoughtBounded` and `AnswerUntouched`, wherever an engine runs the
  processor; `ReportTruthful`, whose stop reason is true of every engine, and which says
  engine by engine what is metered as reasoning: nothing over the HTTP API.
- `Attempt`: `Screened` (a prompt and a synchronously checked completion pass only as
  the policy says, through every failure, and a block wins over a flag), with one
  exception, a reply of status 200 whose result is missing or unknown (`defaulted`);
  `VerdictSound`, with the like exception of a verifier's reply without its fields.
- `Evaluation`: `GateSound`, over all three kinds of dataset. It bounds the fall in right
  answers by the threshold and the number of answers in which a fall can hide, those
  nobody judged (`Hidden`): with every answer judged this is the threshold, with a failing
  verifier or on the enterprise set it is little or nothing, and no more is true of the
  code. A blocked adversarial run passes. `Publication`: `PublishedIsMeasured`, "Never
  writes fabricated numbers" (`evaluation/update_readme_metrics.py:86`), with the 0.0 % of
  a set nobody judged, and that an update takes away only what stood between a BEGIN and
  an END. This is text only when stray markers cross the block (`Crossed`).

## 5. Proofs

Every safety property a passing run checks is also a theorem, for every value of the
constants that the named assumptions allow: any number of callers, slots, requests,
records, processes, threads or examples. The assumptions give the constants their types
and finiteness and say nothing of the behaviour; TLC evaluates them in the runs. Eight
modules hold the proofs.

`AdmissionControlProofs` (`CallersAssumption`, `MaxConcurrentAssumption`):

- `TypeCorrect`, `SlotsConserved`, `CeilingHolds`, `QueueCorrect`,
  `WakeUpsNotLost`: the safety invariants of the run `admission`, and the two they rest
  on, `TypeOK` and `QueueExact`;
- `GrantsInOrder`: `FirstComeFirstServed`;
- `GateImplementsPool`: `Spec => PoolSpec`.

The invariant is `IInv`. Slot conservation is not inductive alone: that a granted
waiter can return its slot needs the queue to hold exactly the waiting and granted
callers, each once (`QueueExact`), since a waiter is granted through its place in
the queue; that no wake-up is lost needs both. The order of the grants is an action property,
proved from what each step does to the queue. The lemmas follow the shape of the code: `WakeUpMoves` and `WakeUpHolders` say what
`_wake_up_next` does to states and slots, `WithoutRemoves`, `WithoutKeepsOrder` and
`AppendJoins` what the queue operations do to members and order, and each action has a
lemma of its own under `StepIInv`. The refinement maps acquiring, releasing and waking to
`Take`, `Give` and `PassOn` (`WakeUpRefines`, `StepRefines`).

`GatewayProofs` (`RequestsAssumption`, `MaxConcurrentAssumption`, `JobsAssumption`,
`ConfiguredAssumption`): `UsesTheGate`, `SlotsAccounted`, `PromptsCleared`,
`RecordsPaired`, `RecordsAgree`, `RefutedNotServed`, `ClimbLimited`.

- `UsesTheGate` comes first, since the gateway shares the gate's variables: each of its
  actions is a step of the gate or leaves it alone. With it the theorems about the gate,
  taken by INSTANCE with the requests as callers, hold inside the gateway
  (`GateInvariants`), and `SlotsAccounted` needs nothing of semaphore and queue beyond
  them.
- The invariant says of each request what is known at the await where it is suspended:
  its slot (`Slot`), how attempts, escalations, class and verdicts count up together
  (`Attempts`), the input check (`Cleared`), the records (`Trail`) and what the client and
  the cache were told (`Said`). The properties speak of a few of these awaits, but a
  request reaches one from another: that `ClimbBounded` holds at a call of the model rests
  on the class a request keeps while it waits for a second slot. `Settled` is what makes
  `IncorrectNeverServed` inductive: a content in the cache belongs to a request that has
  been answered, so that no verifier can refute it any more.
- A step of one request leaves what is known of the others (`OthersLocal`), although it
  can grant one of them a slot, add to the cache and refute a content of its own. Each
  action then has one lemma (`...Proceeds`) that looks at its own request alone.

`AttemptProofs` proves of `Generation`, for every set of budgets and of output limits
(`BudgetsAssumption`, `OutputsAssumption`) and whatever the engine samples:
`GenTypeCorrect`, `ThoughtIsBounded`, `AnswerIsUntouched`, `ReportIsTruthful`. The last
covers engines that run the processor, with the delimiter in their vocabulary or not, and
engines that do not, for which `Metered` keeps what the processor has counted. The
invariant `GInv` relates the processor to the text it cannot see as a whole: how far
its counter is ahead of the tokens of thought, which differs between the call of the
processor and the sampling after it, and which delimiter its flags and stop reason
stand for. `ThoughtBounded` alone is not inductive, since a step must know that an
incomplete processor has counted exactly the thought so far. Of `Attempt` it proves
`Spec => GenSpec` (`AttemptImplementsGeneration`): what surrounds
the model either takes one of the generation's steps or leaves its variables alone.
The theorems about a generation carry over (`AttemptThoughtBounded`). `VerdictIsSound` and
`BothSidesScreened` hold for any requests and texts of `AttemptJobsAssumption` and
`TextsAssumption`, and whatever the services reply: the first is inductive as it stands,
the second needs `SInv`, that the engine gets nothing before the screening and the client
nothing before the end. Both name the replies in which the clients fall back on a default,
and say that nothing else lets a text through or makes an answer incorrect.

`AuditLogProofs` (`CapacityAssumption`, `BoundsAssumption`): `RecordsAccounted`,
`StopDrains`, `ImplementsLedger`, `PagesStable`. Records are numbered in the order of the
calls, and the invariant orders them all: what is in the file is older than what the
writer holds, this is older than what is queued, and the sentinel of `stop` is behind
everything (`Ordered`). From it follow that a record is in one place at a time
(`Located`), that dropped records are counted (`Counted`), and that the file of a reader
grows at its end only. What a reader finds is a recursive function over the file
(`RecordsAt`): what is known of it comes from an induction over places, carried out with a
set in place of a predicate (`Induction`), and then used through what it does to one
more fragment (`RecordsAtAppend`, `RecordsAtWithoutLast`). `ImplementsLedger` maps an append
to `Keep`, and a torn or glued line to a stutter; `PagesStable` shows that a full page is
a prefix that these steps do not reach, that a reader gets it whenever the file can be read
and decoded, and that a file that cannot be decoded stays so.

`SemanticCacheProofs` (`AskedAssumption`, `StoresAssumption`): `IndexAndEntries`,
`HitsAnswer`, `InvalidatedOut`. Memory and disk are each a pair of halves that
agree (`Agree`): an id occurs once, below the next one, and is the same store's in
both. The disk's halves agree only when one flush has written both, and between the two
writes of a flush the index on disk is the one in memory, because the lock is held
(`Agreement`). `InvalidatedOut` needs besides that a store is embedding or has one
entry and never both (`Stored`): otherwise what is invalidated could come back from the
other. `WithoutLeft` says what `remove_ids` leaves of a sequence, by the same induction.

`EvalWorkerProofs` (`NoTaskAssumption`, `RetriesAssumption`, `StartsAssumption`):
`JobsExclusive`, `RowsRemembered`, `RowsFollowMachine`. That no two threads have a job is
not inductive: a job must be in the pool once and not with a thread as well
(`Exclusive`). The status machine needs to know that a row is still `PENDING` in the
pool, and later `RUNNING` unless its update was missed (`RowFollows`).

`PreparationProofs` (`DirectoriesAssumption`, `ScoresAssumption`,
`DeploymentsAssumption`, `CallersAssumption`, `ScoresOfCallersAssumption`):
`RegistryIsWhatWasLoaded`, `Governed`, `DecisionsOfPolicy`, `ScoringMonotone`,
`FailsClosed`, `RedactedLeaves`. Three invariants, each on top of the one before: how far
the loop over the directory has come and what it has found so far (`Loaded`), that
resolution and decision are those of one request under that registry (`Served`), and
which text was handed to whom (`Prepared`). The scorer is proved monotone group by group
for all prompts (`ScoreMonotone`), then the thresholds and the circuit
breakers on top of it (`BaseClassMonotone`, `EffectiveMonotone`), for every policy that loads.

`PublicationProofs` (`ExamplesAssumption`, `ThresholdsAssumption`,
`MaxPiecesAssumption`): `GateIsSound`, `OnlyMeasuredPublished`. That a pass of the gate says
something of right answers needs each file to be zeros or the sum of a complete run, and
each running total to be on its way there (`Tallied`, `PInv`): what is counted correct was
right, what was right was not counted incorrect. The gate compares fractions by
cross-multiplication, of numbers of judged answers that may differ; `FallOfShares` brings
them back to a fall in counts, and `Counted` bounds what the unjudged answers hide. The
README keeps one of a few shapes (`RInv`): its block between the text or behind it, or what
becomes of a lone marker. A lone BEGIN is followed by a block behind the text
(`TwoBegins`), and then by a block in place of all that follows it (`Trimmed`); a lone END
comes before every BEGIN for good (`EndFirst`), so that each update repeats what is behind
it. `Spliced` says what an update does to places in the file, `NoOtherPieces` and
`NothingElseGone` what this means for its pieces, whatever their number; only the shapes
`TwoBegins` and `EndFirst` are `Crossed`.

Only model-checked: liveness, which the proof system cannot reach (`AcquireReturns`,
`Answered`, `StopReturns`, `ExpiredSwept`, `ShutdownReturns`), and the four claims of
section 6, which do not hold. What recursive definitions compute is proved
only where a set could stand for the predicate of the induction, as above.

## 6. Where code and documentation differ

Each of the first four is a run that finds the documented claim violated.

- `gateway_costs`: the outcome of an escalated request carries the cost of the last
  attempt, against `README.md:61`.
- `cache_crash`: a crash inside a flush can make a later process serve the response
  of another prompt, against `gateway/semantic_cache.py:62`.
- `override_cap`: an override passes through a score that the policy's thresholds
  classify again, and can come out above the cap of `gateway/schemas.py:47`.
- `gate_enterprise`: nobody judges the answers to the enterprise set, so that every
  change passes the gate on it, against `evaluation/regression_gate.py:8`.

Seen while modelling, and part of the models without a run of its own:

- A completion without choices ends in a 500 without an outcome record, against "Two
  records per request" (`policy_engine/audit_log.py:5`). A missing policy ends without
  any record. `AuditPaired` allows both and nothing else.
- A verdict `incorrect` whose reason quotes the word "unverifiable" is read as
  unverifiable (`gateway/verifier_client.py:154`); the harness reads an unverifiable
  verdict of the service as incorrect (`evaluation/benchmark_harness.py:481`).
- With a processor, `max_tokens` leaves room for the answer only
  (`inference_adapter.py:156`), so that a generation may be cut off in its thought.
- An exception inside the processor returns logits it has already overwritten,
  against the comment "Return logits unchanged" (`logit_processor.py:115`).
- An answer that is not JSON counts as incorrect under an invalid schema as well,
  because it is parsed first (`verifier_service/schema_verifier.py:74`).
- A block by the gateway is an HTTP error to the harness, and an error fails the
  adversarial check (`regression_gate.py:390`).
- Two files of different datasets have nothing to compare, and the gate passes; no
  code populates the slices of `regression_gate.py:10`.
- No exception or timeout of the scorer yields the score -1 of the fast path
  (`budget_controller.py:338`): the gateway has no fast path.
- The scorer reads the prompt before it is redacted (`main.py:407`), and nothing
  else does; a policy that redacts nothing lets telephone numbers and IP addresses into the
  cache, since the residual check does not look for them.
- "No complete benchmark runs found" (`update_readme_metrics.py:167`) is printed as well
  when one side is complete, or when a later run in vain hides a complete one. The
  metadata printed under the table is that of one of the runs. The accuracy of a
  complete run of which no answer was judged is printed as 0.0 %, which is the case of every
  run on the enterprise set (`update_readme_metrics.py:223`, against "It does NOT substitute
  placeholder numbers", line 18).
- A README that has lost its END marker gets a second block, and the update after that
  replaces everything from the first BEGIN to the new END, the text included
  (`update_readme_metrics.py:144`, against "Replace the <!-- METRICS:BEGIN --> ... block",
  line 125). One that has lost BEGIN gets everything behind the lone END twice.
- A blocked adversarial run has no example that failed and passes the gate
  (`regression_gate.py:384`), where a blocked run of a compared set fails it (line 153).
- One line of the audit file cut inside a character makes the decoding at `main.py:1408`
  raise where nobody catches it: `GET /audit/records` is a 500 until the file is gone.
- A reply of the guardrail with status 200 and a missing or unknown result is read as pass,
  on both sides of the model (`guardrail_client.py:54-59`, `76-81`); a verifier's reply
  without its fields makes the answer incorrect (`verifier_client.py:148-150`).
- Without a processor that the engine runs, no reasoning is metered, although the comment at
  `inference_adapter.py:204` says that it is estimated from the total.
- `count` of `GET /audit/records` is `min(limit, total - offset)`, negative behind the end.

Limits of the code that are no contradiction: `invalidate` does not reach a store
that is still embedding, nor the files before the next flush (`InvalidatedStaysOut`
excepts both); an unfinished line in the audit file makes the next one unreadable, and
a last line that lacks only its newline is read until the next append
(`FullPageStable` excepts it); a restart leaves open evaluation rows alone; a lookup
sees the ten nearest vectors only, so that those of other tenants can hide an entry (a miss is always allowed); a
cached answer is served whatever response schema and class the request has, without the
guardrails; an asynchronous output check only logs; `on_exhaustion` and the rate limits
of a policy are not enforced.

## 7. Not modelled, and the plan

Not modelled: what regular expressions, Presidio and neural networks recognise in a
text, prompt templates, answer extraction, metrics and traces, the front ends, load
tests, offline statistics that no other part reads, schemas, the static vLLM
configuration, and the stubs (`model_router`, `rate_limiter`,
`pre_inference_pipeline`, `circuit_breakers`). The shutdown of the gateway stops the
audit log, the cache and the worker one after the other; they share no state, so that
each stop is modelled in its own module.

Done so far: the admission gate and its refinement; the pipeline over it; the
policy engine and the preparation of a request over it; the three stores with threads,
files and readers, and the ledger; the generation and the attempt; the services; the
harness, the regression gate and the publication of its results; proofs of every safety
property the runs check. Next, in this order:

1. `Gateway` over `Attempt`: each outcome `Gateway` chooses is one an attempt can have.
2. An abstract specification of the cache, a partial map that may forget, implemented by
   `SemanticCache` as far as its files come from one flush.
3. The cache `Gateway` assumes against that specification.
