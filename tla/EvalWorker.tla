------------------------------ MODULE EvalWorker ------------------------------
(***************************************************************************)
(* gateway/async_eval_worker.py: the event loop inserts a PENDING row into *)
(* SQLite and hands the job to a pool of threads; a thread marks the row   *)
(* RUNNING, asks the judge of evaluation/llm_judge.py, and writes the      *)
(* verdict.  Each statement is its own transaction and may fail; a failure *)
(* is logged and the job goes on.                                          *)
(* shutdown() drains the pool and closes the database.  Rows survive the   *)
(* process, jobs do not, and nothing takes up the rows of an earlier one.  *)
(***************************************************************************)
EXTENDS Integers, FiniteSets, Sequences

CONSTANTS
    Tasks,      \* the tasks the gateway submits, each once
    Workers,    \* the threads of the pool
    NoTask,     \* a thread that has nothing to do
    MaxRetries, \* _MAX_RETRIES, the judge's attempts
    MaxStarts   \* bound: processes

ASSUME NoTaskAssumption == NoTask \notin Tasks
ASSUME RetriesAssumption == MaxRetries \in Nat \ {0}
ASSUME StartsAssumption == MaxStarts \in Nat \ {0}

VARIABLES
    pc,         \* the process: "serving", "draining", "closed" or "down"
    row,        \* status of each task's row; "none" and "refused" have no row
    pool,       \* the executor's queue
    job,        \* the task each thread runs
    step,       \* the statement of _run_eval each thread is at
    tries,      \* the attempts of the judge each thread has made in vain
    verdict,    \* the status each thread is about to write
    missed,     \* history: tasks one of whose updates has failed
    orphans,    \* history: tasks whose process ended before them
    starts      \* history: the number of processes so far

evalVars == <<pc, row, pool, job, step, tries, verdict, missed, orphans, starts>>

Terminal == {"COMPLETED", "FAILED"}
Open == {"PENDING", "RUNNING"}
Steps == {"idle", "begin", "judge", "finish"}

\* The tasks the executor still has, queued or running.
Queued == {pool[i] : i \in DOMAIN pool}
Running == {job[w] : w \in Workers} \ {NoTask}

TypeOK ==
    /\ pc \in {"serving", "draining", "closed", "down"}
    /\ row \in [Tasks -> {"none", "refused"} \cup Open \cup Terminal]
    /\ pool \in Seq(Tasks)
    /\ job \in [Workers -> Tasks \cup {NoTask}]
    /\ step \in [Workers -> Steps]
    /\ tries \in [Workers -> 0..MaxRetries]
    /\ verdict \in [Workers -> Terminal]
    /\ missed \subseteq Tasks /\ orphans \subseteq Tasks
    /\ starts \in 1..MaxStarts
-------------------------------------------------------------------------------
Init ==
    /\ pc = "serving"
    /\ row = [t \in Tasks |-> "none"]
    /\ pool = <<>>
    /\ job = [w \in Workers |-> NoTask]
    /\ step = [w \in Workers |-> "idle"]
    /\ tries = [w \in Workers |-> 0]
    /\ verdict = [w \in Workers |-> "FAILED"]
    /\ missed = {} /\ orphans = {} /\ starts = 1

\* submit: without a row there is no job.
Submit(t) ==
    /\ pc = "serving" /\ row[t] = "none"
    /\ \/ /\ row' = [row EXCEPT ![t] = "PENDING"]
          /\ pool' = Append(pool, t)
       \/ /\ row' = [row EXCEPT ![t] = "refused"]
          /\ UNCHANGED pool
    /\ UNCHANGED <<pc, job, step, tries, verdict, missed, orphans, starts>>

\* (mutant) the job stays in the queue while it runs.
TakeKeeping(w) ==
    /\ pc \in {"serving", "draining"} /\ job[w] = NoTask /\ pool # <<>>
    /\ job' = [job EXCEPT ![w] = Head(pool)]
    /\ step' = [step EXCEPT ![w] = "begin"]
    /\ UNCHANGED <<pc, row, pool, tries, verdict, missed, orphans, starts>>

\* A thread of the pool takes the oldest job.
Take(w) ==
    /\ pc \in {"serving", "draining"} /\ job[w] = NoTask /\ pool # <<>>
    /\ job' = [job EXCEPT ![w] = Head(pool)]
    /\ step' = [step EXCEPT ![w] = "begin"]
    /\ pool' = Tail(pool)
    /\ UNCHANGED <<pc, row, tries, verdict, missed, orphans, starts>>

\* An UPDATE of the row of thread w's job, which may fail and is only logged.
Update(w, status) ==
    \/ row' = [row EXCEPT ![job[w]] = status] /\ UNCHANGED missed
    \/ missed' = missed \cup {job[w]} /\ UNCHANGED row

Begin(w) ==
    /\ pc # "down" /\ step[w] = "begin"
    /\ Update(w, "RUNNING")
    /\ step' = [step EXCEPT ![w] = "judge"]
    /\ UNCHANGED <<pc, pool, job, tries, verdict, orphans, starts>>

Conclude(w, status) ==
    /\ verdict' = [verdict EXCEPT ![w] = status]
    /\ step' = [step EXCEPT ![w] = "finish"]

\* (mutant) after the last attempt the count starts over.
JudgeStartsOver(w) ==
    /\ pc # "down" /\ step[w] = "judge"
    /\ \/ \E status \in Terminal : Conclude(w, status) /\ UNCHANGED tries
       \/ /\ tries' = [tries EXCEPT ![w] = (@ + 1) % MaxRetries]
          /\ UNCHANGED <<step, verdict>>
    /\ UNCHANGED <<pc, row, pool, job, missed, orphans, starts>>

\* LLMJudge.score: a valid score of 1 to 5; no key or an unexpected exception; or
\* an attempt in vain, an HTTP error, an answer that cannot be parsed or a score
\* out of range, the last of which makes the score -1 and the job FAILED.
Judge(w) ==
    /\ pc # "down" /\ step[w] = "judge"
    /\ \/ \E status \in Terminal : Conclude(w, status) /\ UNCHANGED tries
       \/ /\ tries' = [tries EXCEPT ![w] = @ + 1]
          /\ \/ tries'[w] < MaxRetries /\ UNCHANGED <<step, verdict>>
             \/ tries'[w] = MaxRetries /\ Conclude(w, "FAILED")
    /\ UNCHANGED <<pc, row, pool, job, missed, orphans, starts>>

Finish(w) ==
    /\ pc # "down" /\ step[w] = "finish"
    /\ Update(w, verdict[w])
    /\ job' = [job EXCEPT ![w] = NoTask]
    /\ step' = [step EXCEPT ![w] = "idle"]
    /\ tries' = [tries EXCEPT ![w] = 0]
    /\ UNCHANGED <<pc, pool, verdict, orphans, starts>>
-------------------------------------------------------------------------------
\* shutdown: the executor takes no new job and waits for all it has.
Shutdown ==
    /\ pc = "serving"
    /\ pc' = "draining"
    /\ UNCHANGED <<row, pool, job, step, tries, verdict, missed, orphans, starts>>

\* (mutant) the database is closed while jobs are still queued.
CloseEarly ==
    /\ pc = "draining" /\ Running = {}
    /\ pc' = "closed"
    /\ UNCHANGED <<row, pool, job, step, tries, verdict, missed, orphans, starts>>

Close ==
    /\ pc = "draining" /\ pool = <<>> /\ Running = {}
    /\ pc' = "closed"
    /\ UNCHANGED <<row, pool, job, step, tries, verdict, missed, orphans, starts>>

\* The process ends, after shutdown() or at any other moment.
Die ==
    /\ pc # "down"
    /\ pc' = "down"
    /\ orphans' = orphans \cup Queued \cup Running
    /\ pool' = <<>>
    /\ job' = [w \in Workers |-> NoTask]
    /\ step' = [w \in Workers |-> "idle"]
    /\ tries' = [w \in Workers |-> 0]
    /\ UNCHANGED <<row, verdict, missed, starts>>

\* (mutant) a new process hands the open rows of the last one to its pool, and
\* starts them over.
StartResets ==
    /\ pc = "down" /\ starts < MaxStarts
    /\ pc' = "serving" /\ starts' = starts + 1
    /\ row' = [t \in Tasks |-> IF row[t] = "none" THEN "none" ELSE "PENDING"]
    /\ UNCHANGED <<pool, job, step, tries, verdict, missed, orphans>>

\* __init__ of the next process: the table is there already.
Start ==
    /\ pc = "down" /\ starts < MaxStarts
    /\ pc' = "serving" /\ starts' = starts + 1
    /\ UNCHANGED <<row, pool, job, step, tries, verdict, missed, orphans>>

Finished == pc = "down" /\ starts = MaxStarts /\ UNCHANGED evalVars

Thread(w) == Take(w) \/ Begin(w) \/ Judge(w) \/ Finish(w)

Next ==
    \/ \E t \in Tasks : Submit(t)
    \/ \E w \in Workers : Thread(w)
    \/ Shutdown \/ Close \/ Die \/ Start \/ Finished

Spec == Init /\ [][Next]_evalVars

\* The threads run, the judge's HTTP call has a timeout, and the wait of
\* shutdown() ends with the last thread.
FairSpec == Spec /\ WF_evalVars(Close) /\ \A w \in Workers : WF_evalVars(Thread(w))
-------------------------------------------------------------------------------
\* A job is in the executor at most once, and its row is open: two threads
\* never judge the same response, and a verdict is never overwritten.
OneThreadPerJob ==
    /\ \A i, j \in DOMAIN pool : pool[i] = pool[j] => i = j
    /\ \A v, w \in Workers : job[v] = job[w] /\ job[v] # NoTask => v = w
    /\ Queued \cap Running = {}
    /\ \A t \in Queued \cup Running : row[t] \in Open

\* PENDING -> RUNNING -> COMPLETED | FAILED: a row moves along this machine, and
\* skips RUNNING only when that update has failed.
StatusMachine ==
    [][ \A t \in Tasks : row'[t] # row[t] =>
           \/ row[t] = "none" /\ row'[t] \in {"PENDING", "refused"}
           \/ row[t] = "PENDING" /\ row'[t] = "RUNNING"
           \/ row[t] = "RUNNING" /\ row'[t] \in Terminal
           \/ row[t] = "PENDING" /\ t \in missed /\ row'[t] \in Terminal ]_evalVars

\* A row that is not concluded belongs to a job the executor still has, to one
\* whose update failed, or to one whose process ended first; after shutdown()
\* only the last two are left.
NoRowForgotten ==
    \A t \in Tasks : row[t] \in Open =>
        \/ t \in missed \cup orphans
        \/ pc \in {"serving", "draining"} /\ t \in Queued \cup Running

\* shutdown() returns, and every row is concluded, whatever the judge says, unless
\* an update fails or the process ends first.
ShutdownReturns ==
    /\ pc = "draining" ~> pc \in {"closed", "down"}
    /\ \A t \in Tasks : row[t] \in Open ~> row[t] \in Terminal \/ t \in missed \cup orphans
===============================================================================
