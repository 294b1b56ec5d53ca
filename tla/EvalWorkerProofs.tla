--------------------------- MODULE EvalWorkerProofs ---------------------------
(***************************************************************************)
(* Theorems about EvalWorker, for any tasks, any number of threads and of  *)
(* attempts, and any number of processes.  No failed update and no death   *)
(* of the process lets two threads have one job or a row leave its status  *)
(* machine, and a row stays open only for a reason the history knows.      *)
(***************************************************************************)
EXTENDS EvalWorker, TLAPS

\* What a thread does and what it has go together, and it has an attempt left
\* until it has a verdict.
Threads ==
    \A w \in Workers :
        /\ step[w] = "idle" <=> job[w] = NoTask
        /\ step[w] # "finish" => tries[w] < MaxRetries

\* The job a thread has is nobody else's.
Exclusive ==
    /\ \A i, j \in DOMAIN pool : pool[i] = pool[j] => i = j
    /\ \A v, w \in Workers : job[v] = job[w] /\ job[v] # NoTask => v = w
    /\ \A i \in DOMAIN pool, w \in Workers : pool[i] # job[w]

\* The status of a row while the executor has its job: it is RUNNING from the
\* first update on, unless that update was missed.
RowFollows ==
    /\ \A i \in DOMAIN pool : row[pool[i]] = "PENDING"
    /\ \A w \in Workers :
          /\ step[w] = "begin" => row[job[w]] = "PENDING"
          /\ step[w] \in {"judge", "finish"} =>
                \/ row[job[w]] = "RUNNING"
                \/ row[job[w]] = "PENDING" /\ job[w] \in missed

\* An open row has its job in the executor, or the history has the reason.
Remembered ==
    \A t \in Tasks : row[t] \in Open =>
        \/ t \in missed \cup orphans
        \/ \E i \in DOMAIN pool : pool[i] = t
        \/ \E w \in Workers : job[w] = t

\* A process that has shut down or ended has no jobs.
Drained ==
    pc \in {"closed", "down"} => pool = <<>> /\ \A w \in Workers : job[w] = NoTask

IInv == TypeOK /\ Threads /\ Exclusive /\ RowFollows /\ Remembered /\ Drained
-------------------------------------------------------------------------------
LEMMA InitIInv == Init => IInv
<1> SUFFICES ASSUME Init PROVE IInv
  OBVIOUS
<1>1. TypeOK
  BY StartsAssumption, RetriesAssumption DEF Init, TypeOK, Terminal, Steps
<1>2. Threads /\ Exclusive /\ RowFollows /\ Drained
  BY RetriesAssumption DEF Init, Threads, Exclusive, RowFollows, Drained
<1>3. Remembered
  BY DEF Init, Remembered, Open
<1>4. QED
  BY <1>1, <1>2, <1>3 DEF IInv

LEMMA SubmitIInv == IInv /\ (\E t \in Tasks : Submit(t)) => IInv'
<1> SUFFICES ASSUME IInv, NEW t \in Tasks, Submit(t) PROVE IInv'
  OBVIOUS
<1> USE DEF IInv
<1>1. UNCHANGED <<pc, job, step, tries, verdict, missed, orphans, starts>> /\ pc = "serving"
  BY DEF Submit
<1>2. Threads' /\ Drained'
  BY <1>1 DEF Threads, Drained
<1>3. CASE row' = [row EXCEPT ![t] = "PENDING"] /\ pool' = Append(pool, t)
  <2>1. TypeOK'
    BY <1>1, <1>3 DEF TypeOK, Open
  <2>2. /\ DOMAIN pool = 1..Len(pool) /\ DOMAIN pool' = 1..(Len(pool) + 1)
        /\ Len(pool) \in Nat
        /\ \A i \in DOMAIN pool : pool'[i] = pool[i] /\ pool[i] \in Tasks
        /\ pool'[Len(pool) + 1] = t
    BY <1>3 DEF TypeOK
  <2>3. \A u \in Tasks : row'[u] = IF u = t THEN "PENDING" ELSE row[u]
    BY <1>3 DEF TypeOK
  <2>4. row[t] = "none"
    BY DEF Submit
  <2>5. /\ \A i \in DOMAIN pool : pool[i] # t
        /\ \A w \in Workers : job[w] # t
    <3>1. \A i \in DOMAIN pool : pool[i] # t
      BY <2>4 DEF RowFollows
    <3>2. ASSUME NEW w \in Workers, job[w] = t PROVE FALSE
      <4>1. job[w] # NoTask /\ step[w] \in Steps
        BY <3>2, NoTaskAssumption DEF TypeOK
      <4>2. QED
        BY <2>4, <3>2, <4>1 DEF RowFollows, Threads, Steps
    <3>3. QED
      BY <3>1, <3>2
  <2>6. Exclusive'
    BY <1>1, <2>2, <2>5 DEF Exclusive
  <2>7. RowFollows'
    <3>1. \A i \in DOMAIN pool' : row'[pool'[i]] = "PENDING"
      BY <2>2, <2>3 DEF RowFollows
    <3>2. \A w \in Workers : step[w] # "idle" => row'[job[w]] = row[job[w]]
      BY <2>3, <2>5 DEF TypeOK, Threads
    <3>3. QED
      BY <1>1, <3>1, <3>2 DEF RowFollows
  <2>8. Remembered'
    <3>1. ASSUME NEW u \in Tasks, row'[u] \in Open, u # t
          PROVE  \/ u \in missed \cup orphans
                 \/ \E i \in DOMAIN pool' : pool'[i] = u
                 \/ \E w \in Workers : job[w] = u
      <4>1. row[u] \in Open
        BY <2>3, <3>1
      <4>2. \A i \in DOMAIN pool : i \in DOMAIN pool' /\ pool'[i] = pool[i]
        BY <2>2
      <4>3. QED
        BY <4>1, <4>2 DEF Remembered
    <3>2. \E i \in DOMAIN pool' : pool'[i] = t
      BY <2>2
    <3>3. QED
      BY <1>1, <3>1, <3>2 DEF Remembered
  <2>9. QED
    BY <1>2, <2>1, <2>6, <2>7, <2>8
<1>4. CASE row' = [row EXCEPT ![t] = "refused"] /\ UNCHANGED pool
  <2>1. TypeOK'
    BY <1>1, <1>4 DEF TypeOK
  <2>2. \A u \in Tasks : row'[u] = IF u = t THEN "refused" ELSE row[u]
    BY <1>4 DEF TypeOK
  <2>3. row[t] = "none"
    BY DEF Submit
  <2>4. \A i \in DOMAIN pool : pool[i] \in Tasks
    BY DEF TypeOK
  <2>5. RowFollows'
    <3>1. \A i \in DOMAIN pool : row'[pool[i]] = row[pool[i]]
      BY <2>2, <2>3, <2>4 DEF RowFollows
    <3>2. ASSUME NEW w \in Workers, step[w] # "idle" PROVE row'[job[w]] = row[job[w]]
      <4>1. job[w] \in Tasks /\ row[job[w]] # "none"
        BY <3>2 DEF TypeOK, Threads, RowFollows, Steps
      <4>2. QED
        BY <2>2, <2>3, <4>1
    <3>3. QED
      BY <1>1, <1>4, <3>1, <3>2 DEF RowFollows
  <2>6. Exclusive' /\ Remembered'
    BY <1>1, <1>4, <2>2 DEF Exclusive, Remembered, Open
  <2>7. QED
    BY <1>2, <2>1, <2>5, <2>6
<1>5. QED
  BY <1>3, <1>4 DEF Submit

LEMMA TakeIInv == ASSUME IInv, NEW w \in Workers, Take(w) PROVE IInv'
<1> USE DEF IInv
<1>1. /\ UNCHANGED <<pc, row, tries, verdict, missed, orphans, starts>>
      /\ pc \in {"serving", "draining"} /\ job[w] = NoTask /\ pool # <<>>
      /\ job' = [job EXCEPT ![w] = Head(pool)]
      /\ step' = [step EXCEPT ![w] = "begin"]
      /\ pool' = Tail(pool)
  BY DEF Take
<1>2. /\ DOMAIN pool = 1..Len(pool) /\ Len(pool) \in Nat /\ Len(pool) > 0
      /\ 1 \in DOMAIN pool /\ Head(pool) = pool[1] /\ pool[1] \in Tasks
      /\ DOMAIN pool' = 1..(Len(pool) - 1) /\ pool' \in Seq(Tasks)
      /\ \A i \in DOMAIN pool' : pool'[i] = pool[i + 1] /\ i + 1 \in DOMAIN pool /\ i + 1 # 1
      /\ \A i \in DOMAIN pool : i # 1 => i - 1 \in DOMAIN pool' /\ pool'[i - 1] = pool[i]
  BY <1>1 DEF TypeOK
<1>3. PICK t \in Tasks : t = pool[1]
  BY <1>2
<1>4. \A v \in Workers : job'[v] = IF v = w THEN t ELSE job[v]
  BY <1>1, <1>2, <1>3 DEF TypeOK
<1>5. \A v \in Workers : step'[v] = IF v = w THEN "begin" ELSE step[v]
  BY <1>1 DEF TypeOK
<1>6. TypeOK'
  BY <1>1, <1>2 DEF TypeOK, Steps
<1>7. Threads'
  BY <1>1, <1>4, <1>5, NoTaskAssumption DEF Threads
<1>8. t # NoTask /\ (\A v \in Workers : job[v] # t) /\ \A i \in DOMAIN pool' : pool'[i] # t
  BY <1>2, <1>3, NoTaskAssumption DEF Exclusive
<1>9. Exclusive'
  <2>1. ASSUME NEW i \in DOMAIN pool', NEW j \in DOMAIN pool', pool'[i] = pool'[j] PROVE i = j
    <3>1. i + 1 = j + 1
      BY <1>2, <2>1 DEF Exclusive
    <3>2. QED
      BY <1>2, <3>1
  <2>2. \A u, v \in Workers : job'[u] = job'[v] /\ job'[u] # NoTask => u = v
    BY <1>4, <1>8 DEF Exclusive
  <2>3. \A i \in DOMAIN pool', v \in Workers : pool'[i] # job'[v]
    BY <1>2, <1>4, <1>8 DEF Exclusive
  <2>4. QED
    BY <2>1, <2>2, <2>3 DEF Exclusive
<1>10. RowFollows'
  <2>1. \A i \in DOMAIN pool' : row[pool'[i]] = "PENDING"
    BY <1>2 DEF RowFollows
  <2>2. row[t] = "PENDING"
    BY <1>2, <1>3 DEF RowFollows
  <2>3. QED
    BY <1>1, <1>4, <1>5, <2>1, <2>2 DEF RowFollows
<1>11. Remembered'
  <2> SUFFICES ASSUME NEW u \in Tasks, row[u] \in Open, u \notin missed \cup orphans
               PROVE  (\E i \in DOMAIN pool' : pool'[i] = u) \/ \E v \in Workers : job'[v] = u
    BY <1>1 DEF Remembered
  <2>1. CASE \E v \in Workers : job[v] = u
    <3>1. PICK v \in Workers : job[v] = u
      BY <2>1
    <3>2. v # w
      BY <1>1, <3>1, NoTaskAssumption
    <3>3. QED
      BY <1>4, <3>1, <3>2
  <2>2. CASE \E i \in DOMAIN pool : pool[i] = u
    <3>1. PICK i \in DOMAIN pool : pool[i] = u
      BY <2>2
    <3>2. CASE i = 1
      BY <1>3, <1>4, <3>1, <3>2
    <3>3. CASE i # 1
      BY <1>2, <3>1, <3>3
    <3>4. QED
      BY <3>2, <3>3
  <2>3. QED
    BY <2>1, <2>2 DEF Remembered
<1>12. Drained'
  BY <1>1 DEF Drained
<1>13. QED
  BY <1>6, <1>7, <1>9, <1>10, <1>11, <1>12

LEMMA BeginIInv == ASSUME IInv, NEW w \in Workers, Begin(w) PROVE IInv'
<1> USE DEF IInv
<1>1. /\ UNCHANGED <<pc, pool, job, tries, verdict, orphans, starts>>
      /\ pc # "down" /\ step[w] = "begin"
      /\ step' = [step EXCEPT ![w] = "judge"]
  BY DEF Begin
<1>2. job[w] \in Tasks /\ job[w] # NoTask /\ row[job[w]] = "PENDING"
  BY <1>1 DEF TypeOK, Threads, RowFollows
<1>3. PICK t \in Tasks : t = job[w]
  BY <1>2
<1>4. \/ row' = [row EXCEPT ![t] = "RUNNING"] /\ missed' = missed
      \/ row' = row /\ missed' = missed \cup {t}
  BY <1>3 DEF Begin, Update
<1>5. \A v \in Workers : step'[v] = IF v = w THEN "judge" ELSE step[v]
  BY <1>1 DEF TypeOK
<1>6. \A u \in Tasks : u # t => row'[u] = row[u]
  BY <1>4 DEF TypeOK
<1>7. row'[t] = "RUNNING" \/ (row'[t] = "PENDING" /\ t \in missed')
  <2>1. row[t] = "PENDING"
    BY <1>2, <1>3
  <2>2. QED
    BY <1>3, <1>4, <2>1 DEF TypeOK
<1>8. TypeOK'
  BY <1>1, <1>3, <1>4 DEF TypeOK, Steps, Open
<1>9. Threads' /\ Exclusive' /\ Drained'
  BY <1>1, <1>5 DEF Threads, Exclusive, Drained
<1>10. RowFollows'
  <2>1. \A i \in DOMAIN pool : pool[i] \in Tasks /\ pool[i] # t
    BY <1>3 DEF TypeOK, Exclusive
  <2>2. \A v \in Workers : v # w /\ step[v] # "idle" => job[v] \in Tasks /\ job[v] # t
    BY <1>2, <1>3 DEF TypeOK, Threads, Exclusive
  <2>3. \A i \in DOMAIN pool : row'[pool[i]] = "PENDING"
    BY <1>6, <2>1 DEF RowFollows
  <2>4. ASSUME NEW v \in Workers, v # w
        PROVE  /\ step[v] = "begin" => row'[job[v]] = "PENDING"
               /\ step[v] \in {"judge", "finish"} =>
                     row'[job[v]] = "RUNNING"
                     \/ (row'[job[v]] = "PENDING" /\ job[v] \in missed')
    <3>1. step[v] # "idle" => row'[job[v]] = row[job[v]]
      BY <1>6, <2>2, <2>4
    <3>2. job[v] \in missed => job[v] \in missed'
      BY <1>4
    <3>3. /\ step[v] = "begin" => row[job[v]] = "PENDING"
          /\ step[v] \in {"judge", "finish"} =>
                row[job[v]] = "RUNNING" \/ (row[job[v]] = "PENDING" /\ job[v] \in missed)
      BY DEF RowFollows
    <3>4. step[v] \in {"begin", "judge", "finish"} => step[v] # "idle"
      OBVIOUS
    <3>5. QED
      BY <3>1, <3>2, <3>3, <3>4
  <2>5. QED
    BY <1>1, <1>3, <1>5, <1>7, <2>3, <2>4 DEF RowFollows
<1>11. Remembered'
  <2>1. \A u \in Tasks : row'[u] \in Open => row[u] \in Open
    BY <1>2, <1>3, <1>6 DEF Open
  <2>2. missed \subseteq missed'
    BY <1>4
  <2>3. QED
    BY <1>1, <2>1, <2>2 DEF Remembered
<1>12. QED
  BY <1>8, <1>9, <1>10, <1>11

LEMMA JudgeIInv == ASSUME IInv, NEW w \in Workers, Judge(w) PROVE IInv'
<1> USE DEF IInv
<1>1. /\ UNCHANGED <<pc, row, pool, job, missed, orphans, starts>>
      /\ step[w] = "judge"
  BY DEF Judge
<1>2. tries[w] \in 0..MaxRetries /\ tries[w] < MaxRetries
  BY <1>1 DEF TypeOK, Threads
<1>3. \A v \in Workers : v # w => step'[v] = step[v] /\ tries'[v] = tries[v]
  BY DEF Judge, Conclude, TypeOK
<1>4. /\ step'[w] = "finish" \/ (step'[w] = "judge" /\ tries'[w] < MaxRetries)
      /\ step' \in [Workers -> Steps] /\ tries' \in [Workers -> 0..MaxRetries]
      /\ verdict' \in [Workers -> Terminal]
  <2>1. \A status \in Terminal : Conclude(w, status) =>
           /\ step'[w] = "finish" /\ step' \in [Workers -> Steps]
           /\ verdict' \in [Workers -> Terminal]
    BY DEF Conclude, TypeOK, Steps
  <2>2. CASE \E status \in Terminal : Conclude(w, status) /\ UNCHANGED tries
    <3>1. tries' \in [Workers -> 0..MaxRetries]
      BY <2>2 DEF TypeOK
    <3>2. QED
      BY <2>1, <2>2, <3>1
  <2>3. CASE /\ tries' = [tries EXCEPT ![w] = @ + 1]
             /\ \/ tries'[w] < MaxRetries /\ UNCHANGED <<step, verdict>>
                \/ tries'[w] = MaxRetries /\ Conclude(w, "FAILED")
    <3>1. tries' \in [Workers -> 0..MaxRetries]
      BY <1>2, <2>3, RetriesAssumption DEF TypeOK
    <3>2. "FAILED" \in Terminal
      BY DEF Terminal
    <3>3. CASE tries'[w] < MaxRetries /\ UNCHANGED <<step, verdict>>
      BY <1>1, <3>1, <3>3 DEF TypeOK
    <3>4. CASE Conclude(w, "FAILED")
      BY <2>1, <3>1, <3>2, <3>4
    <3>5. QED
      BY <2>3, <3>3, <3>4
  <2>4. QED
    BY <2>2, <2>3 DEF Judge
<1>5. TypeOK'
  BY <1>1, <1>4 DEF TypeOK
<1>6. Threads'
  BY <1>1, <1>3, <1>4 DEF Threads
<1>7. Exclusive' /\ Drained' /\ Remembered'
  BY <1>1 DEF Exclusive, Drained, Remembered
<1>8. RowFollows'
  BY <1>1, <1>3, <1>4 DEF RowFollows
<1>9. QED
  BY <1>5, <1>6, <1>7, <1>8

LEMMA FinishIInv == ASSUME IInv, NEW w \in Workers, Finish(w) PROVE IInv'
<1> USE DEF IInv
<1>1. /\ UNCHANGED <<pc, pool, verdict, orphans, starts>>
      /\ step[w] = "finish"
      /\ job' = [job EXCEPT ![w] = NoTask]
      /\ step' = [step EXCEPT ![w] = "idle"]
      /\ tries' = [tries EXCEPT ![w] = 0]
  BY DEF Finish
<1>2. job[w] \in Tasks /\ job[w] # NoTask
  BY <1>1 DEF TypeOK, Threads
<1>3. PICK t \in Tasks : t = job[w]
  BY <1>2
<1>4. \/ row' = [row EXCEPT ![t] = verdict[w]] /\ missed' = missed
      \/ row' = row /\ missed' = missed \cup {t}
  BY <1>3 DEF Finish, Update
<1>5. \A v \in Workers : /\ step'[v] = IF v = w THEN "idle" ELSE step[v]
                         /\ job'[v] = IF v = w THEN NoTask ELSE job[v]
                         /\ tries'[v] = IF v = w THEN 0 ELSE tries[v]
  BY <1>1 DEF TypeOK
<1>6. \A u \in Tasks : u # t => row'[u] = row[u]
  BY <1>4 DEF TypeOK
<1>7. row'[t] \in Terminal \/ t \in missed'
  BY <1>4 DEF TypeOK
<1>8. TypeOK'
  <2>1. verdict[w] \in Terminal
    BY DEF TypeOK
  <2>2. QED
    BY <1>1, <1>3, <1>4, <2>1, RetriesAssumption DEF TypeOK, Steps
<1>9. Threads' /\ Drained'
  BY <1>1, <1>5, RetriesAssumption DEF Threads, Drained
<1>10. Exclusive'
  <2>1. \A i \in DOMAIN pool : pool[i] # NoTask
    BY NoTaskAssumption DEF TypeOK
  <2>2. QED
    BY <1>1, <1>5, <2>1 DEF Exclusive
<1>11. RowFollows'
  <2>1. \A i \in DOMAIN pool : pool[i] \in Tasks /\ pool[i] # t
    BY <1>3 DEF TypeOK, Exclusive
  <2>2. \A v \in Workers : v # w /\ step[v] # "idle" => job[v] \in Tasks /\ job[v] # t
    BY <1>2, <1>3 DEF TypeOK, Threads, Exclusive
  <2>3. \A i \in DOMAIN pool : row'[pool[i]] = "PENDING"
    BY <1>6, <2>1 DEF RowFollows
  <2>4. ASSUME NEW v \in Workers, v # w
        PROVE  /\ step[v] = "begin" => row'[job[v]] = "PENDING"
               /\ step[v] \in {"judge", "finish"} =>
                     row'[job[v]] = "RUNNING"
                     \/ (row'[job[v]] = "PENDING" /\ job[v] \in missed')
    <3>1. step[v] # "idle" => row'[job[v]] = row[job[v]]
      BY <1>6, <2>2, <2>4
    <3>2. job[v] \in missed => job[v] \in missed'
      BY <1>4
    <3>3. /\ step[v] = "begin" => row[job[v]] = "PENDING"
          /\ step[v] \in {"judge", "finish"} =>
                row[job[v]] = "RUNNING" \/ (row[job[v]] = "PENDING" /\ job[v] \in missed)
      BY DEF RowFollows
    <3>4. step[v] \in {"begin", "judge", "finish"} => step[v] # "idle"
      OBVIOUS
    <3>5. QED
      BY <3>1, <3>2, <3>3, <3>4
  <2>5. QED
    BY <1>1, <1>5, <2>3, <2>4 DEF RowFollows
<1>12. Remembered'
  <2> SUFFICES ASSUME NEW u \in Tasks, row'[u] \in Open, u \notin missed' \cup orphans
               PROVE  (\E i \in DOMAIN pool : pool[i] = u) \/ \E v \in Workers : job'[v] = u
    BY <1>1 DEF Remembered
  <2>1. u # t
    BY <1>7 DEF Open, Terminal
  <2>2. row[u] \in Open /\ u \notin missed \cup orphans
    BY <1>4, <1>6, <2>1
  <2>3. \A v \in Workers : job[v] = u => job'[v] = u
    BY <1>3, <1>5, <2>1
  <2>4. QED
    BY <2>2, <2>3 DEF Remembered
<1>13. QED
  BY <1>8, <1>9, <1>10, <1>11, <1>12

LEMMA DieIInv == IInv /\ Die => IInv'
<1> SUFFICES ASSUME IInv, Die PROVE IInv'
  OBVIOUS
<1> USE DEF IInv
<1>1. /\ UNCHANGED <<row, verdict, missed, starts>> /\ pc' = "down"
      /\ orphans' = orphans \cup Queued \cup Running
      /\ pool' = <<>> /\ job' = [w \in Workers |-> NoTask]
      /\ step' = [w \in Workers |-> "idle"] /\ tries' = [w \in Workers |-> 0]
  BY DEF Die
<1>2. Queued \subseteq Tasks /\ Running \subseteq Tasks
  BY DEF TypeOK, Queued, Running
<1>3. TypeOK'
  BY <1>1, <1>2, RetriesAssumption DEF TypeOK, Steps
<1>4. Threads' /\ Exclusive' /\ RowFollows' /\ Drained'
  BY <1>1, RetriesAssumption DEF Threads, Exclusive, RowFollows, Drained
<1>5. Remembered'
  <2>1. \A t \in Tasks : (\E i \in DOMAIN pool : pool[i] = t) => t \in Queued
    BY DEF Queued
  <2>2. \A t \in Tasks : (\E w \in Workers : job[w] = t) => t \in Running
    BY NoTaskAssumption DEF Running
  <2>3. QED
    BY <1>1, <2>1, <2>2 DEF Remembered
<1>6. QED
  BY <1>3, <1>4, <1>5

LEMMA StepIInv == IInv /\ [Next]_evalVars => IInv'
<1> SUFFICES ASSUME IInv, [Next]_evalVars PROVE IInv'
  OBVIOUS
<1>1. CASE \E t \in Tasks : Submit(t)
  BY <1>1, SubmitIInv
<1>2. ASSUME NEW w \in Workers, Thread(w) PROVE IInv'
  BY <1>2, TakeIInv, BeginIInv, JudgeIInv, FinishIInv DEF Thread
<1>3. CASE Die
  BY <1>3, DieIInv
<1>4. CASE Close
  <2>1. \A w \in Workers : job[w] = NoTask
    BY <1>4 DEF Close, Running
  <2>2. QED
    BY <1>4, <2>1 DEF Close, IInv, TypeOK, Threads, Exclusive, RowFollows, Remembered, Drained
<1>5. CASE Shutdown
  BY <1>5 DEF Shutdown, IInv, TypeOK, Threads, Exclusive, RowFollows, Remembered, Drained
<1>6. CASE Start
  <2>1. starts' \in 1..MaxStarts
    BY <1>6, StartsAssumption DEF Start, IInv, TypeOK
  <2>2. QED
    BY <1>6, <2>1 DEF Start, IInv, TypeOK, Threads, Exclusive, RowFollows, Remembered, Drained
<1>7. CASE Finished \/ UNCHANGED evalVars
  BY <1>7 DEF Finished, evalVars, IInv, TypeOK, Threads, Exclusive, RowFollows, Remembered,
              Drained
<1>8. QED
  BY <1>1, <1>2, <1>3, <1>4, <1>5, <1>6, <1>7 DEF Next

LEMMA Invariance == Spec => []IInv
BY InitIInv, StepIInv, PTL DEF Spec
-------------------------------------------------------------------------------
\* However jobs are queued, taken, judged, missed or cut off by the end of the
\* process, no two threads have the same job, and it is not concluded yet.
THEOREM JobsExclusive == Spec => []OneThreadPerJob
<1>1. IInv => OneThreadPerJob
  <2> SUFFICES ASSUME IInv PROVE OneThreadPerJob
    OBVIOUS
  <2> USE DEF IInv
  <2>1. Queued \cap Running = {}
    BY DEF Exclusive, Queued, Running
  <2>2. ASSUME NEW t \in Queued PROVE row[t] \in Open
    BY DEF Queued, RowFollows, Open
  <2>3. ASSUME NEW t \in Running PROVE row[t] \in Open
    <3>1. PICK w \in Workers : t = job[w] /\ job[w] # NoTask
      BY DEF Running
    <3>2. step[w] \in {"begin", "judge", "finish"}
      BY <3>1 DEF TypeOK, Steps, Threads
    <3>3. QED
      BY <3>1, <3>2 DEF RowFollows, Open
  <2>4. QED
    BY <2>1, <2>2, <2>3 DEF Exclusive, OneThreadPerJob
<1>2. QED
  BY <1>1, Invariance, PTL

\* No row of the evaluation table stays open without a reason: its job is in the
\* executor, an update of it failed, or its process ended before it.
THEOREM RowsRemembered == Spec => []NoRowForgotten
<1>1. IInv => NoRowForgotten
  <2> SUFFICES ASSUME IInv, NEW t \in Tasks, row[t] \in Open, t \notin missed \cup orphans
               PROVE  pc \in {"serving", "draining"} /\ t \in Queued \cup Running
    BY DEF NoRowForgotten
  <2>1. (\E i \in DOMAIN pool : pool[i] = t) \/ \E w \in Workers : job[w] = t
    BY DEF IInv, Remembered
  <2>2. t \in Queued \cup Running
    BY <2>1, NoTaskAssumption DEF Queued, Running
  <2>3. pc \notin {"closed", "down"}
    BY <2>1, NoTaskAssumption DEF IInv, Drained
  <2>4. QED
    BY <2>2, <2>3 DEF IInv, TypeOK
<1>2. QED
  BY <1>1, Invariance, PTL

\* A row moves along PENDING, RUNNING and a verdict, and is never written again
\* once it has one, by any thread of any process.
THEOREM RowsFollowMachine == Spec => StatusMachine
<1> DEFINE Moves == \A t \in Tasks : row'[t] # row[t] =>
           \/ row[t] = "none" /\ row'[t] \in {"PENDING", "refused"}
           \/ row[t] = "PENDING" /\ row'[t] = "RUNNING"
           \/ row[t] = "RUNNING" /\ row'[t] \in Terminal
           \/ row[t] = "PENDING" /\ t \in missed /\ row'[t] \in Terminal
<1>1. ASSUME IInv, NEW t \in Tasks, Submit(t) PROVE Moves
  BY <1>1 DEF Submit, IInv, TypeOK
<1>2. ASSUME IInv, NEW w \in Workers, Begin(w) PROVE Moves
  <2>1. step[w] = "begin" /\ job[w] \in Tasks /\ row[job[w]] = "PENDING"
    BY <1>2 DEF Begin, IInv, TypeOK, Threads, RowFollows
  <2>2. row' = [row EXCEPT ![job[w]] = "RUNNING"] \/ row' = row
    BY <1>2 DEF Begin, Update
  <2>3. QED
    BY <1>2, <2>1, <2>2 DEF IInv, TypeOK
<1>3. ASSUME IInv, NEW w \in Workers, Finish(w) PROVE Moves
  <2>1. step[w] = "finish" /\ job[w] \in Tasks /\ verdict[w] \in Terminal
    BY <1>3 DEF Finish, IInv, TypeOK, Threads
  <2>2. row[job[w]] = "RUNNING" \/ (row[job[w]] = "PENDING" /\ job[w] \in missed)
    BY <1>3, <2>1 DEF IInv, RowFollows
  <2>3. row' = [row EXCEPT ![job[w]] = verdict[w]] \/ row' = row
    BY <1>3 DEF Finish, Update
  <2>4. QED
    BY <1>3, <2>1, <2>2, <2>3 DEF IInv, TypeOK
<1>4. ASSUME NEW w \in Workers, Take(w) \/ Judge(w) PROVE Moves
  BY <1>4 DEF Take, Judge
<1>5. ASSUME Shutdown \/ Close \/ Die \/ Start \/ Finished \/ UNCHANGED evalVars PROVE Moves
  BY <1>5 DEF Shutdown, Close, Die, Start, Finished, evalVars
<1>6. IInv /\ [Next]_evalVars => [Moves]_evalVars
  <2> HIDE DEF Moves
  <2>1. QED
    BY <1>1, <1>2, <1>3, <1>4, <1>5 DEF Next, Thread
<1>7. QED
  BY <1>6, Invariance, PTL DEF Spec, StatusMachine
===============================================================================
