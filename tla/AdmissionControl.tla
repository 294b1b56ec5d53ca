--------------------------- MODULE AdmissionControl ---------------------------
(***************************************************************************)
(* gateway/admission_control.py: the gate in front of the reasoning model. *)
(* AdmissionController.acquire runs Semaphore.acquire in a task of its own *)
(* (asyncio.wait_for) and gives up when the timeout of the priority tier   *)
(* expires; release hands the slot back.  The semaphore is asyncio's, so   *)
(* its steps are modelled from the way acquire and release use it: a FIFO  *)
(* of waiters, a release that grants the first pending waiter and a        *)
(* waiter that runs only later.  Timeouts are durations, so a timer may    *)
(* fire at any moment of the wait: the priority tier is abstracted away.   *)
(***************************************************************************)
EXTENDS Integers, Sequences, FiniteSets

CONSTANTS
    Callers,        \* coroutines that call acquire and release
    MaxConcurrent   \* max_concurrent_reasoning

ASSUME CallersAssumption == IsFiniteSet(Callers)
ASSUME MaxConcurrentAssumption == MaxConcurrent \in Nat

VARIABLES
    value,      \* Semaphore._value: the free slots
    waiters,    \* Semaphore._waiters: callers whose future is not cancelled
    st,         \* where each caller is inside acquire
    active,     \* _active_count
    result      \* the reason of the last AdmissionResult a caller received

admVars == <<value, waiters, st, active, result>>

\* "start": the task of Semaphore.acquire is created but has not run;
\* "wait": its future is pending; "granted": release has set the future but
\* the task has not resumed; "got": the task is done and acquire has not
\* resumed; "in": acquire returned admitted with a semaphore slot.
CallerStates == {"out", "start", "wait", "granted", "got", "in"}
Reasons == {"none", "bypass_cheap_model", "semaphore_timeout", "admitted"}

\* Callers for which a slot is reserved, whether or not they know it yet;
\* those acquire has told; those in the queue.
HoldersIn(s) == {c \in Callers : s[c] \in {"granted", "got", "in"}}
InsideIn(s) == {c \in Callers : s[c] = "in"}
QueuedIn(s) == {c \in Callers : s[c] \in {"wait", "granted"}}
Holders == HoldersIn(st)
Inside == InsideIn(st)

\* The members of a queue, and a queue without repetition.
MembersOf(q) == {q[i] : i \in DOMAIN q}
Distinct(q) == \A i, j \in DOMAIN q : q[i] = q[j] => i = j

TypeOK ==
    /\ value \in Int
    /\ waiters \in Seq(Callers)
    /\ st \in [Callers -> CallerStates]
    /\ active \in Int
    /\ result \in [Callers -> Reasons]
-------------------------------------------------------------------------------
Init ==
    /\ value = MaxConcurrent
    /\ waiters = <<>>
    /\ st = [c \in Callers |-> "out"]
    /\ active = 0
    /\ result = [c \in Callers |-> "none"]

\* asyncio's _wake_up_next, applied to a value v, states s and a queue q that
\* the caller has already updated: the first waiter whose future is pending
\* takes a slot.
PendingIn(s, q) == {i \in DOMAIN q : s[q[i]] = "wait"}

WakeUpNext(v, s, q) ==
    \/ /\ PendingIn(s, q) = {}
       /\ value' = v
       /\ st' = s
    \/ \E i \in PendingIn(s, q) :
          /\ \A j \in PendingIn(s, q) : i <= j
          /\ value' = v - 1
          /\ st' = [s EXCEPT ![q[i]] = "granted"]

\* deque.remove: the queue without the first occurrence of c.
Without(q, c) ==
    IF \E i \in DOMAIN q : q[i] = c
    THEN LET i == CHOOSE i \in DOMAIN q : q[i] = c
         IN  [j \in 1..(Len(q) - 1) |-> IF j < i THEN q[j] ELSE q[j + 1]]
    ELSE q
-------------------------------------------------------------------------------
\* acquire for the budget class "low": admitted at once, without a slot.
AcquireBypass(c) ==
    /\ st[c] = "out"
    /\ result' = [result EXCEPT ![c] = "bypass_cheap_model"]
    /\ UNCHANGED <<value, waiters, st, active>>

\* acquire for any other class: wait_for schedules the task of
\* Semaphore.acquire and suspends.
AcquireCall(c) ==
    /\ st[c] = "out"
    /\ st' = [st EXCEPT ![c] = "start"]
    /\ UNCHANGED <<value, waiters, active, result>>

\* (mutant) a newcomer takes a free slot past the queue.
StartAcquireBarging(c) ==
    /\ st[c] = "start"
    /\ \/ /\ value > 0
          /\ value' = value - 1
          /\ st' = [st EXCEPT ![c] = "got"]
          /\ UNCHANGED waiters
       \/ /\ value = 0
          /\ waiters' = Append(waiters, c)
          /\ st' = [st EXCEPT ![c] = "wait"]
          /\ UNCHANGED value
    /\ UNCHANGED <<active, result>>

\* (mutant) no ceiling: every acquire succeeds.
StartAcquireUnbounded(c) ==
    /\ st[c] = "start"
    /\ value' = value - 1
    /\ st' = [st EXCEPT ![c] = "got"]
    /\ UNCHANGED <<waiters, active, result>>

\* The first step of that task: take a slot only if one is free and nobody
\* waits, granted waiters that have not run included; else join the queue.
StartAcquire(c) ==
    /\ st[c] = "start"
    /\ \/ /\ value > 0 /\ waiters = <<>>
          /\ value' = value - 1
          /\ st' = [st EXCEPT ![c] = "got"]
          /\ UNCHANGED waiters
       \/ /\ value = 0 \/ waiters # <<>>
          /\ waiters' = Append(waiters, c)
          /\ st' = [st EXCEPT ![c] = "wait"]
          /\ UNCHANGED value
    /\ UNCHANGED <<active, result>>

\* (mutant) a resumed waiter does not look for further free slots.
ResumeWaiterAlone(c) ==
    /\ st[c] = "granted"
    /\ waiters' = Without(waiters, c)
    /\ value' = value
    /\ st' = [st EXCEPT ![c] = "got"]
    /\ UNCHANGED <<active, result>>

\* A granted waiter resumes, leaves the queue and, when slots are still free,
\* wakes the next one.
ResumeWaiter(c) ==
    /\ st[c] = "granted"
    /\ waiters' = Without(waiters, c)
    /\ LET s == [st EXCEPT ![c] = "got"]
       IN  IF value > 0
           THEN WakeUpNext(value, s, waiters')
           ELSE value' = value /\ st' = s
    /\ UNCHANGED <<active, result>>

\* acquire resumes with the slot: the counter moves only now.
Admit(c) ==
    /\ st[c] = "got"
    /\ st' = [st EXCEPT ![c] = "in"]
    /\ active' = active + 1
    /\ result' = [result EXCEPT ![c] = "admitted"]
    /\ UNCHANGED <<value, waiters>>

\* (mutant) a timed-out waiter keeps the slot it has just been granted.
TimeOutKeepsGrant(c) ==
    /\ st[c] \in {"start", "wait", "granted"}
    /\ waiters' = Without(waiters, c)
    /\ value' = value
    /\ st' = [st EXCEPT ![c] = "out"]
    /\ result' = [result EXCEPT ![c] = "semaphore_timeout"]
    /\ UNCHANGED active

\* (mutant) acquire waits without wait_for: only a task that has not started
\* can still be given up.
TimeOutNever(c) ==
    /\ st[c] = "start"
    /\ st' = [st EXCEPT ![c] = "out"]
    /\ result' = [result EXCEPT ![c] = "semaphore_timeout"]
    /\ UNCHANGED <<value, waiters, active>>

\* The timer of wait_for fires before the task is done, and the task is
\* cancelled.  A waiter that had already been granted a slot returns it and
\* wakes the next waiter.
TimeOut(c) ==
    /\ st[c] \in {"start", "wait", "granted"}
    /\ waiters' = Without(waiters, c)
    /\ LET s == [st EXCEPT ![c] = "out"]
       IN  IF st[c] = "granted"
           THEN WakeUpNext(value + 1, s, waiters')
           ELSE value' = value /\ st' = s
    /\ result' = [result EXCEPT ![c] = "semaphore_timeout"]
    /\ UNCHANGED active

\* release(), which does not look at who calls it; next is where the caller
\* goes in the same step, "out" or, when it queues again at once, "start".
ReleaseSlot(c, next) ==
    /\ active' = active - 1
    /\ WakeUpNext(value + 1, [st EXCEPT ![c] = next], waiters)
    /\ UNCHANGED <<waiters, result>>

\* (mutant) release is called for a caller that was never admitted.
ReleaseAnyway(c) == st[c] \in {"in", "out"} /\ ReleaseSlot(c, "out")

Release(c) == st[c] = "in" /\ ReleaseSlot(c, "out")

\* An escalating request releases and calls acquire with no await between.
Reacquire(c) == st[c] = "in" /\ ReleaseSlot(c, "start")

Internal(c) ==
    StartAcquire(c) \/ ResumeWaiter(c) \/ Admit(c) \/ TimeOut(c)

Step(c) ==
    \/ AcquireBypass(c)
    \/ AcquireCall(c)
    \/ Internal(c)
    \/ Release(c)
    \/ Reacquire(c)

Next == \E c \in Callers : Step(c)

Spec == Init /\ [][Next]_admVars

\* The event loop runs every ready task and fires every timer; no caller is
\* obliged to release.
Fairness == \A c \in Callers : WF_admVars(Internal(c))

FairSpec == Spec /\ Fairness
-------------------------------------------------------------------------------
\* The free slots and the reserved ones always add up to the ceiling: a slot
\* granted to a waiter whose timer then fires is neither lost nor doubled
\* (acquire's wait_for racing release).
SlotConservation == value + Cardinality(Holders) = MaxConcurrent

\* _active_count counts exactly the callers acquire has told they hold a slot.
ActiveCountExact == active = Cardinality(Inside)

\* At most MaxConcurrent callers are between acquire and release, the semaphore
\* never counts outside its range, and _active_count, which moves in steps of
\* its own, is the number of those callers, so that it is in range, too.
CeilingRespected ==
    /\ Cardinality(Inside) <= MaxConcurrent
    /\ value \in 0..MaxConcurrent
    /\ ActiveCountExact

\* The queue holds each waiter once, and exactly the callers that wait or have
\* been granted a slot and have not run.
QueueExact == Distinct(waiters) /\ MembersOf(waiters) = QueuedIn(st)

\* No lost wake-up: while a caller sleeps in the queue beside a free slot, some
\* granted waiter is about to run and to pass the slot on.
NoLostWakeUp ==
    value > 0 /\ (\E c \in Callers : st[c] = "wait")
        => \E c \in Callers : st[c] = "granted"

\* Slots are granted in the order of arrival, whatever the tier of a caller: a
\* waiter is granted only when every waiter ahead of it has been granted or has
\* left, and a caller that has just started takes a slot only when nobody
\* waits, granted waiters that have not run included.
FirstComeFirstServed ==
    [][ /\ \A i, j \in DOMAIN waiters :
              i < j /\ st[waiters[i]] = "wait" /\ st[waiters[j]] = "wait"
                 => ~(st'[waiters[j]] = "granted" /\ st'[waiters[i]] = "wait")
        /\ \A c \in Callers :
              st[c] = "start" /\ st'[c] = "got" => waiters = <<>>
      ]_admVars

\* Every call of acquire returns, even if no holder ever releases: the timer
\* bounds the wait.
AcquireReturns ==
    \A c \in Callers :
        st[c] \in {"start", "wait", "granted", "got"} ~> st[c] \in {"out", "in"}

\* The gate implements the abstract pool of slots.
Pool == INSTANCE SlotPool WITH inUse <- Holders
PoolSpec == Pool!Spec
===============================================================================
