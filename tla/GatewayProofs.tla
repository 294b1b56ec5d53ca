----------------------------- MODULE GatewayProofs -----------------------------
(***************************************************************************)
(* Theorems about Gateway, for any number of requests and slots, any jobs, *)
(* and with or without a guardrail and a verifier.  The theorems about the *)
(* admission controller hold for the one inside the gateway because the    *)
(* gateway implements its specification.                                   *)
(***************************************************************************)
EXTENDS Gateway, SequenceTheorems, FiniteSetTheorems, TLAPS

AdmProofs == INSTANCE AdmissionControlProofs WITH Callers <- Requests

Serving == {"guard_in", "infer", "guard_out", "verify"}
Waiting == {"start", "wait", "granted", "got"}
-------------------------------------------------------------------------------
(* What a step of the admission controller does to the states of callers *)

\* r goes where the step takes it; another request can at most be granted a slot.
Kept(q) == st'[q] = st[q] \/ (st[q] = "wait" /\ st'[q] = "granted")
Moved(r, where) ==
    /\ st' \in [Requests -> Adm!CallerStates]
    /\ st'[r] = where
    /\ \A q \in Requests \ {r} : Kept(q)

LEMMA WakeUpMoves ==
    ASSUME st \in [Requests -> Adm!CallerStates], NEW r \in Requests,
           NEW where \in Adm!CallerStates \ {"wait"}, NEW v, NEW q,
           Adm!WakeUpNext(v, [st EXCEPT ![r] = where], q)
    PROVE  Moved(r, where)
<1> DEFINE s == [st EXCEPT ![r] = where]
<1>1. s \in [Requests -> Adm!CallerStates] /\ s[r] = where
      /\ \A c \in Requests \ {r} : s[c] = st[c]
  OBVIOUS
<1>2. CASE st' = s
  BY <1>1, <1>2 DEF Moved, Kept
<1>3. CASE \E i \in Adm!PendingIn(s, q) : st' = [s EXCEPT ![q[i]] = "granted"]
  <2>1. PICK d : s[d] = "wait" /\ st' = [s EXCEPT ![d] = "granted"]
    BY <1>3 DEF Adm!PendingIn
  <2>2. "granted" \in Adm!CallerStates /\ d # r
    BY <1>1, <2>1 DEF Adm!CallerStates
  <2> HIDE DEF s
  <2>3. st' \in [Requests -> Adm!CallerStates] /\ st'[r] = where
    BY <1>1, <2>1, <2>2
  <2>4. \A c \in Requests \ {r} : Kept(c)
    BY <1>1, <2>1 DEF Kept
  <2>5. QED
    BY <2>3, <2>4 DEF Moved
<1>4. QED
  BY <1>2, <1>3 DEF Adm!WakeUpNext

LEMMA AcquireMoves ==
    ASSUME st \in [Requests -> Adm!CallerStates], NEW r \in Requests
    PROVE  /\ Adm!AcquireBypass(r) => Moved(r, "out") /\ [Adm!Next]_Adm!admVars
           /\ Adm!AcquireCall(r) => Moved(r, "start") /\ [Adm!Next]_Adm!admVars
           /\ Adm!Admit(r) => st[r] = "got" /\ Moved(r, "in") /\ [Adm!Next]_Adm!admVars
<1>1. Adm!AcquireBypass(r) => Moved(r, "out") /\ Adm!Next
  BY DEF Adm!AcquireBypass, Adm!Next, Adm!Step, Moved, Kept
<1>2. Adm!AcquireCall(r) => Moved(r, "start") /\ Adm!Next
  BY DEF Adm!AcquireCall, Adm!Next, Adm!Step, Moved, Kept, Adm!CallerStates
<1>3. Adm!Admit(r) => st[r] = "got" /\ Moved(r, "in") /\ Adm!Next
  BY DEF Adm!Admit, Adm!Next, Adm!Step, Adm!Internal, Moved, Kept, Adm!CallerStates
<1>4. QED
  BY <1>1, <1>2, <1>3

LEMMA TimeOutMoves ==
    ASSUME st \in [Requests -> Adm!CallerStates], NEW r \in Requests, Adm!TimeOut(r)
    PROVE  Moved(r, "out") /\ [Adm!Next]_Adm!admVars
<1>1. Adm!Next
  BY DEF Adm!Next, Adm!Step, Adm!Internal
<1>2. CASE st[r] = "granted"
  <2>1. Adm!WakeUpNext(value + 1, [st EXCEPT ![r] = "out"], waiters')
    BY <1>2 DEF Adm!TimeOut
  <2>2. QED
    BY <1>1, <2>1, WakeUpMoves DEF Adm!CallerStates
<1>3. CASE st[r] # "granted"
  <2>1. st' = [st EXCEPT ![r] = "out"]
    BY <1>3 DEF Adm!TimeOut
  <2>2. QED
    BY <1>1, <2>1 DEF Moved, Kept, Adm!CallerStates
<1>4. QED
  BY <1>2, <1>3

LEMMA ReleaseMoves ==
    ASSUME st \in [Requests -> Adm!CallerStates], NEW r \in Requests, st[r] = "in",
           NEW next \in {"out", "start"}, Adm!ReleaseSlot(r, next)
    PROVE  Moved(r, next) /\ [Adm!Next]_Adm!admVars
<1>1. Adm!Next
  BY DEF Adm!Next, Adm!Step, Adm!Release, Adm!Reacquire
<1>2. next \in Adm!CallerStates \ {"wait"}
  BY DEF Adm!CallerStates
<1>3. Adm!WakeUpNext(value + 1, [st EXCEPT ![r] = next], waiters)
  BY DEF Adm!ReleaseSlot
<1>4. QED
  BY <1>1, <1>2, <1>3, WakeUpMoves

LEMMA SemaphoreMoves ==
    ASSUME st \in [Requests -> Adm!CallerStates], NEW r \in Requests,
           Adm!StartAcquire(r) \/ Adm!ResumeWaiter(r)
    PROVE  /\ st[r] \in Waiting
           /\ \E where \in Waiting : Moved(r, where)
           /\ [Adm!Next]_Adm!admVars
<1>1. Adm!Next
  BY DEF Adm!Next, Adm!Step, Adm!Internal
<1>2. CASE Adm!StartAcquire(r)
  <2>1. st[r] = "start" /\ \E where \in {"got", "wait"} : st' = [st EXCEPT ![r] = where]
    BY <1>2 DEF Adm!StartAcquire
  <2>2. QED
    BY <1>1, <2>1 DEF Waiting, Moved, Kept, Adm!CallerStates
<1>3. CASE Adm!ResumeWaiter(r)
  <2>1. st[r] = "granted" /\ Moved(r, "got")
    <3>1. CASE value > 0
      <4>1. Adm!WakeUpNext(value, [st EXCEPT ![r] = "got"], waiters') /\ st[r] = "granted"
        BY <1>3, <3>1 DEF Adm!ResumeWaiter
      <4>2. QED
        BY <4>1, WakeUpMoves DEF Adm!CallerStates
    <3>2. CASE ~(value > 0)
      BY <1>3, <3>2 DEF Adm!ResumeWaiter, Moved, Kept, Adm!CallerStates
    <3>3. QED
      BY <3>1, <3>2
  <2>2. QED
    BY <1>1, <2>1 DEF Waiting
<1>4. QED
  BY <1>2, <1>3
-------------------------------------------------------------------------------
(* The inductive invariant: what is known of each request, by the await it is *)
(* suspended at.                                                              *)

\* Between admission and answer a request holds a slot or has bypassed the gate
\* with the class "low"; an escalating one is inside acquire without a slot.
Slot(r) ==
    /\ pc[r] \in Awaits \cup {"new", "done"}
    /\ pc[r] \in {"new", "lookup", "done"} => st[r] = "out"
    /\ pc[r] \in {"new", "lookup"} => adm[r] = "none"
    /\ pc[r] = "admit" => st[r] \in Waiting /\ adm[r] = "none"
    /\ pc[r] \in Serving =>
          \/ st[r] = "in" /\ adm[r] = "admitted"
          \/ st[r] = "out" /\ adm[r] = "bypass_cheap_model" /\ cls[r] = "low"
    /\ pc[r] = "readmit" => st[r] \in Waiting /\ adm[r] \in {"bypass_cheap_model", "released"}

\* The attempt that runs is one above the escalations; every one before it was
\* found incorrect, and no later one has been.
Attempts(r) ==
    /\ esc[r] \in Nat /\ calls[r] \in Nat /\ cls[r] \in Classes
    /\ pc[r] # "new" => job[r] \in JobType /\ esc[r] <= job[r].retries
    /\ pc[r] \in {"new", "lookup", "admit", "guard_in"} => calls[r] = 0 /\ esc[r] = 0
    /\ pc[r] \in {"lookup", "admit", "guard_in"} => cls[r] = job[r].class
    /\ pc[r] \in {"infer", "readmit"} => calls[r] = esc[r]
    /\ pc[r] \in {"guard_out", "verify"} => calls[r] = esc[r] + 1
    /\ pc[r] \in {"infer", "guard_out", "verify"} => Rank[cls[r]] = Rank[job[r].class] + esc[r]
    /\ pc[r] = "readmit" =>
          /\ cls[r] # "critical" /\ Rank[cls[r]] + 1 = Rank[job[r].class] + esc[r]
          /\ verdict[r] = "incorrect" /\ esc[r] > 0
    /\ calls[r] <= esc[r] + 1
    /\ \A n \in 1..esc[r] : <<r, n>> \in wrong
    /\ \A n \in Nat : <<r, n>> \in wrong => n \in 1..calls[r]
    /\ pc[r] \in {"guard_out", "verify"} => <<r, calls[r]>> \notin wrong

\* The input check lies behind a request that has been at the model.
Cleared(r) ==
    /\ ChecksInput(job[r])
    /\ pc[r] \in {"infer", "guard_out", "verify", "readmit"} \/ calls[r] > 0
    => grIn[r] \in {"pass", "flag"}

\* The records of a request, and the one outcome of a delivered response.
Trail(r) ==
    /\ pc[r] \in {"new", "lookup"} => audit[r] = <<>>
    /\ pc[r] \in Awaits \ {"lookup"} => audit[r] = <<Decision(FALSE)>>
    /\ pc[r] = "done" =>
          \/ audit[r] = <<>> /\ answer[r].kind = "policy_resolution_failed"
          \/ audit[r] = <<Decision(FALSE)>> /\ answer[r].kind = "internal_error"
          \/ \E d, o :
                /\ audit[r] = <<d, o>> /\ d.type = "decision" /\ o.type = "outcome"
                /\ answer[r].kind = "delivered" =>
                      /\ o.verification = answer[r].verification
                      /\ o.escalations = answer[r].escalations
                      /\ o.guardrailInput = grIn[r]

\* A content that stays right: its request has been answered, so that the
\* verifier will not be asked about it any more.
Settled(c) ==
    \E q \in Requests, n \in Nat : c = <<q, n>> /\ pc[q] = "done" /\ c \notin wrong

Said(r) ==
    /\ pc[r] # "done" => answer[r] = Refusal("none") /\ storeTask[r] = "none"
    /\ pc[r] = "done" /\ answer[r].kind # "delivered" =>
          /\ answer[r].content = NoContent \/ Settled(answer[r].content)
          /\ storeTask[r] = "none"
    /\ Delivered(r) =>
          /\ answer[r].content = <<r, calls[r]>>
          /\ answer[r].confidence = "low" <=> answer[r].content \in wrong
          /\ storeTask[r] = "pending" => answer[r].content \notin wrong

Local(r) == Slot(r) /\ Attempts(r) /\ Cleared(r) /\ Trail(r) /\ Said(r)

Domains ==
    /\ st \in [Requests -> Adm!CallerStates]
    /\ DOMAIN pc = Requests /\ DOMAIN job = Requests /\ DOMAIN cls = Requests
    /\ DOMAIN adm = Requests /\ DOMAIN grIn = Requests /\ DOMAIN calls = Requests
    /\ DOMAIN esc = Requests /\ DOMAIN verdict = Requests /\ DOMAIN answer = Requests
    /\ DOMAIN audit = Requests /\ DOMAIN storeTask = Requests

Judgements == \A c \in wrong : \E q \in Requests, n \in Nat : c = <<q, n>>
Cached == \A e \in cache : Settled(e[2])

IInv == Domains /\ Judgements /\ Cached /\ \A r \in Requests : Local(r)
-------------------------------------------------------------------------------
(* A step of one request leaves what is known of the others. *)

Same(f, g, r) == DOMAIN g = Requests /\ \A q \in Requests \ {r} : g[q] = f[q]

Only(r) ==
    /\ st' \in [Requests -> Adm!CallerStates] /\ \A q \in Requests \ {r} : Kept(q)
    /\ Same(pc, pc', r) /\ Same(job, job', r) /\ Same(cls, cls', r)
    /\ Same(adm, adm', r) /\ Same(grIn, grIn', r) /\ Same(calls, calls', r)
    /\ Same(esc, esc', r) /\ Same(verdict, verdict', r) /\ Same(answer, answer', r)
    /\ Same(audit, audit', r) /\ Same(storeTask, storeTask', r)
    /\ pc[r] = "done" => pc'[r] = "done"
    /\ wrong \subseteq wrong'
    /\ \A c \in wrong' : c \in wrong \/ (pc[r] = "verify" /\ c = <<r, calls[r]>>)

LEMMA SettledStays ==
    ASSUME Domains, NEW r \in Requests, Only(r), NEW c, Settled(c)
    PROVE  Settled(c)'
<1>1. PICK q \in Requests, n \in Nat : c = <<q, n>> /\ pc[q] = "done" /\ c \notin wrong
  BY DEF Settled
<1>2. pc'[q] = "done"
  BY <1>1 DEF Only, Same
<1>3. c \notin wrong'
  <2>1. CASE q = r
    BY <1>1, <2>1 DEF Only
  <2>2. CASE q # r
    <3>1. \A k : <<q, n>> # <<r, k>>
      BY <2>2
    <3>2. QED
      BY <1>1, <3>1 DEF Only
  <2>3. QED
    BY <2>1, <2>2
<1>4. QED
  BY <1>1, <1>2, <1>3 DEF Settled

LEMMA OthersLocal ==
    ASSUME Domains, NEW r \in Requests, Only(r), NEW q \in Requests \ {r}, Local(q)
    PROVE  Local(q)'
<1>1. /\ UNCHANGED <<pc[q], job[q], cls[q], adm[q], grIn[q], calls[q], esc[q],
                     verdict[q], answer[q], audit[q], storeTask[q]>>
      /\ Kept(q)
  BY DEF Only, Same
<1>2. \A n : <<q, n>> \in wrong' <=> <<q, n>> \in wrong
  <2>1. \A n, k : <<q, n>> # <<r, k>>
    OBVIOUS
  <2>2. QED
    BY <2>1 DEF Only
<1>3. Slot(q)'
  BY <1>1 DEF Local, Slot, Kept, Waiting
<1>4. Attempts(q)'
  BY <1>1, <1>2 DEF Local, Attempts
<1>5. Cleared(q)'
  BY <1>1 DEF Local, Cleared
<1>6. Trail(q)'
  <2>1. /\ pc'[q] = pc[q] /\ audit'[q] = audit[q] /\ answer'[q] = answer[q]
        /\ grIn'[q] = grIn[q] /\ Trail(q)
    BY <1>1 DEF Local
  <2>2. QED
    BY <2>1 DEF Trail, Decision
<1>7. Said(q)'
  <2>1. CASE pc[q] # "done"
    BY <1>1, <2>1 DEF Local, Said, Delivered
  <2>2. CASE pc[q] = "done" /\ answer[q].kind # "delivered"
    BY <1>1, <2>2, SettledStays DEF Local, Said, Delivered
  <2>3. CASE Delivered(q)
    BY <1>1, <1>2, <2>3 DEF Local, Said, Delivered
  <2>4. QED
    BY <2>1, <2>2, <2>3 DEF Delivered
<1>8. QED
  BY <1>3, <1>4, <1>5, <1>6, <1>7 DEF Local

\* What the lemmas below show of each action of a request.
Proceeds(r) == Only(r) /\ Local(r)' /\ [Adm!Next]_Adm!admVars

LEMMA ProceedsIInv ==
    ASSUME IInv, NEW r \in Requests, Only(r), Local(r)',
           \A e \in cache' : e \in cache \/ Settled(e[2])
    PROVE  IInv'
<1>1. Domains'
  BY DEF Only, Same, Domains
<1>2. Judgements'
  BY DEF IInv, Attempts, Local, Only, Judgements
<1>3. Cached'
  BY SettledStays DEF IInv, Cached
<1>4. \A q \in Requests : Local(q)'
  BY OthersLocal DEF IInv
<1>5. QED
  BY <1>1, <1>2, <1>3, <1>4 DEF IInv
-------------------------------------------------------------------------------
(* Operators *)

LEMMA RankOfClasses ==
    /\ \A c \in Classes : Rank[c] \in Nat
    /\ \A c, d \in Classes : Rank[c] = Rank[d] => c = d
    /\ \A c \in Classes : c # "low" <=> Rank[c] > 0
BY DEF Classes, Rank

LEMMA ClassAbove ==
    ASSUME NEW c \in Classes, c # "critical"
    PROVE  NextClass(c) \in Classes /\ Rank[NextClass(c)] = Rank[c] + 1
<1>1. \E d \in Classes : Rank[d] = Rank[c] + 1
  BY DEF Classes, Rank
<1>2. QED
  BY <1>1 DEF NextClass, ClassAt

\* A sequence of one record that gets a second one; S is the set of both.
LEMMA Pair == ASSUME NEW d, NEW x PROVE <<d>> \o <<x>> = <<d, x>>
<1>1. PICK S : S = {d, x}
  OBVIOUS
<1>2. <<d>> \in Seq(S) /\ <<x>> \in Seq(S) /\ <<d, x>> \in Seq(S)
  BY <1>1
<1>3. PICK s \in Seq(S), t \in Seq(S) : s = <<d>> /\ t = <<x>>
  BY <1>2
<1>4. PICK u \in Seq(S) : u = s \o t
  BY ConcatProperties
<1>5. Len(u) = 2 /\ u[1] = d /\ u[2] = x
  BY <1>3, <1>4
<1>6. PICK v \in Seq(S) : v = <<d, x>>
  BY <1>2
<1>7. Len(v) = 2 /\ v[1] = d /\ v[2] = x
  BY <1>6
<1>8. u = v
  BY <1>5, <1>7
<1>9. QED
  BY <1>3, <1>4, <1>6, <1>8

LEMMA Enqueued ==
    ASSUME Domains, NEW r \in Requests, NEW x, Enqueue(r, <<x>>)
    PROVE  /\ Same(audit, audit', r)
           /\ audit[r] = <<>> => audit'[r] = <<x>>
           /\ \A d : audit[r] = <<d>> => audit'[r] = <<d, x>>
<1>1. <<>> \o <<x>> = <<x>>
  OBVIOUS
<1>2. QED
  BY <1>1, Pair DEF Domains, Enqueue, Same

LEMMA EnqueuedBoth ==
    ASSUME Domains, NEW r \in Requests, NEW x, NEW y, Enqueue(r, <<x, y>>)
    PROVE  Same(audit, audit', r) /\ (audit[r] = <<>> => audit'[r] = <<x, y>>)
<1>1. <<>> \o <<x, y>> = <<x, y>>
  OBVIOUS
<1>2. QED
  BY <1>1 DEF Domains, Enqueue, Same

LEMMA Replied ==
    ASSUME Domains, NEW r \in Requests, NEW a, Reply(r, a)
    PROVE  Same(pc, pc', r) /\ pc'[r] = "done" /\ Same(answer, answer', r) /\ answer'[r] = a
BY DEF Domains, Reply, At, Same

\* The answers that end a request without a response.
LEMMA Refused ==
    ASSUME NEW kind
    PROVE  Refusal(kind).kind = kind /\ Refusal(kind).content = NoContent
BY DEF Refusal

\* The answer of a refused request, for the part Said of the invariant.
LEMMA RefusedSaid ==
    ASSUME NEW r \in Requests, NEW kind, kind # "delivered",
           pc'[r] = "done", answer'[r] = Refusal(kind), storeTask'[r] = "none"
    PROVE  Said(r)'
BY Refused DEF Said, Delivered

LEMMA ReleaseHeldMoves ==
    ASSUME Domains, NEW r \in Requests, Slot(r), pc[r] \in Serving, ReleaseHeld(r)
    PROVE  Moved(r, "out") /\ [Adm!Next]_Adm!admVars
<1>1. CASE adm[r] = "admitted"
  <2>1. st[r] = "in" /\ Adm!ReleaseSlot(r, "out")
    BY <1>1 DEF Slot, ReleaseHeld
  <2>2. QED
    BY <2>1, ReleaseMoves DEF Domains
<1>2. CASE adm[r] # "admitted"
  <2>1. st[r] = "out" /\ UNCHANGED admVars
    BY <1>2 DEF Slot, ReleaseHeld
  <2>2. QED
    BY <2>1 DEF Domains, Moved, Kept, admVars, Adm!admVars, Adm!CallerStates
<1>3. QED
  BY <1>1, <1>2
-------------------------------------------------------------------------------
(* Steps 3 to 10 *)

LEMMA EnterAdmissionProceeds ==
    ASSUME IInv, NEW r \in Requests, pc[r] \in {"new", "lookup"}, NEW j \in JobType,
           Same(job, job', r), job'[r] = j, Same(cls, cls', r), cls'[r] = j.class,
           UNCHANGED <<grIn, calls, esc, verdict, storeTask, wrong>>, EnterAdmission(r, j)
    PROVE  Proceeds(r)
<1> USE DEF IInv
<1>0. Slot(r) /\ Attempts(r) /\ Trail(r) /\ Said(r)
  BY DEF Local
<1>1. /\ st[r] = "out" /\ adm[r] = "none" /\ calls[r] = 0 /\ esc[r] = 0
      /\ audit[r] = <<>> /\ answer[r] = Refusal("none") /\ storeTask[r] = "none"
      /\ j.retries \in Nat /\ j.class \in Classes
  BY <1>0 DEF Slot, Attempts, Trail, Said, JobType
<1>2. Same(audit, audit', r) /\ audit'[r] = <<Decision(FALSE)>> /\ UNCHANGED answer
  BY <1>1, Enqueued DEF EnterAdmission
<1>3. /\ [Adm!Next]_Adm!admVars
      /\ Same(adm, adm', r) /\ Same(pc, pc', r)
      /\ \/ /\ pc'[r] = AfterAdmission(j) /\ Moved(r, "out")
            /\ adm'[r] = "bypass_cheap_model" /\ j.class = "low"
         \/ pc'[r] = "admit" /\ Moved(r, "start") /\ adm'[r] = "none"
  <2>1. CASE j.class = "low"
    BY <1>1, <2>1, AcquireMoves DEF EnterAdmission, Domains, At, Same
  <2>2. CASE j.class # "low"
    BY <1>1, <2>2, AcquireMoves DEF EnterAdmission, Domains, At, Same
  <2>3. QED
    BY <2>1, <2>2
<1>4. pc'[r] \in {"admit", "guard_in", "infer"} /\ (pc'[r] = "infer" => ~ChecksInput(j))
  BY <1>3 DEF AfterAdmission
<1>5. Only(r)
  BY <1>2, <1>3 DEF Only, Moved, Same, Domains
<1>6. Slot(r)'
  BY <1>3, <1>4 DEF Slot, Moved, Waiting, Serving, Awaits, AfterAdmission
<1>7. Attempts(r)'
  <2>1. Rank[j.class] + 0 = Rank[j.class] /\ 0 <= j.retries
    BY <1>1, RankOfClasses
  <2>2. QED
    BY <1>0, <1>1, <1>4, <2>1 DEF Attempts
<1>8. Cleared(r)'
  BY <1>1, <1>4 DEF Cleared, ChecksInput
<1>9. Trail(r)'
  BY <1>2, <1>4 DEF Trail, Awaits, Decision
<1>10. Said(r)'
  BY <1>1, <1>2, <1>4 DEF Said, Delivered, Refusal
<1>11. QED
  BY <1>3, <1>5, <1>6, <1>7, <1>8, <1>9, <1>10 DEF Proceeds, Local

LEMMA ArriveProceeds ==
    ASSUME IInv, NEW r \in Requests, NEW j \in Jobs, Arrive(r, j)
    PROVE  Proceeds(r)
<1> USE DEF IInv
<1>0. Slot(r) /\ Attempts(r) /\ Trail(r) /\ Said(r)
  BY DEF Local
<1>1. /\ pc[r] = "new" /\ j \in JobType
      /\ job' = [job EXCEPT ![r] = j] /\ Same(job, job', r) /\ job'[r] = j
      /\ Same(cls, cls', r) /\ cls'[r] = IF j.policy THEN j.class ELSE cls[r]
      /\ UNCHANGED <<grIn, reply, calls, esc, verdict, storeTask, cache, judged, wrong>>
  BY JobsAssumption DEF Arrive, Domains, Same
<1>2. /\ st[r] = "out" /\ adm[r] = "none" /\ calls[r] = 0 /\ esc[r] = 0
      /\ audit[r] = <<>> /\ answer[r] = Refusal("none") /\ storeTask[r] = "none"
      /\ cls[r] \in Classes /\ j.class \in Classes /\ j.retries \in Nat
  BY <1>0, <1>1 DEF Slot, Attempts, Trail, Said, JobType
<1>3. CASE j.policy /\ ~j.cache /\ EnterAdmission(r, j)
  BY <1>1, <1>3, EnterAdmissionProceeds
<1>4. ASSUME UNCHANGED <<admVars, adm, audit>>, Same(pc, pc', r), Same(answer, answer', r),
             \/ pc'[r] = "lookup" /\ cls'[r] = j.class /\ UNCHANGED answer
             \/ pc'[r] = "done" /\ answer'[r] = Refusal("policy_resolution_failed")
      PROVE  Proceeds(r)
  <2>1. Only(r)
    BY <1>1, <1>4 DEF Only, Same, Domains, Kept, admVars
  <2>2. Slot(r)'
    BY <1>2, <1>4 DEF Slot, Serving, Awaits, admVars
  <2>3. Attempts(r)'
    BY <1>0, <1>1, <1>2, <1>4 DEF Attempts
  <2>4. Cleared(r)'
    BY <1>1, <1>2, <1>4 DEF Cleared
  <2>5. Trail(r)'
    BY <1>2, <1>4, Refused DEF Trail, Awaits
  <2>6. Said(r)'
    BY <1>1, <1>2, <1>4, RefusedSaid DEF Said, Delivered, Refusal
  <2>7. QED
    BY <1>4, <2>1, <2>2, <2>3, <2>4, <2>5, <2>6 DEF Proceeds, Local, admVars, Adm!admVars
<1>5. CASE j.policy /\ j.cache /\ At(r, "lookup") /\ UNCHANGED <<admVars, adm, answer, audit>>
  <2>1. Same(pc, pc', r) /\ pc'[r] = "lookup" /\ Same(answer, answer', r)
    BY <1>5 DEF At, Same, Domains
  <2>2. QED
    BY <1>1, <1>4, <1>5, <2>1
<1>6. CASE ~j.policy /\ Reply(r, Refusal("policy_resolution_failed"))
           /\ UNCHANGED <<admVars, adm, audit>>
  BY <1>4, <1>6, Replied
<1>7. QED
  BY <1>3, <1>5, <1>6 DEF Arrive

LEMMA LookupProceeds ==
    ASSUME IInv, NEW r \in Requests, LookupHit(r) \/ LookupMiss(r)
    PROVE  Proceeds(r)
<1> USE DEF IInv
<1>0. Slot(r) /\ Attempts(r) /\ Trail(r) /\ Said(r)
  BY DEF Local
<1>1. /\ pc[r] = "lookup" /\ st[r] = "out" /\ adm[r] = "none" /\ calls[r] = 0 /\ esc[r] = 0
      /\ audit[r] = <<>> /\ answer[r] = Refusal("none") /\ storeTask[r] = "none"
      /\ job[r] \in JobType /\ cls[r] = job[r].class
  BY <1>0 DEF LookupHit, LookupMiss, Slot, Attempts, Trail, Said
<1>2. CASE LookupHit(r)
  <2>1. PICK e \in cache : Reply(r, Response("cache_hit", e[2], "skipped", 0))
    BY <1>2 DEF LookupHit
  <2> DEFINE hit == Outcome("cache_hit", "skipped", 0, "skipped", 0)
  <2>a. Enqueue(r, <<Decision(TRUE), hit>>)
    BY <1>2 DEF LookupHit
  <2>b. Decision(TRUE).type = "decision" /\ hit.type = "outcome"
    BY DEF Decision, Outcome
  <2>2. PICK d, o : Enqueue(r, <<d, o>>) /\ d.type = "decision" /\ o.type = "outcome"
    <3> HIDE DEF hit
    <3>1. QED
      BY <2>a, <2>b
  <2>3. Same(audit, audit', r) /\ audit'[r] = <<d, o>>
    BY <1>1, <2>2, EnqueuedBoth
  <2>4. /\ Same(pc, pc', r) /\ pc'[r] = "done" /\ Same(answer, answer', r)
        /\ answer'[r].kind = "cache_hit" /\ answer'[r].content = e[2]
    BY <2>1, Replied DEF Response
  <2>5. UNCHANGED <<admVars, job, cls, adm, grIn, calls, esc, verdict, storeTask, wrong>>
    BY <1>2 DEF LookupHit
  <2>6. Only(r)
    BY <1>1, <2>3, <2>4, <2>5 DEF Only, Same, Domains, Kept, admVars
  <2>7. Slot(r)'
    BY <1>1, <2>4, <2>5 DEF Slot, Serving, Awaits, admVars
  <2>8. Attempts(r)'
    BY <1>0, <1>1, <2>4, <2>5 DEF Attempts
  <2>9. Cleared(r)'
    BY <1>1, <2>4, <2>5 DEF Cleared
  <2>10. Trail(r)'
    BY <2>2, <2>3, <2>4 DEF Trail, Awaits
  <2>11. Said(r)'
    <3>1. Settled(e[2])'
      BY <2>6, SettledStays DEF Cached
    <3>2. QED
      BY <1>1, <2>4, <2>5, <3>1 DEF Said, Delivered
  <2>12. QED
    BY <2>5, <2>6, <2>7, <2>8, <2>9, <2>10, <2>11 DEF Proceeds, Local, admVars, Adm!admVars
<1>3. CASE LookupMiss(r)
  <2>1. UNCHANGED <<job, cls, grIn, reply, calls, esc, verdict, storeTask, wrong>>
        /\ EnterAdmission(r, job[r])
    BY <1>3 DEF LookupMiss
  <2>2. Same(job, job', r) /\ Same(cls, cls', r)
    BY <2>1 DEF Same, Domains
  <2>3. PICK j \in JobType : j = job[r]
    BY <1>1
  <2>4. QED
    BY <1>1, <2>1, <2>2, <2>3, EnterAdmissionProceeds
<1>4. QED
  BY <1>2, <1>3

\* The record of an outcome follows the decision.
LEMMA Recorded ==
    ASSUME Domains, NEW r \in Requests, audit[r] = <<Decision(FALSE)>>,
           NEW stop, NEW v, NEW e, NEW checked, NEW billed,
           Enqueue(r, <<Outcome(stop, v, e, checked, billed)>>)
    PROVE  /\ Same(audit, audit', r)
           /\ \E o : o.type = "outcome" /\ audit'[r] = <<Decision(FALSE), o>>
<1>1. PICK o : o = Outcome(stop, v, e, checked, billed)
  OBVIOUS
<1>2. o.type = "outcome"
  BY <1>1 DEF Outcome
<1>3. Enqueue(r, <<o>>)
  BY <1>1
<1>4. Same(audit, audit', r) /\ audit'[r] = <<Decision(FALSE), o>>
  BY <1>3, Enqueued
<1>5. QED
  BY <1>2, <1>4

\* The ways to end without a response after the decision has been recorded.
LEMMA RefusalProceeds ==
    ASSUME IInv, NEW r \in Requests, pc[r] \in Serving \cup {"admit"},
           Moved(r, "out"), [Adm!Next]_Adm!admVars,
           Same(pc, pc', r), pc'[r] = "done",
           NEW kind, kind # "delivered", Same(answer, answer', r), answer'[r] = Refusal(kind),
           UNCHANGED <<job, cls, esc, verdict, storeTask, wrong>>,
           Same(adm, adm', r), Same(grIn, grIn', r), Same(calls, calls', r),
           calls'[r] = calls[r] \/ (pc[r] = "infer" /\ calls'[r] = calls[r] + 1),
           grIn'[r] = grIn[r] \/ (pc[r] \in {"admit", "guard_in"} /\ calls'[r] = calls[r]),
           Same(audit, audit', r),
           \/ kind = "internal_error" /\ audit'[r] = audit[r]
           \/ \E o : o.type = "outcome" /\ audit'[r] = <<Decision(FALSE), o>>
    PROVE  Proceeds(r)
<1> USE DEF IInv
<1>0. /\ Slot(r) /\ Attempts(r) /\ Cleared(r) /\ Trail(r) /\ Said(r)
      /\ pc[r] \in {"admit", "guard_in", "infer", "guard_out", "verify"}
  BY DEF Local, Serving
<1>1. Only(r)
  BY <1>0 DEF Only, Moved, Same, Domains
<1>2. Slot(r)'
  BY DEF Slot, Moved, Serving, Awaits
<1>3. Attempts(r)'
  BY <1>0 DEF Attempts
<1>4. Cleared(r)'
  <2>1. CASE pc[r] \in {"admit", "guard_in"}
    BY <1>0, <2>1 DEF Cleared, Attempts
  <2>2. CASE pc[r] \in {"infer", "guard_out", "verify"}
    BY <1>0, <2>2 DEF Cleared
  <2>3. QED
    BY <1>0, <2>1, <2>2
<1>5. Trail(r)'
  <2>1. audit[r] = <<Decision(FALSE)>>
    BY <1>0 DEF Trail, Awaits
  <2>2. answer'[r].kind = kind /\ Decision(FALSE).type = "decision"
    BY Refused DEF Decision
  <2>3. CASE kind = "internal_error" /\ audit'[r] = audit[r]
    BY <2>1, <2>2, <2>3 DEF Trail, Awaits, Decision
  <2>4. CASE \E o : o.type = "outcome" /\ audit'[r] = <<Decision(FALSE), o>>
    <3>1. PICK d, o : /\ d.type = "decision" /\ o.type = "outcome"
                      /\ audit'[r] = <<d, o>>
      BY <2>2, <2>4
    <3>2. QED
      BY <2>2, <3>1 DEF Trail, Awaits
  <2>5. QED
    BY <2>3, <2>4
<1>6. Said(r)'
  BY <1>0, RefusedSaid DEF Said
<1>7. QED
  BY <1>1, <1>2, <1>3, <1>4, <1>5, <1>6 DEF Proceeds, Local

LEMMA AdmittedProceeds ==
    ASSUME IInv, NEW r \in Requests, Admitted(r)
    PROVE  Proceeds(r)
<1> USE DEF IInv
<1>0. /\ Slot(r) /\ Attempts(r) /\ Trail(r) /\ Said(r) /\ pc[r] = "admit"
  BY DEF Local, Admitted
<1>1. /\ Moved(r, "in") /\ [Adm!Next]_Adm!admVars
      /\ Same(adm, adm', r) /\ adm'[r] = "admitted"
      /\ Same(pc, pc', r) /\ pc'[r] = AfterAdmission(job[r])
  BY AcquireMoves DEF Admitted, Domains, At, Same
<1>2. UNCHANGED <<job, cls, grIn, calls, esc, verdict, answer, audit, storeTask, wrong>>
  BY DEF Admitted, outVars
<1>3. pc'[r] \in {"guard_in", "infer"} /\ (pc'[r] = "infer" => ~ChecksInput(job[r]))
  BY <1>1 DEF AfterAdmission
<1>4. Only(r)
  BY <1>0, <1>1, <1>2 DEF Only, Moved, Same, Domains
<1>5. Slot(r)'
  BY <1>1, <1>3 DEF Slot, Moved, Serving, Awaits
<1>6. Attempts(r)'
  <2>1. job[r].class \in Classes /\ Rank[job[r].class] + 0 = Rank[job[r].class]
    BY <1>0, RankOfClasses DEF Attempts, JobType
  <2>2. QED
    BY <1>0, <1>2, <1>3, <2>1 DEF Attempts
<1>7. Cleared(r)'
  BY <1>0, <1>2, <1>3 DEF Cleared, Attempts
<1>8. Trail(r)'
  BY <1>0, <1>2, <1>3 DEF Trail, Awaits, Decision
<1>9. Said(r)'
  BY <1>0, <1>2, <1>3 DEF Said, Delivered, Refusal
<1>10. QED
  BY <1>1, <1>4, <1>5, <1>6, <1>7, <1>8, <1>9 DEF Proceeds, Local

LEMMA RejectedProceeds ==
    ASSUME IInv, NEW r \in Requests, Rejected(r)
    PROVE  Proceeds(r)
<1> USE DEF IInv
<1>0. pc[r] = "admit" /\ audit[r] = <<Decision(FALSE)>> /\ Domains
  BY DEF Local, Rejected, Trail, Awaits
<1>1. Moved(r, "out") /\ [Adm!Next]_Adm!admVars
  BY TimeOutMoves DEF Rejected, Domains
<1>2. Same(audit, audit', r) /\ \E o : o.type = "outcome" /\ audit'[r] = <<Decision(FALSE), o>>
  BY <1>0, Recorded DEF Rejected
<1>3. PICK kind : kind = "admission_rejected"
  OBVIOUS
<1>4. /\ Same(pc, pc', r) /\ pc'[r] = "done"
      /\ Same(answer, answer', r) /\ answer'[r] = Refusal(kind)
  BY <1>0, <1>3, Replied DEF Rejected
<1>5. /\ UNCHANGED <<job, cls, esc, verdict, storeTask, wrong>>
      /\ Same(adm, adm', r) /\ Same(grIn, grIn', r) /\ Same(calls, calls', r)
      /\ UNCHANGED <<calls, grIn>>
  BY <1>0 DEF Rejected, Same, Domains
<1>6. QED
  BY <1>0, <1>1, <1>2, <1>3, <1>4, <1>5, RefusalProceeds

LEMMA InputClearedProceeds ==
    ASSUME IInv, NEW r \in Requests, InputCleared(r)
    PROVE  Proceeds(r)
<1> USE DEF IInv
<1>0. /\ Slot(r) /\ Attempts(r) /\ Trail(r) /\ Said(r) /\ pc[r] = "guard_in"
  BY DEF Local, InputCleared
<1>1. /\ UNCHANGED <<admVars, job, cls, adm, calls, esc, verdict, answer, audit,
                     storeTask, wrong>>
      /\ Same(pc, pc', r) /\ pc'[r] = "infer"
      /\ Same(grIn, grIn', r) /\ grIn'[r] \in {"pass", "flag"}
  BY DEF InputCleared, outVars, At, Same, Domains
<1>2. Only(r)
  BY <1>0, <1>1 DEF Only, Kept, admVars, Same, Domains
<1>3. Slot(r)'
  BY <1>0, <1>1 DEF Slot, Serving, Awaits, admVars
<1>4. Attempts(r)'
  <2>1. job[r].class \in Classes /\ Rank[job[r].class] + 0 = Rank[job[r].class]
    BY <1>0, RankOfClasses DEF Attempts, JobType
  <2>2. QED
    BY <1>0, <1>1, <2>1 DEF Attempts
<1>5. Cleared(r)'
  BY <1>1 DEF Cleared
<1>6. Trail(r)'
  BY <1>0, <1>1 DEF Trail, Awaits, Decision
<1>7. Said(r)'
  BY <1>0, <1>1 DEF Said, Delivered, Refusal
<1>8. QED
  BY <1>1, <1>2, <1>3, <1>4, <1>5, <1>6, <1>7 DEF Proceeds, Local, admVars, Adm!admVars

LEMMA InputBlockedProceeds ==
    ASSUME IInv, NEW r \in Requests, InputBlocked(r)
    PROVE  Proceeds(r)
<1> USE DEF IInv
<1>0. pc[r] = "guard_in" /\ audit[r] = <<Decision(FALSE)>> /\ Domains /\ Slot(r)
  BY DEF Local, InputBlocked, Trail, Awaits
<1>1. Moved(r, "out") /\ [Adm!Next]_Adm!admVars
  BY <1>0, ReleaseHeldMoves DEF InputBlocked, Serving
<1>2. PICK d : grIn' = [grIn EXCEPT ![r] = d]
               /\ Enqueue(r, <<Outcome("guardrail_block", "skipped", 0, d, 0)>>)
  BY DEF InputBlocked
<1>3. Same(audit, audit', r) /\ \E o : o.type = "outcome" /\ audit'[r] = <<Decision(FALSE), o>>
  BY <1>0, <1>2, Recorded
<1>4. PICK kind : kind = "guardrail_block"
  OBVIOUS
<1>5. /\ Same(pc, pc', r) /\ pc'[r] = "done"
      /\ Same(answer, answer', r) /\ answer'[r] = Refusal(kind)
  BY <1>0, <1>4, Replied DEF InputBlocked
<1>6. /\ UNCHANGED <<job, cls, esc, verdict, storeTask, wrong>>
      /\ Same(adm, adm', r) /\ Same(grIn, grIn', r) /\ Same(calls, calls', r)
      /\ UNCHANGED calls
  BY <1>0, <1>2 DEF InputBlocked, Same, Domains
<1>7. QED
  BY <1>0, <1>1, <1>3, <1>4, <1>5, <1>6, RefusalProceeds DEF Serving

\* A failed call of the model and a blocked output.
LEMMA CallFailedProceeds ==
    ASSUME IInv, NEW r \in Requests, CallFailed(r) \/ OutputBlocked(r)
    PROVE  Proceeds(r)
<1> USE DEF IInv
<1>0. pc[r] \in {"infer", "guard_out"} /\ audit[r] = <<Decision(FALSE)>> /\ Domains /\ Slot(r)
  BY DEF Local, CallFailed, OutputBlocked, Trail, Awaits
<1>1. Moved(r, "out") /\ [Adm!Next]_Adm!admVars
  BY <1>0, ReleaseHeldMoves DEF CallFailed, OutputBlocked, Serving
<1>2. Same(audit, audit', r) /\ \E o : o.type = "outcome" /\ audit'[r] = <<Decision(FALSE), o>>
  BY <1>0, Recorded DEF CallFailed, OutputBlocked
<1>3. PICK kind : kind # "delivered" /\ Reply(r, Refusal(kind))
  BY DEF CallFailed, OutputBlocked
<1>4. /\ Same(pc, pc', r) /\ pc'[r] = "done"
      /\ Same(answer, answer', r) /\ answer'[r] = Refusal(kind)
  BY <1>0, <1>3, Replied
<1>5. /\ UNCHANGED <<job, cls, esc, verdict, storeTask, wrong>>
      /\ Same(adm, adm', r) /\ Same(grIn, grIn', r) /\ Same(calls, calls', r)
      /\ UNCHANGED <<calls, grIn>>
  BY <1>0 DEF CallFailed, OutputBlocked, Same, Domains
<1>6. QED
  BY <1>0, <1>1, <1>2, <1>3, <1>4, <1>5, RefusalProceeds DEF Serving
-------------------------------------------------------------------------------
(* Steps 11 to 15 *)

LEMMA Responses ==
    ASSUME NEW kind, NEW content, NEW v, NEW e, NEW a, a = Response(kind, content, v, e)
    PROVE  /\ a.kind = kind /\ a.content = content
           /\ a.verification = v /\ a.escalations = e
           /\ a.confidence = "low" <=> v = "incorrect"
BY DEF Response

\* What a verdict v on attempt n leaves in wrong, and that n is the attempt
\* that has just run.
Verdict(r, v, n) ==
    /\ n \in Nat /\ n <= esc[r] + 1 /\ calls'[r] = n
    /\ wrong \subseteq wrong'
    /\ \A c \in wrong' : c \in wrong \/ (pc[r] = "verify" /\ c = <<r, calls[r]>>)
    /\ <<r, n>> \in wrong' <=> v = "incorrect"
    /\ \A k \in Nat : <<r, k>> \in wrong' => k \in 1..n

LEMMA DeliverProceeds ==
    ASSUME IInv, NEW r \in Requests, pc[r] \in {"infer", "guard_out", "verify", "readmit"},
           NEW v, NEW n, Verdict(r, v, n), Deliver(r, v, n),
           Moved(r, "out"), [Adm!Next]_Adm!admVars,
           UNCHANGED <<job, grIn>>, Same(adm, adm', r), Same(calls, calls', r)
    PROVE  Proceeds(r)
<1> USE DEF IInv
<1>0. /\ Slot(r) /\ Attempts(r) /\ Cleared(r) /\ Said(r) /\ Domains
      /\ audit[r] = <<Decision(FALSE)>> /\ storeTask[r] = "none"
  BY DEF Local, Trail, Said, Awaits
<1>1. /\ Same(pc, pc', r) /\ pc'[r] = "done" /\ Same(answer, answer', r)
      /\ answer'[r].kind = "delivered" /\ answer'[r].content = <<r, n>>
      /\ answer'[r].verification = v /\ answer'[r].escalations = esc[r]
      /\ answer'[r].confidence = "low" <=> v = "incorrect"
  <2>1. PICK a : a = Response("delivered", <<r, n>>, v, esc[r])
    OBVIOUS
  <2>2. Reply(r, a)
    BY <2>1 DEF Deliver
  <2>3. QED
    BY <1>0, <2>1, <2>2, Replied, Responses
<1>2. /\ Same(audit, audit', r)
      /\ \E o : /\ audit'[r] = <<Decision(FALSE), o>>
                /\ o.type = "outcome" /\ o.verification = v
                /\ o.escalations = esc[r] /\ o.guardrailInput = grIn[r]
  <2>1. PICK o : o = Outcome("stop", v, esc[r], grIn[r], 1)
    OBVIOUS
  <2>2. /\ o.type = "outcome" /\ o.verification = v
        /\ o.escalations = esc[r] /\ o.guardrailInput = grIn[r]
    BY <2>1 DEF Outcome
  <2>3. Same(audit, audit', r) /\ audit'[r] = <<Decision(FALSE), o>>
    BY <1>0, <2>1, Enqueued DEF Deliver
  <2>4. QED
    BY <2>2, <2>3
<1>3. /\ UNCHANGED <<job, grIn, cls, esc>>
      /\ Same(verdict, verdict', r) /\ Same(storeTask, storeTask', r)
      /\ storeTask'[r] = "pending" => v # "incorrect"
  BY <1>0 DEF Deliver, Same, Domains
<1>4. Only(r)
  BY <1>0, <1>1, <1>2, <1>3 DEF Only, Moved, Same, Domains, Verdict
<1>5. Slot(r)'
  BY <1>1 DEF Slot, Moved, Serving, Awaits
<1>6. Attempts(r)'
  BY <1>0, <1>1, <1>3 DEF Attempts, Verdict
<1>7. Cleared(r)'
  BY <1>0, <1>3 DEF Cleared
<1>8. Trail(r)'
  <2>1. PICK d : d = Decision(FALSE)
    OBVIOUS
  <2>2. d.type = "decision"
    BY <2>1 DEF Decision
  <2>3. PICK o : /\ audit'[r] = <<d, o>>
                 /\ o.type = "outcome" /\ o.verification = v
                 /\ o.escalations = esc[r] /\ o.guardrailInput = grIn[r]
    BY <1>2, <2>1
  <2>4. /\ answer'[r].kind = "delivered" =>
           /\ o.verification = answer'[r].verification
           /\ o.escalations = answer'[r].escalations
           /\ o.guardrailInput = grIn'[r]
    BY <1>1, <1>3, <2>3
  <2>5. QED
    BY <1>1, <2>2, <2>3, <2>4 DEF Trail, Awaits
<1>9. Said(r)'
  BY <1>1, <1>3 DEF Said, Delivered, Verdict
<1>10. QED
  BY <1>4, <1>5, <1>6, <1>7, <1>8, <1>9 DEF Proceeds, Local

LEMMA EscalateProceeds ==
    ASSUME IInv, NEW r \in Requests, pc[r] \in {"infer", "guard_out", "verify"},
           NEW v, NEW n, Verdict(r, v, n), n = esc[r] + 1,
           ShouldEscalate(r, v), Escalate(r, v),
           UNCHANGED <<job, grIn>>, Same(calls, calls', r)
    PROVE  Proceeds(r)
<1> USE DEF IInv
<1>0. /\ Slot(r) /\ Attempts(r) /\ Cleared(r) /\ Trail(r) /\ Said(r) /\ Domains
  BY DEF Local
<1>1. /\ v = "incorrect" /\ esc[r] < job[r].retries /\ cls[r] # "critical"
      /\ esc[r] \in Nat /\ job[r].retries \in Nat
      /\ cls[r] \in Classes /\ job[r].class \in Classes
      /\ Rank[cls[r]] = Rank[job[r].class] + esc[r]
      /\ Rank[cls[r]] \in Nat /\ Rank[job[r].class] \in Nat
  BY <1>0, RankOfClasses DEF ShouldEscalate, Attempts, JobType
<1>2. /\ Moved(r, "start") /\ [Adm!Next]_Adm!admVars
      /\ Same(adm, adm', r) /\ adm'[r] \in {"bypass_cheap_model", "released"}
  <2>1. CASE adm[r] = "admitted"
    <3>1. st[r] = "in" /\ Adm!ReleaseSlot(r, "start") /\ adm' = [adm EXCEPT ![r] = "released"]
      BY <1>0, <2>1 DEF Slot, Serving, Escalate
    <3>2. QED
      BY <1>0, <3>1, ReleaseMoves DEF Domains, Same
  <2>2. CASE adm[r] # "admitted"
    <3>1. adm[r] = "bypass_cheap_model" /\ Adm!AcquireCall(r) /\ UNCHANGED adm
      BY <1>0, <2>2 DEF Slot, Serving, Escalate
    <3>2. QED
      BY <1>0, <3>1, AcquireMoves DEF Domains, Same
  <2>3. QED
    BY <2>1, <2>2
<1>3. /\ UNCHANGED <<job, grIn, cls, answer, audit, storeTask>>
      /\ Same(esc, esc', r) /\ esc'[r] = n
      /\ Same(verdict, verdict', r) /\ verdict'[r] = "incorrect"
      /\ Same(pc, pc', r) /\ pc'[r] = "readmit"
  BY <1>0, <1>1 DEF Escalate, At, Same, Domains
<1>4. Only(r)
  BY <1>0, <1>2, <1>3 DEF Only, Moved, Same, Domains, Verdict
<1>5. Slot(r)'
  BY <1>2, <1>3 DEF Slot, Moved, Serving, Awaits, Waiting
<1>6. Attempts(r)'
  <2>1. \A k \in 1..n : <<r, k>> \in wrong'
    <3>1. \A k \in 1..esc[r] : <<r, k>> \in wrong'
      BY <1>0 DEF Attempts, Verdict
    <3>2. <<r, n>> \in wrong'
      BY <1>1 DEF Verdict
    <3>3. \A k \in 1..n : k \in 1..esc[r] \/ k = n
      BY <1>1 DEF Verdict
    <3>4. QED
      BY <3>1, <3>2, <3>3
  <2>2. Rank[cls[r]] + 1 = Rank[job[r].class] + n /\ n <= job[r].retries /\ n > 0
    BY <1>1
  <2>3. job[r] \in JobType
    BY <1>0 DEF Attempts
  <2>4. QED
    BY <1>1, <1>3, <2>1, <2>2, <2>3 DEF Attempts, Verdict
<1>7. Cleared(r)'
  BY <1>0, <1>3 DEF Cleared
<1>8. Trail(r)'
  BY <1>0, <1>3 DEF Trail, Awaits, Decision
<1>9. Said(r)'
  BY <1>0, <1>3 DEF Said, Delivered, Refusal
<1>10. QED
  BY <1>2, <1>4, <1>5, <1>6, <1>7, <1>8, <1>9 DEF Proceeds, Local

LEMMA SettleProceeds ==
    ASSUME IInv, NEW r \in Requests, pc[r] \in {"infer", "guard_out", "verify"},
           NEW v, NEW n, Verdict(r, v, n), n = esc[r] + 1, Settle(r, v, n),
           UNCHANGED <<job, grIn>>, Same(calls, calls', r)
    PROVE  Proceeds(r)
<1>1. CASE ShouldEscalate(r, v) /\ Escalate(r, v)
  BY <1>1, EscalateProceeds
<1>2. CASE Deliver(r, v, n) /\ ReleaseHeld(r) /\ UNCHANGED adm
  <2>1. Slot(r) /\ pc[r] \in Serving /\ Domains
    BY DEF IInv, Local, Serving
  <2>2. Moved(r, "out") /\ [Adm!Next]_Adm!admVars /\ Same(adm, adm', r)
    BY <1>2, <2>1, ReleaseHeldMoves DEF Same, Domains
  <2>3. QED
    BY <1>2, <2>2, DeliverProceeds
<1>3. QED
  BY <1>1, <1>2 DEF Settle

LEMMA ConcludeProceeds ==
    ASSUME IInv, NEW r \in Requests, pc[r] \in {"infer", "guard_out"},
           NEW rep, NEW n, n = esc[r] + 1, ConcludeAttempt(r, rep, n),
           calls'[r] = n, UNCHANGED <<job, grIn, wrong>>, Same(calls, calls', r)
    PROVE  Proceeds(r)
<1> USE DEF IInv
<1>0. Slot(r) /\ Attempts(r) /\ Cleared(r) /\ Trail(r) /\ Said(r) /\ Domains
  BY DEF Local
<1>1. \A k \in Nat : <<r, k>> \in wrong => k \in 1..esc[r]
  BY <1>0 DEF Attempts
<1>2. n \in Nat /\ n > esc[r] /\ <<r, n>> \notin wrong
  BY <1>0, <1>1 DEF Attempts
<1> DEFINE step == VerificationStep(job[r], cls[r])
<1>3. step \in {"call", "skipped", "unverifiable"}
  BY DEF VerificationStep
<1> HIDE DEF step
<1>4. CASE rep = "empty" /\ ReleaseHeld(r) /\ Reply(r, Refusal("internal_error"))
           /\ UNCHANGED <<cls, adm, esc, verdict, audit, storeTask, cache, judged>>
  <2>1. Moved(r, "out") /\ [Adm!Next]_Adm!admVars
    BY <1>0, <1>4, ReleaseHeldMoves DEF Serving
  <2>2. PICK kind : kind = "internal_error"
    OBVIOUS
  <2>3. /\ Same(pc, pc', r) /\ pc'[r] = "done"
        /\ Same(answer, answer', r) /\ answer'[r] = Refusal(kind)
    BY <1>0, <1>4, <2>2, Replied
  <2>4. Same(adm, adm', r) /\ Same(grIn, grIn', r) /\ Same(audit, audit', r)
    BY <1>0, <1>4 DEF Same, Domains
  <2>5. calls'[r] = calls[r] \/ (pc[r] = "infer" /\ calls'[r] = calls[r] + 1)
    BY <1>0 DEF Attempts
  <2>6. QED
    BY <1>4, <2>1, <2>2, <2>3, <2>4, <2>5, RefusalProceeds DEF Serving
<1>5. CASE rep = "ok" /\ step = "call" /\ At(r, "verify")
           /\ UNCHANGED <<admVars, cls, adm, esc, verdict, answer, audit,
                          storeTask, cache, judged>>
  <2>1. Same(pc, pc', r) /\ pc'[r] = "verify"
    BY <1>0, <1>5 DEF At, Same, Domains
  <2>2. Only(r)
    BY <1>0, <1>5, <2>1 DEF Only, Kept, admVars, Same, Domains
  <2>3. Slot(r)'
    BY <1>0, <1>5, <2>1 DEF Slot, Serving, Awaits, admVars
  <2>4. Attempts(r)'
    <3>1. \A k \in Nat : <<r, k>> \in wrong => k \in 1..n
      BY <1>0, <1>1, <1>2 DEF Attempts
    <3>2. QED
      BY <1>0, <1>2, <1>5, <2>1, <3>1 DEF Attempts
  <2>5. Cleared(r)'
    BY <1>0, <1>5, <2>1 DEF Cleared
  <2>6. Trail(r)'
    BY <1>0, <1>5, <2>1 DEF Trail, Awaits, Decision
  <2>7. Said(r)'
    BY <1>0, <1>5, <2>1 DEF Said, Delivered, Refusal
  <2>8. QED
    BY <1>5, <2>2, <2>3, <2>4, <2>5, <2>6, <2>7
    DEF Proceeds, Local, admVars, Adm!admVars
<1>6. CASE step # "call" /\ Settle(r, step, n)
  <2>1. Verdict(r, step, n)
    <3>1. \A k \in Nat : <<r, k>> \in wrong => k \in 1..n
      BY <1>0, <1>1, <1>2 DEF Attempts
    <3>2. step # "incorrect"
      BY <1>3
    <3>3. QED
      BY <1>2, <3>1, <3>2 DEF Verdict
  <2>2. QED
    BY <1>6, <2>1, SettleProceeds
<1>7. QED
  BY <1>4, <1>5, <1>6 DEF ConcludeAttempt, step

LEMMA CompletedProceeds ==
    ASSUME IInv, NEW r \in Requests, Completed(r)
    PROVE  Proceeds(r)
<1> USE DEF IInv
<1>0. /\ Slot(r) /\ Attempts(r) /\ Cleared(r) /\ Trail(r) /\ Said(r) /\ Domains
      /\ pc[r] = "infer" /\ esc[r] \in Nat /\ calls[r] = esc[r]
  BY DEF Local, Completed, Attempts
<1>1. /\ Same(calls, calls', r) /\ calls'[r] = esc[r] + 1
      /\ UNCHANGED <<job, grIn, wrong>>
  BY <1>0 DEF Completed, Same, Domains
<1>2. CASE At(r, "guard_out")
           /\ UNCHANGED <<admVars, cls, adm, esc, verdict, answer, audit,
                          storeTask, cache, judged>>
  <2>1. Same(pc, pc', r) /\ pc'[r] = "guard_out"
    BY <1>0, <1>2 DEF At, Same, Domains
  <2>2. Only(r)
    BY <1>0, <1>1, <1>2, <2>1 DEF Only, Kept, admVars, Same, Domains
  <2>3. Slot(r)'
    BY <1>0, <1>2, <2>1 DEF Slot, Serving, Awaits, admVars
  <2>4. Attempts(r)'
    BY <1>0, <1>1, <1>2, <2>1 DEF Attempts
  <2>5. Cleared(r)'
    BY <1>0, <1>1, <1>2, <2>1 DEF Cleared
  <2>6. Trail(r)'
    BY <1>0, <1>2, <2>1 DEF Trail, Awaits, Decision
  <2>7. Said(r)'
    BY <1>0, <1>1, <1>2, <2>1 DEF Said, Delivered, Refusal
  <2>8. QED
    BY <1>2, <2>2, <2>3, <2>4, <2>5, <2>6, <2>7
    DEF Proceeds, Local, admVars, Adm!admVars
<1>3. CASE \E rep \in {"ok", "empty"} : ConcludeAttempt(r, rep, calls[r] + 1)
  <2>1. PICK rep, n : n = esc[r] + 1 /\ ConcludeAttempt(r, rep, n)
    BY <1>0, <1>3
  <2>2. QED
    BY <1>0, <1>1, <2>1, ConcludeProceeds
<1>4. QED
  BY <1>2, <1>3 DEF Completed

LEMMA OutputPassedProceeds ==
    ASSUME IInv, NEW r \in Requests, OutputPassed(r)
    PROVE  Proceeds(r)
<1>0. /\ Domains /\ pc[r] = "guard_out" /\ calls[r] = esc[r] + 1
      /\ UNCHANGED <<job, grIn, calls, wrong>>
  BY DEF IInv, Local, OutputPassed, Attempts
<1>1. PICK rep, n : n = calls[r] /\ ConcludeAttempt(r, rep, n)
  BY DEF OutputPassed
<1>2. Same(calls, calls', r) /\ calls'[r] = n /\ n = esc[r] + 1
  BY <1>0, <1>1 DEF Same, Domains
<1>3. QED
  BY <1>0, <1>1, <1>2, ConcludeProceeds

LEMMA VerifiedProceeds ==
    ASSUME IInv, NEW r \in Requests, Verified(r)
    PROVE  Proceeds(r)
<1>0. /\ Domains /\ Attempts(r) /\ pc[r] = "verify"
      /\ esc[r] \in Nat /\ calls[r] = esc[r] + 1 /\ <<r, calls[r]>> \notin wrong
      /\ UNCHANGED <<job, grIn, calls>>
  BY DEF IInv, Local, Verified, Attempts
<1>1. PICK v, n : /\ n = calls[r] /\ Settle(r, v, n)
                  /\ wrong' = IF v = "incorrect" THEN wrong \cup {<<r, n>>} ELSE wrong
  BY DEF Verified
<1>2. Verdict(r, v, n)
  <2>1. \A k \in Nat : <<r, k>> \in wrong' => k \in 1..n
    <3>1. n \in 1..n
      BY <1>0, <1>1
    <3>2. QED
      BY <1>0, <1>1, <3>1 DEF Attempts
  <2>2. QED
    BY <1>0, <1>1, <2>1 DEF Verdict
<1>3. Same(calls, calls', r) /\ n = esc[r] + 1
  BY <1>0, <1>1 DEF Same, Domains
<1>4. QED
  BY <1>0, <1>1, <1>2, <1>3, SettleProceeds

LEMMA ReadmittedProceeds ==
    ASSUME IInv, NEW r \in Requests, Readmitted(r)
    PROVE  Proceeds(r)
<1> USE DEF IInv
<1>0. /\ Slot(r) /\ Attempts(r) /\ Cleared(r) /\ Trail(r) /\ Said(r) /\ Domains
      /\ pc[r] = "readmit"
  BY DEF Local, Readmitted
<1>1. /\ Moved(r, "in") /\ [Adm!Next]_Adm!admVars
      /\ Same(adm, adm', r) /\ adm'[r] = "admitted"
      /\ Same(pc, pc', r) /\ pc'[r] = "infer"
      /\ Same(cls, cls', r) /\ cls'[r] = NextClass(cls[r])
  BY AcquireMoves DEF Readmitted, Domains, At, Same
<1>2. UNCHANGED <<job, grIn, calls, esc, verdict, answer, audit, storeTask, wrong>>
  BY DEF Readmitted, outVars
<1>3. Only(r)
  BY <1>0, <1>1, <1>2 DEF Only, Moved, Same, Domains
<1>4. Slot(r)'
  BY <1>1 DEF Slot, Moved, Serving, Awaits
<1>5. Attempts(r)'
  <2>1. cls[r] \in Classes /\ cls[r] # "critical"
    BY <1>0 DEF Attempts
  <2>2. cls'[r] \in Classes /\ Rank[cls'[r]] = Rank[cls[r]] + 1
    BY <1>1, <2>1, ClassAbove
  <2>3. QED
    BY <1>0, <1>1, <1>2, <2>2 DEF Attempts
<1>6. Cleared(r)'
  BY <1>0, <1>1, <1>2 DEF Cleared
<1>7. Trail(r)'
  BY <1>0, <1>1, <1>2 DEF Trail, Awaits, Decision
<1>8. Said(r)'
  BY <1>0, <1>1, <1>2 DEF Said, Delivered, Refusal
<1>9. QED
  BY <1>1, <1>3, <1>4, <1>5, <1>6, <1>7, <1>8 DEF Proceeds, Local

LEMMA EscalationRejectedProceeds ==
    ASSUME IInv, NEW r \in Requests, EscalationRejected(r)
    PROVE  Proceeds(r)
<1>0. /\ Domains /\ Attempts(r) /\ pc[r] = "readmit"
      /\ UNCHANGED <<job, grIn, calls, wrong>>
  BY DEF IInv, Local, EscalationRejected
<1>1. PICK v, n : v = verdict[r] /\ n = calls[r] /\ Deliver(r, v, n)
  BY DEF EscalationRejected
<1>2. Moved(r, "out") /\ [Adm!Next]_Adm!admVars
  BY <1>0, TimeOutMoves DEF EscalationRejected, Domains
<1>3. v = "incorrect" /\ n \in Nat /\ n > 0 /\ n = esc[r] /\ <<r, n>> \in wrong
  BY <1>0, <1>1 DEF Attempts
<1>4. Verdict(r, v, n)
  BY <1>0, <1>1, <1>3 DEF Verdict, Attempts
<1>5. Same(adm, adm', r) /\ Same(calls, calls', r)
  BY <1>0 DEF EscalationRejected, Same, Domains
<1>6. QED
  BY <1>0, <1>1, <1>2, <1>4, <1>5, DeliverProceeds

LEMMA SemaphoreProceeds ==
    ASSUME IInv, NEW r \in Requests, SemaphoreStep(r)
    PROVE  Proceeds(r)
<1> USE DEF IInv
<1>0. /\ Slot(r) /\ Attempts(r) /\ Cleared(r) /\ Trail(r) /\ Said(r) /\ Domains
  BY DEF Local
<1>1. PICK where \in Waiting : Moved(r, where)
  BY <1>0, SemaphoreMoves DEF Domains, SemaphoreStep
<1>2. st[r] \in Waiting /\ [Adm!Next]_Adm!admVars
  BY <1>0, SemaphoreMoves DEF Domains, SemaphoreStep
<1>3. UNCHANGED <<pc, job, cls, adm, grIn, calls, esc, verdict, answer, audit,
                  storeTask, wrong>>
  BY DEF SemaphoreStep, reqVars, outVars
<1>4. Only(r)
  BY <1>0, <1>1, <1>3 DEF Only, Moved, Same, Domains
<1>5. Slot(r)'
  BY <1>0, <1>1, <1>2, <1>3 DEF Slot, Moved, Waiting, Serving, Awaits
<1>6. Attempts(r)'
  BY <1>0, <1>3 DEF Attempts
<1>7. Cleared(r)'
  BY <1>0, <1>3 DEF Cleared
<1>8. Trail(r)'
  BY <1>0, <1>3 DEF Trail, Decision
<1>9. Said(r)'
  BY <1>0, <1>3 DEF Said, Delivered, Refusal, Settled
<1>10. QED
  BY <1>2, <1>4, <1>5, <1>6, <1>7, <1>8, <1>9 DEF Proceeds, Local

\* The store of a delivered answer, which is settled.
LEMMA StoreDoneProceeds ==
    ASSUME IInv, NEW r \in Requests, StoreDone(r)
    PROVE  Proceeds(r) /\ \A e \in cache' : e \in cache \/ Settled(e[2])
<1> USE DEF IInv
<1>0. /\ Slot(r) /\ Attempts(r) /\ Cleared(r) /\ Trail(r) /\ Said(r) /\ Domains
      /\ storeTask[r] = "pending"
  BY DEF Local, StoreDone
<1>1. Delivered(r) /\ pc[r] = "done" /\ answer[r].kind = "delivered"
  BY <1>0 DEF Said, Delivered
<1>2. Settled(answer[r].content)
  BY <1>0, <1>1 DEF Said, Settled, Attempts
<1>3. /\ UNCHANGED <<admVars, pc, job, cls, adm, grIn, calls, esc, verdict, answer,
                     audit, wrong>>
      /\ Same(storeTask, storeTask', r) /\ storeTask'[r] = "done"
  BY <1>0 DEF StoreDone, reqVars, Same, Domains
<1>4. Only(r)
  BY <1>0, <1>3 DEF Only, Kept, admVars, Same, Domains
<1>5. Slot(r)'
  BY <1>0, <1>3 DEF Slot, admVars
<1>6. Attempts(r)'
  BY <1>0, <1>3 DEF Attempts
<1>7. Cleared(r)'
  BY <1>0, <1>3 DEF Cleared
<1>8. Trail(r)'
  BY <1>0, <1>3 DEF Trail, Decision
<1>9. Said(r)'
  BY <1>0, <1>1, <1>3 DEF Said, Delivered
<1>10. ASSUME NEW e \in cache', e \notin cache
       PROVE  Settled(e[2])
  <2>1. PICK key, content : content = answer[r].content /\ e = <<key, content>>
    BY <1>10 DEF StoreDone
  <2>2. QED
    BY <1>2, <2>1
<1>11. QED
  BY <1>3, <1>4, <1>5, <1>6, <1>7, <1>8, <1>9, <1>10
  DEF Proceeds, Local, admVars, Adm!admVars

LEMMA CacheKept ==
    ASSUME NEW r \in Requests, Resume(r) \/ \E j \in Jobs : Arrive(r, j)
    PROVE  cache' = cache
<1>1. ASSUME NEW v, NEW n, Settle(r, v, n)
      PROVE  cache' = cache
  BY <1>1 DEF Settle, Escalate, Deliver
<1>2. ASSUME NEW rep, NEW n, ConcludeAttempt(r, rep, n)
      PROVE  cache' = cache
  BY <1>1, <1>2 DEF ConcludeAttempt
<1>3. CASE Completed(r) \/ OutputPassed(r)
  BY <1>2, <1>3 DEF Completed, OutputPassed
<1>4. CASE Verified(r) \/ EscalationRejected(r)
  BY <1>1, <1>4 DEF Verified, EscalationRejected, Deliver
<1>5. CASE \E j \in Jobs : Arrive(r, j)
  BY <1>5 DEF Arrive
<1>6. CASE \/ LookupHit(r) \/ LookupMiss(r) \/ Admitted(r) \/ Rejected(r)
           \/ InputCleared(r) \/ InputBlocked(r) \/ CallFailed(r)
           \/ OutputBlocked(r) \/ Readmitted(r) \/ SemaphoreStep(r)
  BY <1>6 DEF LookupHit, LookupMiss, Admitted, Rejected, InputCleared, InputBlocked,
              CallFailed, OutputBlocked, Readmitted, SemaphoreStep, outVars
<1>7. QED
  BY <1>3, <1>4, <1>5, <1>6 DEF Resume
-------------------------------------------------------------------------------
(* The invariant and the steps of the admission controller *)

LEMMA InitIInv == Init => IInv
<1> SUFFICES ASSUME Init PROVE IInv
  OBVIOUS
<1> USE DEF Init
<1>1. Domains
  BY DEF Domains, Adm!Init, Adm!CallerStates
<1>2. Judgements /\ Cached
  BY DEF Judgements, Cached
<1>3. ASSUME NEW r \in Requests
      PROVE  Local(r)
  <2>1. Slot(r)
    BY DEF Slot, Serving, Awaits, Adm!Init
  <2>2. Attempts(r)
    BY DEF Attempts, Classes
  <2>3. Cleared(r)
    BY DEF Cleared
  <2>4. Trail(r)
    BY DEF Trail, Awaits
  <2>5. Said(r)
    BY DEF Said, Delivered
  <2>6. QED
    BY <2>1, <2>2, <2>3, <2>4, <2>5 DEF Local
<1>4. QED
  BY <1>1, <1>2, <1>3 DEF IInv

LEMMA StepIInv ==
    ASSUME IInv, [Next]_vars
    PROVE  IInv' /\ [Adm!Next]_Adm!admVars
<1>1. ASSUME NEW r \in Requests, \E j \in Jobs : Arrive(r, j)
      PROVE  Proceeds(r) /\ cache' = cache
  BY <1>1, ArriveProceeds, CacheKept
<1>2. ASSUME NEW r \in Requests, Resume(r)
      PROVE  Proceeds(r) /\ cache' = cache
  <2>1. cache' = cache
    BY <1>2, CacheKept
  <2>2. QED
    BY <1>2, <2>1, LookupProceeds, AdmittedProceeds, RejectedProceeds,
       InputClearedProceeds, InputBlockedProceeds, CallFailedProceeds,
       CompletedProceeds, OutputPassedProceeds, VerifiedProceeds,
       ReadmittedProceeds, EscalationRejectedProceeds, SemaphoreProceeds
    DEF Resume
<1>3. ASSUME NEW r \in Requests, Proceeds(r),
             \A e \in cache' : e \in cache \/ Settled(e[2])
      PROVE  IInv' /\ [Adm!Next]_Adm!admVars
  BY <1>3, ProceedsIInv DEF Proceeds
<1>4. CASE UNCHANGED vars
  <2>1. /\ UNCHANGED <<admVars, pc, job, cls, adm, grIn, calls, esc, verdict, answer,
                       audit, storeTask, cache, wrong>>
    BY <1>4 DEF vars, reqVars, outVars
  <2>2. Domains' /\ Judgements' /\ Cached'
    BY <2>1 DEF IInv, Domains, Judgements, Cached, Settled, admVars
  <2>3. ASSUME NEW r \in Requests
        PROVE  Local(r)'
    <3>1. Slot(r)' /\ Attempts(r)' /\ Cleared(r)'
      BY <2>1 DEF IInv, Local, Slot, Attempts, Cleared, admVars
    <3>2. Trail(r)'
      BY <2>1 DEF IInv, Local, Trail, Decision
    <3>3. Said(r)'
      BY <2>1 DEF IInv, Local, Said, Delivered, Refusal, Settled
    <3>4. QED
      BY <3>1, <3>2, <3>3 DEF Local
  <2>4. QED
    BY <2>1, <2>2, <2>3 DEF IInv, admVars, Adm!admVars
<1>5. CASE \E r \in Requests : \/ \E j \in Jobs : Arrive(r, j)
                               \/ Resume(r)
                               \/ StoreDone(r)
  BY <1>1, <1>2, <1>3, <1>5, StoreDoneProceeds
<1>6. QED
  BY <1>4, <1>5 DEF Next, Finished

LEMMA Invariance == Spec => []IInv
<1>1. IInv /\ [Next]_vars => IInv'
  BY StepIInv
<1>2. QED
  BY <1>1, InitIInv, PTL DEF Spec

\* Every step of the gateway is a step of the admission controller or leaves it
\* alone: main.py calls acquire and release as the controller expects.
THEOREM UsesTheGate == Spec => AdmissionSpec
<1>1. Init => Adm!Init
  BY DEF Init
<1>2. IInv /\ [Next]_vars => [Adm!Next]_Adm!admVars
  BY StepIInv
<1>3. QED
  BY <1>1, <1>2, Invariance, PTL DEF Spec, AdmissionSpec, Adm!Spec
-------------------------------------------------------------------------------
(* Slots *)

LEMMA GateAssumptions == AdmProofs!CallersAssumption /\ AdmProofs!MaxConcurrentAssumption
BY RequestsAssumption, MaxConcurrentAssumption
DEF IsFiniteSet, AdmProofs!IsFiniteSet, AdmProofs!CallersAssumption,
    AdmProofs!MaxConcurrentAssumption

\* The two instances of the admission controller have the same steps.
LEMMA SameGate == Adm!Spec => AdmProofs!Spec
<1>1. Adm!Init => AdmProofs!Init
  BY DEF Adm!Init, AdmProofs!Init
<1>2. [Adm!Next]_Adm!admVars => [AdmProofs!Next]_AdmProofs!admVars
  <2>1. Adm!Next <=> AdmProofs!Next
    BY DEF Adm!Next, Adm!Step, Adm!AcquireBypass, Adm!AcquireCall, Adm!Internal,
           Adm!Release, Adm!Reacquire, Adm!ReleaseSlot, Adm!StartAcquire,
           Adm!ResumeWaiter, Adm!Admit, Adm!TimeOut, Adm!WakeUpNext, Adm!PendingIn,
           Adm!Without, AdmProofs!Next, AdmProofs!Step, AdmProofs!AcquireBypass,
           AdmProofs!AcquireCall, AdmProofs!Internal, AdmProofs!Release,
           AdmProofs!Reacquire, AdmProofs!ReleaseSlot, AdmProofs!StartAcquire,
           AdmProofs!ResumeWaiter, AdmProofs!Admit, AdmProofs!TimeOut,
           AdmProofs!WakeUpNext, AdmProofs!PendingIn, AdmProofs!Without
  <2>2. QED
    BY <2>1 DEF Adm!admVars, AdmProofs!admVars
<1>3. QED
  BY <1>1, <1>2, PTL DEF Adm!Spec, AdmProofs!Spec

LEMMA GateInvariants ==
    Spec => [](AdmProofs!SlotConservation /\ AdmProofs!CeilingRespected)
<1>1. AdmProofs!Spec => [](AdmProofs!SlotConservation)
  BY GateAssumptions, AdmProofs!SlotsConserved
<1>2. AdmProofs!Spec => [](AdmProofs!CeilingRespected)
  BY GateAssumptions, AdmProofs!CeilingHolds
<1>3. QED
  BY <1>1, <1>2, UsesTheGate, SameGate, PTL DEF AdmissionSpec

\* No slot is lost by an answered request or released twice, the requests and
\* the gate agree on who holds one, and the ceiling bounds the attempts between
\* admission and answer, however requests escalate, time out and fail.
THEOREM SlotsAccounted == Spec => []SlotAccounting
<1>1. IInv /\ AdmProofs!SlotConservation /\ AdmProofs!CeilingRespected => SlotAccounting
  <2> SUFFICES ASSUME IInv, AdmProofs!SlotConservation, AdmProofs!CeilingRespected
               PROVE  SlotAccounting
    OBVIOUS
  <2>1. Adm!SlotConservation
    BY DEF AdmProofs!SlotConservation, Adm!SlotConservation, Adm!Holders, Adm!HoldersIn,
           AdmProofs!Holders, AdmProofs!HoldersIn, Adm!Cardinality, AdmProofs!Cardinality
  <2>2. ASSUME NEW r \in Requests
        PROVE  st[r] = "in" <=> adm[r] = "admitted" /\ pc[r] # "done"
    BY DEF IInv, Local, Slot, Awaits, Waiting, Serving
  <2> DEFINE attempts == {r \in Requests : pc[r] \in Serving /\ cls[r] # "low"}
             inside == {r \in Requests : st[r] = "in"}
  <2>3. Cardinality(inside) <= MaxConcurrent
    BY DEF AdmProofs!CeilingRespected, AdmProofs!Inside, AdmProofs!InsideIn,
           Cardinality, AdmProofs!Cardinality
  <2>4. attempts \subseteq inside
    BY DEF IInv, Local, Slot
  <2>5. IsFiniteSet(inside)
    BY RequestsAssumption, FS_Subset
  <2>6. IsFiniteSet(attempts) /\ Cardinality(attempts) <= Cardinality(inside)
    BY <2>4, <2>5, FS_Subset
  <2>7. Cardinality(attempts) \in Nat /\ Cardinality(inside) \in Nat
    BY <2>5, <2>6, FS_CardinalityType
  <2>8. Cardinality(attempts) <= MaxConcurrent
    BY <2>3, <2>6, <2>7, MaxConcurrentAssumption
  <2>9. QED
    BY <2>1, <2>2, <2>8 DEF SlotAccounting, Serving
<1>2. QED
  BY <1>1, Invariance, GateInvariants, PTL
-------------------------------------------------------------------------------
(* What the invariant says of prompts, records and answers *)

\* The input guardrail runs once per request, and no attempt of any class sends
\* the model a prompt it has not cleared.
THEOREM PromptsCleared == Spec => []ClearedBeforeInference
<1>1. IInv => ClearedBeforeInference
  BY DEF IInv, Local, Cleared, ClearedBeforeInference
<1>2. QED
  BY <1>1, Invariance, PTL

\* The types of the records a request can have.
LEMMA Kinds ==
    ASSUME NEW a, NEW d, NEW o
    PROVE  LET kinds == [i \in DOMAIN a |-> a[i].type]
           IN  /\ a = <<>> => kinds = <<>>
               /\ a = <<d>> => kinds = <<d.type>>
               /\ a = <<d, o>> => kinds = <<d.type, o.type>>
OBVIOUS

\* A decision first, an outcome at most once and only with the answer, both for
\* every answer but a missing policy and an unhandled error.
THEOREM RecordsPaired == Spec => []AuditPaired
<1>1. IInv => AuditPaired
  <2> SUFFICES ASSUME IInv, NEW r \in Requests
               PROVE  LET kinds == [i \in DOMAIN audit[r] |-> audit[r][i].type]
                      IN  /\ kinds \in {<<>>, <<"decision">>, <<"decision", "outcome">>}
                          /\ pc[r] # "done" => kinds # <<"decision", "outcome">>
                          /\ pc[r] = "done" /\ kinds # <<"decision", "outcome">>
                                => answer[r].kind \in {"policy_resolution_failed", "internal_error"}
    BY DEF AuditPaired
  <2> DEFINE kinds == [i \in DOMAIN audit[r] |-> audit[r][i].type]
  <2>1. Slot(r) /\ Trail(r) /\ Decision(FALSE).type = "decision"
    BY DEF IInv, Local, Decision
  <2>2. CASE audit[r] = <<>>
    BY <2>1, <2>2, Kinds DEF Trail
  <2>3. CASE audit[r] = <<Decision(FALSE)>>
    <3>1. kinds = <<"decision">>
      <4>1. PICK d : d = Decision(FALSE) /\ d.type = "decision"
        BY <2>1
      <4>2. audit[r] = <<d>>
        BY <2>3, <4>1
      <4>3. kinds = <<d.type>>
        BY <4>2, Kinds
      <4>4. QED
        BY <4>1, <4>3
    <3>2. pc[r] = "done" => answer[r].kind \in {"policy_resolution_failed", "internal_error"}
      <4>1. PICK dec : dec = Decision(FALSE)
        OBVIOUS
      <4>2. \A d, o : <<dec>> # <<d, o>>
        OBVIOUS
      <4>3. QED
        BY <2>1, <2>3, <4>1, <4>2 DEF Trail
    <3> HIDE DEF kinds
    <3>3. <<"decision">> # <<"decision", "outcome">>
      OBVIOUS
    <3>4. QED
      BY <3>1, <3>2, <3>3 DEF kinds
  <2>4. CASE pc[r] = "done" /\ \E d, o :
               audit[r] = <<d, o>> /\ d.type = "decision" /\ o.type = "outcome"
    <3>1. PICK d, o : audit[r] = <<d, o>> /\ d.type = "decision" /\ o.type = "outcome"
      BY <2>4
    <3>2. kinds = <<"decision", "outcome">>
      BY <3>1, Kinds
    <3>3. QED
      BY <2>4, <3>2
  <2>5. \/ audit[r] = <<>>
        \/ audit[r] = <<Decision(FALSE)>>
        \/ pc[r] = "done" /\ \E d, o :
              audit[r] = <<d, o>> /\ d.type = "decision" /\ o.type = "outcome"
    BY <2>1 DEF Trail, Slot
  <2>6. QED
    BY <2>2, <2>3, <2>4, <2>5
<1>2. QED
  BY <1>1, Invariance, PTL

\* What a delivered response says is what its outcome record says and what the
\* attempts did; low confidence marks the contents the verifier refuted.
THEOREM RecordsAgree == Spec => []OutcomeMatchesResponse
<1>1. IInv => OutcomeMatchesResponse
  <2> SUFFICES ASSUME IInv, NEW r \in Requests, Delivered(r)
               PROVE  LET o == audit[r][2]
                      IN  /\ o.verification = answer[r].verification
                          /\ o.escalations = answer[r].escalations
                          /\ o.guardrailInput = grIn[r]
                          /\ answer[r].content = <<r, calls[r]>>
                          /\ answer[r].confidence = "low" <=> answer[r].content \in wrong
    BY DEF OutcomeMatchesResponse
  <2>0. Trail(r) /\ pc[r] = "done" /\ answer[r].kind = "delivered"
    BY DEF IInv, Local, Delivered
  <2>1. PICK d, o : /\ audit[r] = <<d, o>> /\ d.type = "decision" /\ o.type = "outcome"
                    /\ answer[r].kind = "delivered" =>
                          /\ o.verification = answer[r].verification
                          /\ o.escalations = answer[r].escalations
                          /\ o.guardrailInput = grIn[r]
    BY <2>0 DEF Trail
  <2>2. audit[r][2] = o
    BY <2>1
  <2>3. Said(r)
    BY DEF IInv, Local
  <2>4. QED
    BY <2>0, <2>1, <2>2, <2>3 DEF Said
<1>2. QED
  BY <1>1, Invariance, PTL

\* A refuted content never enters the cache, and nobody is served one with high
\* confidence: a store can only be pending for a content nobody will refute.
THEOREM RefutedNotServed == Spec => []IncorrectNeverServed
<1>1. IInv => IncorrectNeverServed
  <2> SUFFICES ASSUME IInv PROVE IncorrectNeverServed
    OBVIOUS
  <2>1. \A e \in cache : e[2] \notin wrong
    BY DEF IInv, Cached, Settled
  <2>2. ASSUME NEW r \in Requests, answer[r].content \in wrong
        PROVE  answer[r].confidence = "low"
    <3>1. NoContent \notin wrong
      BY DEF IInv, Judgements, NoContent
    <3>2. Delivered(r)
      BY <2>2, <3>1, Refused DEF IInv, Local, Said, Settled, Delivered
    <3>3. QED
      BY <2>2, <3>2 DEF IInv, Local, Said
  <2>3. QED
    BY <2>1, <2>2 DEF IncorrectNeverServed
<1>2. QED
  BY <1>1, Invariance, PTL

\* Escalation climbs one class per retry within the retries of the policy, and
\* every attempt but the last was refuted.
THEOREM ClimbLimited == Spec => []ClimbBounded
<1>1. IInv => ClimbBounded
  BY DEF IInv, Local, Attempts, ClimbBounded
<1>2. QED
  BY <1>1, Invariance, PTL
===============================================================================
