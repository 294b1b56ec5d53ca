------------------------ MODULE AdmissionControlProofs ------------------------
(***************************************************************************)
(* Theorems about AdmissionControl, for every finite set of callers and    *)
(* every ceiling.                                                          *)
(***************************************************************************)
EXTENDS AdmissionControl, FiniteSetTheorems, TLAPS

States == [Callers -> CallerStates]

\* Moving one caller to another state changes the number of holders by what
\* that caller contributed before and contributes now.
LEMMA HoldersUpdate ==
    ASSUME NEW s \in States, NEW c \in Callers, NEW x \in CallerStates
    PROVE  LET t == [s EXCEPT ![c] = x]
               held == {"granted", "got", "in"}
           IN  /\ IsFiniteSet(HoldersIn(s))
               /\ Cardinality(HoldersIn(s)) \in Nat
               /\ Cardinality(HoldersIn(t)) \in Nat
               /\ x \in held /\ s[c] \notin held =>
                     Cardinality(HoldersIn(t)) = Cardinality(HoldersIn(s)) + 1
               /\ x \notin held /\ s[c] \in held =>
                     Cardinality(HoldersIn(t)) = Cardinality(HoldersIn(s)) - 1
               /\ (x \in held <=> s[c] \in held) => HoldersIn(t) = HoldersIn(s)
<1> DEFINE t == [s EXCEPT ![c] = x]
           held == {"granted", "got", "in"}
<1>1. IsFiniteSet(HoldersIn(s)) /\ IsFiniteSet(HoldersIn(t))
  BY CallersAssumption, FS_Subset DEF HoldersIn
<1>2. Cardinality(HoldersIn(s)) \in Nat /\ Cardinality(HoldersIn(t)) \in Nat
  BY <1>1, FS_CardinalityType
<1>3. ASSUME x \in held, s[c] \notin held
      PROVE  Cardinality(HoldersIn(t)) = Cardinality(HoldersIn(s)) + 1
  <2>1. HoldersIn(t) = HoldersIn(s) \cup {c} /\ c \notin HoldersIn(s)
    BY <1>3 DEF HoldersIn, States
  <2>2. QED
    BY <2>1, <1>1, FS_AddElement
<1>4. ASSUME x \notin held, s[c] \in held
      PROVE  Cardinality(HoldersIn(t)) = Cardinality(HoldersIn(s)) - 1
  <2>1. HoldersIn(t) = HoldersIn(s) \ {c} /\ c \in HoldersIn(s)
    BY <1>4 DEF HoldersIn, States
  <2>2. QED
    BY <2>1, <1>1, FS_RemoveElement
<1>5. ASSUME x \in held <=> s[c] \in held
      PROVE  HoldersIn(t) = HoldersIn(s)
  BY <1>5 DEF HoldersIn, States
<1>6. QED
  BY <1>1, <1>2, <1>3, <1>4, <1>5

\* The same for the callers inside.
LEMMA InsideUpdate ==
    ASSUME NEW s \in States, NEW c \in Callers, NEW x \in CallerStates
    PROVE  LET t == [s EXCEPT ![c] = x]
           IN  /\ Cardinality(InsideIn(s)) \in Nat
               /\ x = "in" /\ s[c] # "in" =>
                     Cardinality(InsideIn(t)) = Cardinality(InsideIn(s)) + 1
               /\ x # "in" /\ s[c] = "in" =>
                     Cardinality(InsideIn(t)) = Cardinality(InsideIn(s)) - 1
               /\ x # "in" /\ s[c] # "in" => InsideIn(t) = InsideIn(s)
<1> DEFINE t == [s EXCEPT ![c] = x]
<1>1. IsFiniteSet(InsideIn(s))
  BY CallersAssumption, FS_Subset DEF InsideIn
<1>2. Cardinality(InsideIn(s)) \in Nat
  BY <1>1, FS_CardinalityType
<1>3. ASSUME x = "in", s[c] # "in"
      PROVE  Cardinality(InsideIn(t)) = Cardinality(InsideIn(s)) + 1
  <2>1. InsideIn(t) = InsideIn(s) \cup {c} /\ c \notin InsideIn(s)
    BY <1>3 DEF InsideIn, States
  <2>2. QED
    BY <2>1, <1>1, FS_AddElement
<1>4. ASSUME x # "in", s[c] = "in"
      PROVE  Cardinality(InsideIn(t)) = Cardinality(InsideIn(s)) - 1
  <2>1. InsideIn(t) = InsideIn(s) \ {c} /\ c \in InsideIn(s)
    BY <1>4 DEF InsideIn, States
  <2>2. QED
    BY <2>1, <1>1, FS_RemoveElement
<1>5. ASSUME x # "in", s[c] # "in"
      PROVE  InsideIn(t) = InsideIn(s)
  BY <1>5 DEF InsideIn, States
<1>6. QED
  BY <1>2, <1>3, <1>4, <1>5

\* Removing a caller from a queue without repetition leaves exactly the others.
LEMMA WithoutRemoves ==
    ASSUME NEW q \in Seq(Callers), NEW c \in Callers, Distinct(q)
    PROVE  /\ Without(q, c) \in Seq(Callers)
           /\ Distinct(Without(q, c))
           /\ MembersOf(Without(q, c)) = MembersOf(q) \ {c}
<1>1. CASE \E i \in DOMAIN q : q[i] = c
  <2> DEFINE k == CHOOSE i \in DOMAIN q : q[i] = c
             w == [j \in 1..(Len(q) - 1) |-> IF j < k THEN q[j] ELSE q[j + 1]]
  <2>1. k \in DOMAIN q /\ q[k] = c
    BY <1>1
  <2>2. k \in 1..Len(q) /\ Len(q) \in Nat
    BY <2>1
  <2> HIDE DEF k
  <2>3. Without(q, c) = w
    BY <1>1 DEF Without, k
  <2>4. w \in Seq(Callers) /\ DOMAIN w = 1..(Len(q) - 1)
    BY <2>2
  <2>5. \A j \in DOMAIN w : w[j] # c
    BY <2>1, <2>2, <2>4 DEF Distinct
  <2>6. Distinct(w)
    BY <2>2, <2>4 DEF Distinct
  <2>7. MembersOf(w) \subseteq MembersOf(q) \ {c}
    BY <2>2, <2>4, <2>5 DEF MembersOf
  <2>8. ASSUME NEW i \in DOMAIN q, q[i] # c
        PROVE  q[i] \in MembersOf(w)
    <3>1. CASE i < k
      BY <3>1, <2>2, <2>4 DEF MembersOf
    <3>2. CASE i > k
      <4>1. i - 1 \in DOMAIN w /\ w[i - 1] = q[i]
        BY <3>2, <2>2, <2>4
      <4>2. QED
        BY <4>1 DEF MembersOf
    <3>3. i # k
      BY <2>1, <2>8
    <3>4. QED
      BY <3>1, <3>2, <3>3, <2>2
  <2>9. MembersOf(q) \ {c} \subseteq MembersOf(w)
    BY <2>8 DEF MembersOf
  <2> HIDE DEF w
  <2>10. QED
    BY <2>3, <2>4, <2>6, <2>7, <2>9
<1>2. CASE ~ \E i \in DOMAIN q : q[i] = c
  BY <1>2 DEF Without, MembersOf
<1>3. QED
  BY <1>1, <1>2

\* A newcomer joins the queue at its tail.
LEMMA AppendJoins ==
    ASSUME NEW q \in Seq(Callers), NEW c \in Callers, Distinct(q), c \notin MembersOf(q)
    PROVE  /\ Append(q, c) \in Seq(Callers)
           /\ Distinct(Append(q, c))
           /\ MembersOf(Append(q, c)) = MembersOf(q) \cup {c}
<1>1. /\ Append(q, c) \in Seq(Callers)
      /\ DOMAIN Append(q, c) = 1..(Len(q) + 1)
      /\ \A i \in 1..Len(q) : Append(q, c)[i] = q[i]
      /\ Append(q, c)[Len(q) + 1] = c
  OBVIOUS
<1>2. DOMAIN q = 1..Len(q) /\ Len(q) \in Nat
  OBVIOUS
<1>3. Distinct(Append(q, c))
  BY <1>1, <1>2 DEF Distinct, MembersOf
<1>4. MembersOf(Append(q, c)) = MembersOf(q) \cup {c}
  BY <1>1, <1>2 DEF MembersOf
<1>5. QED
  BY <1>1, <1>3, <1>4

\* Waking the next waiter moves a slot, and never makes or loses one; and in a
\* queue of exactly the queued callers, if somebody still waits afterwards,
\* somebody has been granted.
LEMMA WakeUpMoves ==
    ASSUME NEW v \in Int, NEW s \in States, NEW q \in Seq(Callers),
           WakeUpNext(v, s, q), MembersOf(q) = QueuedIn(s)
    PROVE  /\ value' \in Int /\ st' \in States
           /\ value' + Cardinality(HoldersIn(st')) = v + Cardinality(HoldersIn(s))
           /\ InsideIn(st') = InsideIn(s)
           /\ QueuedIn(st') = QueuedIn(s)
           /\ v > 0 => value' >= 0
           /\ (\E d \in Callers : st'[d] = "wait")
                 => \E e \in Callers : st'[e] = "granted"
<1>1. CASE PendingIn(s, q) = {} /\ value' = v /\ st' = s
  <2>1. ASSUME NEW d \in Callers, st'[d] = "wait"
        PROVE  FALSE
    <3>1. d \in MembersOf(q)
      BY <1>1, <2>1 DEF QueuedIn
    <3>2. PICK i \in DOMAIN q : q[i] = d
      BY <3>1 DEF MembersOf
    <3>3. QED
      BY <1>1, <2>1, <3>2 DEF PendingIn
  <2>2. QED
    BY <1>1, <2>1
<1>2. ASSUME NEW i \in PendingIn(s, q),
             value' = v - 1, st' = [s EXCEPT ![q[i]] = "granted"]
      PROVE  /\ value' \in Int /\ st' \in States
             /\ value' + Cardinality(HoldersIn(st')) = v + Cardinality(HoldersIn(s))
             /\ InsideIn(st') = InsideIn(s)
             /\ QueuedIn(st') = QueuedIn(s)
             /\ v > 0 => value' >= 0
             /\ \E d \in Callers : st'[d] = "granted"
  <2>1. q[i] \in Callers /\ s[q[i]] = "wait"
    BY <1>2 DEF PendingIn
  <2>2. "granted" \in CallerStates
    BY DEF CallerStates
  <2>3. Cardinality(HoldersIn(st')) = Cardinality(HoldersIn(s)) + 1
        /\ Cardinality(HoldersIn(s)) \in Nat
    BY <1>2, <2>1, <2>2, HoldersUpdate
  <2>4. InsideIn(st') = InsideIn(s)
    BY <1>2, <2>1, <2>2, InsideUpdate
  <2>5. QueuedIn(st') = QueuedIn(s) /\ st' \in States /\ st'[q[i]] = "granted"
    BY <1>2, <2>1, <2>2 DEF QueuedIn, States
  <2>6. QED
    BY <1>2, <2>1, <2>3, <2>4, <2>5
<1>3. QED
  BY <1>1, <1>2 DEF WakeUpNext

\* It adds at most one holder, a waiter.
LEMMA WakeUpHolders ==
    ASSUME NEW v, NEW s \in States, NEW q \in Seq(Callers), WakeUpNext(v, s, q)
    PROVE  \/ HoldersIn(st') = HoldersIn(s)
           \/ \E d \in Callers : /\ s[d] = "wait"
                                 /\ HoldersIn(st') = HoldersIn(s) \cup {d}
<1>1. ASSUME NEW i \in PendingIn(s, q), st' = [s EXCEPT ![q[i]] = "granted"]
      PROVE  \E d \in Callers : /\ s[d] = "wait"
                                /\ HoldersIn(st') = HoldersIn(s) \cup {d}
  <2>1. q[i] \in Callers /\ s[q[i]] = "wait"
    BY DEF PendingIn
  <2>2. HoldersIn(st') = HoldersIn(s) \cup {q[i]}
    BY <1>1, <2>1 DEF HoldersIn, States
  <2>3. QED
    BY <2>1, <2>2
<1>2. QED
  BY <1>1 DEF WakeUpNext
-------------------------------------------------------------------------------
(* The inductive invariant *)

IInv ==
    /\ TypeOK
    /\ value >= 0
    /\ SlotConservation
    /\ ActiveCountExact
    /\ QueueExact
    /\ NoLostWakeUp

LEMMA InitIInv == Init => IInv
<1> SUFFICES ASSUME Init PROVE IInv
  OBVIOUS
<1> USE DEF Init
<1>1. TypeOK /\ value >= 0
  BY MaxConcurrentAssumption DEF TypeOK, CallerStates, Reasons
<1>2. Holders = {} /\ Inside = {} /\ QueuedIn(st) = {}
  BY DEF Holders, HoldersIn, Inside, InsideIn, QueuedIn
<1>3. SlotConservation /\ ActiveCountExact
  BY <1>2, FS_EmptySet, MaxConcurrentAssumption DEF SlotConservation, ActiveCountExact
<1>4. QueueExact
  BY <1>2 DEF QueueExact, Distinct, MembersOf
<1>5. NoLostWakeUp
  BY DEF NoLostWakeUp
<1>6. QED
  BY <1>1, <1>3, <1>4, <1>5 DEF IInv

\* What the invariant says of a state, in the terms of the lemmas above.
LEMMA IInvFacts ==
    ASSUME IInv
    PROVE  /\ value \in Nat /\ waiters \in Seq(Callers) /\ st \in States
           /\ active \in Int /\ result \in [Callers -> Reasons]
           /\ value + Cardinality(HoldersIn(st)) = MaxConcurrent
           /\ active = Cardinality(InsideIn(st))
           /\ Distinct(waiters) /\ MembersOf(waiters) = QueuedIn(st)
BY DEF IInv, TypeOK, SlotConservation, ActiveCountExact, QueueExact, States, Holders, Inside

\* The same, for showing the invariant of the next state.
LEMMA IInvPrime ==
    ASSUME value' \in Int /\ value' >= 0, waiters' \in Seq(Callers), st' \in States,
           active' \in Int, result' \in [Callers -> Reasons],
           value' + Cardinality(HoldersIn(st')) = MaxConcurrent,
           active' = Cardinality(InsideIn(st')),
           Distinct(waiters'), MembersOf(waiters') = QueuedIn(st'),
           NoLostWakeUp'
    PROVE  IInv'
BY DEF IInv, TypeOK, SlotConservation, ActiveCountExact, QueueExact, States, Holders, Inside

LEMMA AcquireCallIInv ==
    ASSUME IInv, NEW c \in Callers, AcquireCall(c)
    PROVE  IInv'
<1> USE IInvFacts
<1>1. st' = [st EXCEPT ![c] = "start"] /\ st[c] = "out" /\ st' \in States
  BY DEF AcquireCall, States, CallerStates
<1>2. HoldersIn(st') = HoldersIn(st) /\ InsideIn(st') = InsideIn(st)
  BY <1>1 DEF HoldersIn, InsideIn, States
<1>3. QueuedIn(st') = QueuedIn(st)
  BY <1>1 DEF QueuedIn, States
<1>4. NoLostWakeUp'
  BY <1>1 DEF IInv, NoLostWakeUp, AcquireCall, States
<1>5. QED
  BY <1>1, <1>2, <1>3, <1>4, IInvPrime DEF AcquireCall

LEMMA StartAcquireIInv ==
    ASSUME IInv, NEW c \in Callers, StartAcquire(c)
    PROVE  IInv'
<1> USE IInvFacts
<1>1. st[c] = "start" /\ c \notin MembersOf(waiters)
  BY DEF StartAcquire, QueuedIn
<1>2. CASE /\ value > 0 /\ waiters = <<>>
           /\ value' = value - 1
           /\ st' = [st EXCEPT ![c] = "got"]
           /\ UNCHANGED waiters
  <2>1. st' \in States /\ "got" \in CallerStates
    BY <1>2 DEF States, CallerStates
  <2>2. Cardinality(HoldersIn(st')) = Cardinality(HoldersIn(st)) + 1
        /\ Cardinality(HoldersIn(st)) \in Nat
    BY <1>1, <1>2, <2>1, HoldersUpdate
  <2>3. InsideIn(st') = InsideIn(st) /\ QueuedIn(st') = QueuedIn(st)
    BY <1>1, <1>2 DEF InsideIn, QueuedIn, States
  <2>4. NoLostWakeUp'
    BY <1>1, <1>2 DEF IInv, NoLostWakeUp, States
  <2>5. QED
    BY <1>2, <2>1, <2>2, <2>3, <2>4, IInvPrime DEF StartAcquire
<1>3. CASE /\ value = 0 \/ waiters # <<>>
           /\ waiters' = Append(waiters, c)
           /\ st' = [st EXCEPT ![c] = "wait"]
           /\ UNCHANGED value
  <2>1. st' \in States
    BY <1>3 DEF States, CallerStates
  <2>2. HoldersIn(st') = HoldersIn(st) /\ InsideIn(st') = InsideIn(st)
    BY <1>1, <1>3 DEF HoldersIn, InsideIn, States
  <2>3. QueuedIn(st') = QueuedIn(st) \cup {c}
    BY <1>1, <1>3 DEF QueuedIn, States
  <2>4. waiters' \in Seq(Callers) /\ Distinct(waiters')
        /\ MembersOf(waiters') = MembersOf(waiters) \cup {c}
    BY <1>1, <1>3, AppendJoins
  <2>5. NoLostWakeUp'
    <3> SUFFICES ASSUME value' > 0
                 PROVE  \E d \in Callers : st'[d] = "granted"
      BY DEF NoLostWakeUp
    <3>1. waiters # <<>>
      BY <1>3
    <3>2. 1 \in DOMAIN waiters
      BY <3>1
    <3> DEFINE d == waiters[1]
    <3>3. d \in Callers /\ st[d] \in {"wait", "granted"}
      BY <3>2 DEF MembersOf, QueuedIn
    <3>4. PICK e \in Callers : st[e] = "granted"
      BY <3>3, <1>3 DEF IInv, NoLostWakeUp
    <3>5. QED
      BY <3>4, <1>1, <1>3 DEF States
  <2>6. MembersOf(waiters') = QueuedIn(st')
    BY <2>3, <2>4
  <2>7. UNCHANGED <<value, active, result>>
    BY <1>3 DEF StartAcquire
  <2>8. QED
    BY <2>1, <2>2, <2>4, <2>5, <2>6, <2>7, IInvPrime
<1>4. QED
  BY <1>2, <1>3 DEF StartAcquire

LEMMA ResumeWaiterIInv ==
    ASSUME IInv, NEW c \in Callers, ResumeWaiter(c)
    PROVE  IInv'
<1> USE IInvFacts
<1> DEFINE s == [st EXCEPT ![c] = "got"]
<1>1. st[c] = "granted" /\ s \in States
  BY DEF ResumeWaiter, States, CallerStates
<1>2. HoldersIn(s) = HoldersIn(st) /\ InsideIn(s) = InsideIn(st)
  BY <1>1 DEF HoldersIn, InsideIn, States
<1>3. QueuedIn(s) = QueuedIn(st) \ {c}
  BY <1>1 DEF QueuedIn, States
<1>4. waiters' \in Seq(Callers) /\ Distinct(waiters')
      /\ MembersOf(waiters') = QueuedIn(s)
  BY <1>3, WithoutRemoves DEF ResumeWaiter
<1>5. UNCHANGED <<active, result>>
  BY DEF ResumeWaiter
<1>6. CASE value > 0 /\ WakeUpNext(value, s, waiters')
  <2> HIDE DEF s
  <2>1. /\ value' \in Int /\ st' \in States /\ value' >= 0
        /\ value' + Cardinality(HoldersIn(st')) = value + Cardinality(HoldersIn(s))
        /\ InsideIn(st') = InsideIn(s) /\ QueuedIn(st') = QueuedIn(s)
        /\ (\E d \in Callers : st'[d] = "wait") =>
              \E e \in Callers : st'[e] = "granted"
    BY <1>1, <1>4, <1>6, WakeUpMoves
  <2>2. NoLostWakeUp'
    BY <2>1 DEF NoLostWakeUp
  <2>3. QED
    BY <1>2, <1>4, <1>5, <2>1, <2>2, IInvPrime
<1>7. CASE ~(value > 0) /\ value' = value /\ st' = s
  <2>1. NoLostWakeUp'
    BY <1>7 DEF NoLostWakeUp
  <2>2. QED
    BY <1>1, <1>2, <1>4, <1>5, <1>7, <2>1, IInvPrime
<1>8. QED
  BY <1>6, <1>7 DEF ResumeWaiter

LEMMA AdmitIInv ==
    ASSUME IInv, NEW c \in Callers, Admit(c)
    PROVE  IInv'
<1> USE IInvFacts
<1>1. st[c] = "got" /\ st' = [st EXCEPT ![c] = "in"] /\ st' \in States
      /\ "in" \in CallerStates
  BY DEF Admit, States, CallerStates
<1>2. HoldersIn(st') = HoldersIn(st) /\ QueuedIn(st') = QueuedIn(st)
  BY <1>1 DEF HoldersIn, QueuedIn, States
<1>3. Cardinality(InsideIn(st')) = Cardinality(InsideIn(st)) + 1
  BY <1>1, InsideUpdate
<1>4. result' \in [Callers -> Reasons]
  BY DEF Admit, Reasons
<1>5. NoLostWakeUp'
  BY <1>1 DEF IInv, NoLostWakeUp, Admit, States
<1>6. QED
  BY <1>1, <1>2, <1>3, <1>4, <1>5, IInvPrime DEF Admit

LEMMA AcquireBypassIInv ==
    ASSUME IInv, NEW c \in Callers, AcquireBypass(c)
    PROVE  IInv'
<1> USE IInvFacts
<1>1. UNCHANGED <<value, waiters, st, active>> /\ result' \in [Callers -> Reasons]
  BY DEF AcquireBypass, Reasons
<1>2. NoLostWakeUp'
  BY <1>1 DEF IInv, NoLostWakeUp
<1>3. QED
  BY <1>1, <1>2, IInvPrime

LEMMA TimeOutIInv ==
    ASSUME IInv, NEW c \in Callers, TimeOut(c)
    PROVE  IInv'
<1> USE IInvFacts
<1> DEFINE s == [st EXCEPT ![c] = "out"]
<1>1. st[c] \in {"start", "wait", "granted"} /\ s \in States /\ "out" \in CallerStates
  BY DEF TimeOut, States, CallerStates
<1>2. InsideIn(s) = InsideIn(st)
  BY <1>1 DEF InsideIn, States
<1>3. QueuedIn(s) = QueuedIn(st) \ {c}
  BY <1>1 DEF QueuedIn, States
<1>4. waiters' \in Seq(Callers) /\ Distinct(waiters')
      /\ MembersOf(waiters') = QueuedIn(s)
  BY <1>3, WithoutRemoves DEF TimeOut
<1>5. active' = active /\ result' \in [Callers -> Reasons]
  BY DEF TimeOut, Reasons
<1>6. CASE st[c] = "granted" /\ WakeUpNext(value + 1, s, waiters')
  <2>1. Cardinality(HoldersIn(s)) = Cardinality(HoldersIn(st)) - 1
        /\ Cardinality(HoldersIn(st)) \in Nat
    BY <1>1, <1>6, HoldersUpdate
  <2> HIDE DEF s
  <2>2. /\ value' \in Int /\ st' \in States /\ value' >= 0
        /\ value' + Cardinality(HoldersIn(st'))
              = value + 1 + Cardinality(HoldersIn(s))
        /\ InsideIn(st') = InsideIn(s) /\ QueuedIn(st') = QueuedIn(s)
        /\ (\E d \in Callers : st'[d] = "wait") =>
              \E e \in Callers : st'[e] = "granted"
    <3>1. value + 1 \in Int /\ value + 1 > 0
      OBVIOUS
    <3>2. QED
      BY <1>1, <1>4, <1>6, <3>1, WakeUpMoves
  <2>3. NoLostWakeUp'
    BY <2>2 DEF NoLostWakeUp
  <2>4. value' + Cardinality(HoldersIn(st')) = MaxConcurrent
    BY <2>1, <2>2
  <2>5. QED
    BY <1>2, <1>4, <1>5, <2>2, <2>3, <2>4, IInvPrime
<1>7. CASE st[c] # "granted" /\ value' = value /\ st' = s
  <2>1. HoldersIn(st') = HoldersIn(st)
    BY <1>1, <1>7 DEF HoldersIn, States
  <2>2. NoLostWakeUp'
    BY <1>1, <1>7 DEF IInv, NoLostWakeUp, States
  <2>3. QED
    BY <1>1, <1>2, <1>4, <1>5, <1>7, <2>1, <2>2, IInvPrime
<1>8. QED
  BY <1>6, <1>7 DEF TimeOut

\* release, whether its caller leaves or queues again.
LEMMA ReleaseSlotIInv ==
    ASSUME IInv, NEW c \in Callers, NEW next \in {"out", "start"},
           st[c] = "in", ReleaseSlot(c, next)
    PROVE  IInv'
<1> USE IInvFacts
<1> DEFINE s == [st EXCEPT ![c] = next]
<1>1. s \in States /\ next \in CallerStates
  BY DEF States, CallerStates
<1>2. QueuedIn(s) = QueuedIn(st)
  BY DEF QueuedIn, States
<1>3. Cardinality(InsideIn(s)) = Cardinality(InsideIn(st)) - 1
      /\ Cardinality(InsideIn(st)) \in Nat
  BY <1>1, InsideUpdate
<1>4. Cardinality(HoldersIn(s)) = Cardinality(HoldersIn(st)) - 1
      /\ Cardinality(HoldersIn(st)) \in Nat
  BY <1>1, HoldersUpdate
<1>5. WakeUpNext(value + 1, s, waiters)
      /\ active' = active - 1 /\ UNCHANGED <<waiters, result>>
  BY DEF ReleaseSlot
<1> HIDE DEF s
<1>6. /\ value' \in Int /\ st' \in States /\ value' >= 0
      /\ value' + Cardinality(HoldersIn(st')) = value + 1 + Cardinality(HoldersIn(s))
      /\ InsideIn(st') = InsideIn(s) /\ QueuedIn(st') = QueuedIn(s)
      /\ (\E d \in Callers : st'[d] = "wait") =>
            \E e \in Callers : st'[e] = "granted"
  <2>1. MembersOf(waiters) = QueuedIn(s) /\ value + 1 \in Int /\ value + 1 > 0
    BY <1>2
  <2>2. QED
    BY <1>1, <1>5, <2>1, WakeUpMoves
<1>7. NoLostWakeUp'
  BY <1>6 DEF NoLostWakeUp
<1>8. value' + Cardinality(HoldersIn(st')) = MaxConcurrent
      /\ active' = Cardinality(InsideIn(st')) /\ active' \in Int
  BY <1>3, <1>4, <1>5, <1>6
<1>9. QED
  BY <1>2, <1>5, <1>6, <1>7, <1>8, IInvPrime

LEMMA StepIInv == IInv /\ [Next]_admVars => IInv'
<1> SUFFICES ASSUME IInv, [Next]_admVars PROVE IInv'
  OBVIOUS
<1>1. ASSUME NEW c \in Callers, Step(c) PROVE IInv'
  <2>1. CASE AcquireBypass(c)
    BY <2>1, AcquireBypassIInv
  <2>2. CASE AcquireCall(c)
    BY <2>2, AcquireCallIInv
  <2>3. CASE StartAcquire(c)
    BY <2>3, StartAcquireIInv
  <2>4. CASE ResumeWaiter(c)
    BY <2>4, ResumeWaiterIInv
  <2>5. CASE Admit(c)
    BY <2>5, AdmitIInv
  <2>6. CASE TimeOut(c)
    BY <2>6, TimeOutIInv
  <2>7. CASE Release(c)
    BY <2>7, ReleaseSlotIInv DEF Release
  <2>8. CASE Reacquire(c)
    BY <2>8, ReleaseSlotIInv DEF Reacquire
  <2>9. QED
    BY <1>1, <2>1, <2>2, <2>3, <2>4, <2>5, <2>6, <2>7, <2>8 DEF Step, Internal
<1>2. CASE UNCHANGED admVars
  BY <1>2 DEF admVars, IInv, TypeOK, SlotConservation, ActiveCountExact, QueueExact,
              NoLostWakeUp, Holders, Inside
<1>3. QED
  BY <1>1, <1>2 DEF Next

\* Whatever interleaving of acquire, release and timers, the gate stays inside the
\* inductive invariant.
THEOREM Invariance == Spec => []IInv
BY InitIInv, StepIInv, PTL DEF Spec
-------------------------------------------------------------------------------
(* What the invariant gives *)

\* The variables of the gate keep their types, for every number of callers and
\* every ceiling.
THEOREM TypeCorrect == Spec => []TypeOK
<1>1. IInv => TypeOK
  BY DEF IInv
<1>2. QED
  BY <1>1, Invariance, PTL

\* No slot is lost or made, however timeouts and releases interleave.
THEOREM SlotsConserved == Spec => []SlotConservation
<1>1. IInv => SlotConservation
  BY DEF IInv
<1>2. QED
  BY <1>1, Invariance, PTL

\* The deque of the semaphore is exact: no waiter is forgotten or queued twice.
THEOREM QueueCorrect == Spec => []QueueExact
<1>1. IInv => QueueExact
  BY DEF IInv
<1>2. QED
  BY <1>1, Invariance, PTL

\* Nobody sleeps beside a free slot unless a granted waiter is about to run.
THEOREM WakeUpsNotLost == Spec => []NoLostWakeUp
<1>1. IInv => NoLostWakeUp
  BY DEF IInv
<1>2. QED
  BY <1>1, Invariance, PTL

\* The ceiling of concurrent reasoning-model calls holds for every number of
\* callers: those inside hold slots, and the slots are conserved.
THEOREM CeilingHolds == Spec => []CeilingRespected
<1>1. IInv => CeilingRespected
  <2> SUFFICES ASSUME IInv PROVE CeilingRespected
    OBVIOUS
  <2>1. InsideIn(st) \subseteq HoldersIn(st) /\ IsFiniteSet(HoldersIn(st))
    BY CallersAssumption, FS_Subset DEF InsideIn, HoldersIn
  <2>2. /\ Cardinality(InsideIn(st)) <= Cardinality(HoldersIn(st))
        /\ Cardinality(InsideIn(st)) \in Nat /\ Cardinality(HoldersIn(st)) \in Nat
    BY <2>1, FS_Subset, FS_CardinalityType
  <2>3. QED
    BY <2>2, IInvFacts, MaxConcurrentAssumption
    DEF CeilingRespected, ActiveCountExact, IInv, Inside
<1>2. QED
  BY <1>1, Invariance, PTL
-------------------------------------------------------------------------------
(* The gate implements the pool of slots *)

\* Inside the instance, Cardinality is the same operator under another name.
LEMMA PoolCardinality == ASSUME NEW S PROVE Pool!Cardinality(S) = Cardinality(S)
BY DEF Cardinality, Pool!Cardinality

\* A step that frees c's slot and wakes the next waiter gives the slot back or
\* passes it on; c may have no other claim to it.
LEMMA WakeUpRefines ==
    ASSUME NEW c \in Callers, NEW s \in States, NEW v, NEW q \in Seq(Callers),
           st \in States, WakeUpNext(v, s, q),
           c \in Holders, HoldersIn(s) = Holders \ {c}, s[c] # "wait"
    PROVE  Pool!Next
<1>1. CASE HoldersIn(st') = HoldersIn(s)
  BY <1>1 DEF Pool!Next, Pool!Give, Holders
<1>2. CASE \E d \in Callers : /\ s[d] = "wait"
                              /\ HoldersIn(st') = HoldersIn(s) \cup {d}
  <2>1. PICK d \in Callers : /\ s[d] = "wait"
                             /\ HoldersIn(st') = HoldersIn(s) \cup {d}
    BY <1>2
  <2>2. d # c /\ d \notin HoldersIn(s)
    BY <2>1 DEF HoldersIn
  <2>3. d \notin Holders
    BY <2>2
  <2>4. Pool!PassOn(c, d)
    BY <2>1, <2>3 DEF Pool!PassOn, Holders
  <2>5. QED
    BY <2>4 DEF Pool!Next
<1>3. QED
  BY <1>1, <1>2, WakeUpHolders

LEMMA StepRefines ==
    ASSUME IInv, [Next]_admVars
    PROVE  [Pool!Next]_Holders
<1> USE IInvFacts
<1> SUFFICES ASSUME NEW c \in Callers, Step(c)
             PROVE  Pool!Next \/ UNCHANGED Holders
  BY DEF Next, admVars, Holders
<1>1. CASE AcquireBypass(c) \/ AcquireCall(c) \/ Admit(c)
  <2>1. HoldersIn(st') = HoldersIn(st)
    BY <1>1 DEF AcquireBypass, AcquireCall, Admit, HoldersIn, States
  <2>2. QED
    BY <2>1 DEF Holders
<1>2. CASE StartAcquire(c)
  <2>1. CASE value > 0 /\ st' = [st EXCEPT ![c] = "got"]
    <3>1. c \notin Holders /\ HoldersIn(st') = Holders \cup {c}
      BY <1>2, <2>1 DEF StartAcquire, Holders, HoldersIn, States
    <3>2. Cardinality(Holders) < MaxConcurrent
      <4>1. Cardinality(Holders) \in Nat
        BY CallersAssumption, FS_Subset, FS_CardinalityType DEF Holders, HoldersIn
      <4>2. QED
        BY <2>1, <4>1, MaxConcurrentAssumption DEF Holders
    <3>3. Pool!Take(c)
      BY <3>1, <3>2, PoolCardinality DEF Pool!Take, Holders
    <3>4. QED
      BY <3>3 DEF Pool!Next
  <2>2. CASE st' = [st EXCEPT ![c] = "wait"]
    <3>1. HoldersIn(st') = HoldersIn(st)
      BY <1>2, <2>2 DEF StartAcquire, HoldersIn, States
    <3>2. QED
      BY <3>1 DEF Holders
  <2>3. QED
    BY <1>2, <2>1, <2>2 DEF StartAcquire
<1>3. CASE ResumeWaiter(c)
  <2> DEFINE s == [st EXCEPT ![c] = "got"]
  <2>1. st[c] = "granted" /\ s \in States /\ HoldersIn(s) = Holders
    BY <1>3 DEF ResumeWaiter, Holders, HoldersIn, States, CallerStates
  <2>2. waiters' \in Seq(Callers)
    BY <1>3, WithoutRemoves DEF ResumeWaiter
  <2>3. CASE st' = s
    BY <2>1, <2>3 DEF Holders
  <2>4. CASE value > 0 /\ WakeUpNext(value, s, waiters')
    <3>1. CASE HoldersIn(st') = HoldersIn(s)
      BY <2>1, <3>1 DEF Holders
    <3>2. CASE \E d \in Callers : /\ s[d] = "wait"
                                  /\ HoldersIn(st') = HoldersIn(s) \cup {d}
      <4>1. PICK d \in Callers : /\ s[d] = "wait"
                                 /\ HoldersIn(st') = HoldersIn(s) \cup {d}
        BY <3>2
      <4> HIDE DEF s
      <4>2. d \notin Holders
        BY <2>1, <4>1 DEF HoldersIn
      <4>3. Cardinality(Holders) < MaxConcurrent
        <5>1. Cardinality(Holders) \in Nat
          BY CallersAssumption, FS_Subset, FS_CardinalityType DEF Holders, HoldersIn
        <5>2. QED
          BY <2>4, <5>1, MaxConcurrentAssumption DEF Holders
      <4>4. Pool!Take(d)
        BY <2>1, <4>1, <4>2, <4>3, PoolCardinality DEF Pool!Take, Holders
      <4>5. QED
        BY <4>4 DEF Pool!Next
    <3> HIDE DEF s
    <3>3. QED
      BY <2>1, <2>2, <2>4, <3>1, <3>2, WakeUpHolders
  <2>5. QED
    BY <1>3, <2>3, <2>4 DEF ResumeWaiter
<1>4. CASE TimeOut(c)
  <2> DEFINE s == [st EXCEPT ![c] = "out"]
  <2>1. s \in States /\ s[c] # "wait"
    BY DEF States, CallerStates
  <2>2. waiters' \in Seq(Callers)
    BY <1>4, WithoutRemoves DEF TimeOut
  <2>3. CASE st[c] = "granted" /\ WakeUpNext(value + 1, s, waiters')
    <3>1. c \in Holders /\ HoldersIn(s) = Holders \ {c}
      BY <2>3 DEF Holders, HoldersIn, States
    <3> HIDE DEF s
    <3>2. QED
      BY <2>1, <2>2, <2>3, <3>1, WakeUpRefines
  <2>4. CASE st[c] # "granted" /\ st' = s
    <3>1. HoldersIn(st') = HoldersIn(st)
      BY <1>4, <2>4 DEF TimeOut, HoldersIn, States
    <3>2. QED
      BY <3>1 DEF Holders
  <2>5. QED
    BY <1>4, <2>3, <2>4 DEF TimeOut
<1>5. ASSUME NEW next \in {"out", "start"}, st[c] = "in", ReleaseSlot(c, next)
      PROVE  Pool!Next
  <2> DEFINE s == [st EXCEPT ![c] = next]
  <2>1. s \in States /\ s[c] # "wait"
    BY DEF States, CallerStates
  <2>2. c \in Holders /\ HoldersIn(s) = Holders \ {c}
    BY <1>5 DEF Holders, HoldersIn, States
  <2>3. WakeUpNext(value + 1, s, waiters)
    BY <1>5 DEF ReleaseSlot
  <2> HIDE DEF s
  <2>4. QED
    BY <2>1, <2>2, <2>3, WakeUpRefines
<1>6. CASE Release(c) \/ Reacquire(c)
  BY <1>5, <1>6 DEF Release, Reacquire
<1>7. QED
  BY <1>1, <1>2, <1>3, <1>4, <1>6 DEF Step, Internal

\* The gate, with its queue, its grants and its timers, implements the pool:
\* every step takes a free slot, gives one back, passes one on or leaves the
\* holders alone.
THEOREM GateImplementsPool == Spec => PoolSpec
<1>1. Init => Pool!Init
  BY DEF Init, Pool!Init, Holders, HoldersIn
<1>2. IInv /\ [Next]_admVars => [Pool!Next]_Holders
  BY StepRefines
<1>3. QED
  BY <1>1, <1>2, Invariance, PTL DEF Spec, PoolSpec, Pool!Spec
-------------------------------------------------------------------------------
(* Slots are granted in the order of arrival *)

Ahead ==
    \A i, j \in DOMAIN waiters :
        i < j /\ st[waiters[i]] = "wait" /\ st[waiters[j]] = "wait"
            => ~(st'[waiters[j]] = "granted" /\ st'[waiters[i]] = "wait")

NoBarging ==
    \A c \in Callers : st[c] = "start" /\ st'[c] = "got" => waiters = <<>>

\* Those that stay in a queue keep their order when one leaves it.
LEMMA WithoutKeepsOrder ==
    ASSUME NEW q \in Seq(Callers), NEW c \in Callers,
           NEW i \in DOMAIN q, NEW j \in DOMAIN q, i < j, q[i] # c, q[j] # c
    PROVE  \E m, n \in DOMAIN Without(q, c) :
              m < n /\ Without(q, c)[m] = q[i] /\ Without(q, c)[n] = q[j]
<1>1. CASE \E l \in DOMAIN q : q[l] = c
  <2> DEFINE k == CHOOSE l \in DOMAIN q : q[l] = c
             w == [l \in 1..(Len(q) - 1) |-> IF l < k THEN q[l] ELSE q[l + 1]]
  <2>1. k \in DOMAIN q /\ q[k] = c
    BY <1>1
  <2>2. k \in 1..Len(q) /\ Len(q) \in Nat /\ i \in 1..Len(q) /\ j \in 1..Len(q)
    BY <2>1
  <2> HIDE DEF k
  <2>3. Without(q, c) = w
    BY <1>1 DEF Without, k
  <2>4. i # k /\ j # k
    BY <2>1
  <2>5. PICK m \in 1..(Len(q) - 1) : m = IF i < k THEN i ELSE i - 1
    BY <2>2, <2>4
  <2>6. PICK n \in 1..(Len(q) - 1) : n = IF j < k THEN j ELSE j - 1
    BY <2>2, <2>4
  <2>7. m < n
    BY <2>2, <2>4, <2>5, <2>6
  <2>8. w[m] = q[i] /\ w[n] = q[j]
    BY <2>2, <2>4, <2>5, <2>6
  <2>9. DOMAIN w = 1..(Len(q) - 1)
    OBVIOUS
  <2> HIDE DEF w
  <2>10. QED
    BY <2>3, <2>5, <2>6, <2>7, <2>8, <2>9
<1>2. CASE ~ \E l \in DOMAIN q : q[l] = c
  BY <1>2 DEF Without
<1>3. QED
  BY <1>1, <1>2

\* The first pending waiter is granted: one behind it is not while it waits.
LEMMA GrantInOrder ==
    ASSUME NEW v, NEW s \in States, NEW q \in Seq(Callers), Distinct(q),
           WakeUpNext(v, s, q), NEW i \in DOMAIN q, NEW j \in DOMAIN q, i < j,
           s[q[i]] = "wait", s[q[j]] = "wait", st'[q[j]] = "granted"
    PROVE  st'[q[i]] # "wait"
<1>1. i \in Nat /\ j \in Nat
  OBVIOUS
<1>2. PICK m \in PendingIn(s, q) : /\ \A l \in PendingIn(s, q) : m <= l
                                   /\ st' = [s EXCEPT ![q[m]] = "granted"]
  BY DEF WakeUpNext
<1>3. m \in DOMAIN q /\ q[m] = q[j]
  BY <1>2 DEF PendingIn, States
<1>4. m = j /\ i \in PendingIn(s, q)
  BY <1>3 DEF Distinct, PendingIn
<1>5. QED
  BY <1>1, <1>2, <1>4

\* A caller leaves its state for x and the next waiter is woken.
LEMMA WakeUpInOrder ==
    ASSUME IInv, NEW c \in Callers, NEW x \in CallerStates \ {"wait", "granted"},
           NEW v, NEW q, WakeUpNext(v, [st EXCEPT ![c] = x], q),
           (q = waiters /\ st[c] # "wait") \/ q = Without(waiters, c),
           st[c] # "start" \/ x # "got"
    PROVE  Ahead /\ NoBarging
<1> DEFINE s == [st EXCEPT ![c] = x]
<1>1. s \in States /\ s[c] = x /\ \A d \in Callers \ {c} : s[d] = st[d]
  BY IInvFacts DEF States
<1>2. q \in Seq(Callers) /\ Distinct(q)
  BY IInvFacts, WithoutRemoves
<1> HIDE DEF s
<1>3. \A d \in Callers : st'[d] = s[d] \/ (s[d] = "wait" /\ st'[d] = "granted")
  <2>1. CASE st' = s
    BY <2>1
  <2>2. CASE \E k \in PendingIn(s, q) : st' = [s EXCEPT ![q[k]] = "granted"]
    <3>1. PICK k \in PendingIn(s, q) : st' = [s EXCEPT ![q[k]] = "granted"]
      BY <2>2
    <3>2. PICK e \in Callers : e = q[k] /\ s[e] = "wait"
      BY <1>2, <3>1 DEF PendingIn
    <3>3. QED
      BY <1>1, <3>1, <3>2 DEF States
  <2>3. QED
    BY <2>1, <2>2 DEF WakeUpNext, s
<1>4. st'[c] = x
  BY <1>1, <1>3
<1>5. ASSUME NEW i \in DOMAIN waiters, NEW j \in DOMAIN waiters, i < j,
             st[waiters[i]] = "wait", st[waiters[j]] = "wait",
             st'[waiters[j]] = "granted", st'[waiters[i]] = "wait"
      PROVE  FALSE
  <2>1. waiters \in Seq(Callers) /\ waiters[i] \in Callers /\ waiters[j] \in Callers
    BY IInvFacts
  <2>2. waiters[i] # c /\ waiters[j] # c
    BY <1>4, <1>5
  <2>3. s[waiters[i]] = "wait" /\ s[waiters[j]] = "wait"
    BY <1>1, <1>5, <2>1, <2>2
  <2>4. PICK m, n \in DOMAIN q : m < n /\ q[m] = waiters[i] /\ q[n] = waiters[j]
    <3>1. CASE q = waiters
      BY <1>5, <3>1
    <3>2. CASE q = Without(waiters, c)
      BY <1>5, <2>1, <2>2, <3>2, WithoutKeepsOrder
    <3>3. QED
      BY <3>1, <3>2
  <2>5. WakeUpNext(v, s, q)
    BY DEF s
  <2>6. QED
    BY <1>1, <1>2, <1>5, <2>3, <2>4, <2>5, GrantInOrder
<1>6. Ahead
  BY <1>5 DEF Ahead
<1>7. NoBarging
  BY <1>1, <1>3 DEF NoBarging
<1>8. QED
  BY <1>6, <1>7

LEMMA StepInOrder ==
    ASSUME IInv, NEW c \in Callers, Step(c)
    PROVE  Ahead /\ NoBarging
<1>0. st \in States /\ waiters \in Seq(Callers)
  BY IInvFacts
<1>1. ASSUME NEW x \in CallerStates \ {"granted"}, st' = [st EXCEPT ![c] = x],
             x = "got" /\ st[c] = "start" => waiters = <<>>
      PROVE  Ahead /\ NoBarging
  BY <1>0, <1>1 DEF Ahead, NoBarging, States
<1>2. CASE AcquireBypass(c)
  BY <1>0, <1>2 DEF AcquireBypass, Ahead, NoBarging
<1>3. CASE AcquireCall(c) \/ Admit(c)
  BY <1>1, <1>3 DEF AcquireCall, Admit, CallerStates
<1>4. CASE StartAcquire(c)
  BY <1>1, <1>4 DEF StartAcquire, CallerStates
<1>5. CASE ResumeWaiter(c)
  <2>1. CASE value > 0
    <3>1. WakeUpNext(value, [st EXCEPT ![c] = "got"], Without(waiters, c))
      BY <1>5, <2>1 DEF ResumeWaiter
    <3>2. QED
      BY <1>5, <3>1, WakeUpInOrder DEF ResumeWaiter, CallerStates
  <2>2. CASE ~(value > 0)
    BY <1>1, <1>5, <2>2 DEF ResumeWaiter, CallerStates
  <2>3. QED
    BY <2>1, <2>2
<1>6. CASE TimeOut(c)
  <2>1. CASE st[c] = "granted"
    <3>1. WakeUpNext(value + 1, [st EXCEPT ![c] = "out"], Without(waiters, c))
      BY <1>6, <2>1 DEF TimeOut
    <3>2. QED
      BY <3>1, WakeUpInOrder DEF CallerStates
  <2>2. CASE st[c] # "granted"
    BY <1>1, <1>6, <2>2 DEF TimeOut, CallerStates
  <2>3. QED
    BY <2>1, <2>2
<1>7. CASE Release(c)
  <2>1. WakeUpNext(value + 1, [st EXCEPT ![c] = "out"], waiters) /\ st[c] = "in"
    BY <1>7 DEF Release, ReleaseSlot
  <2>2. QED
    BY <2>1, WakeUpInOrder DEF CallerStates
<1>8. CASE Reacquire(c)
  <2>1. WakeUpNext(value + 1, [st EXCEPT ![c] = "start"], waiters) /\ st[c] = "in"
    BY <1>8 DEF Reacquire, ReleaseSlot
  <2>2. QED
    BY <2>1, WakeUpInOrder DEF CallerStates
<1>9. QED
  BY <1>2, <1>3, <1>4, <1>5, <1>6, <1>7, <1>8 DEF Step, Internal

\* Slots go to callers in the order of arrival, whatever times out or queues
\* again meanwhile, and a newcomer takes one only when nobody waits.
THEOREM GrantsInOrder == Spec => FirstComeFirstServed
<1> DEFINE Fair == /\ \A i, j \in DOMAIN waiters :
                         i < j /\ st[waiters[i]] = "wait" /\ st[waiters[j]] = "wait"
                            => ~(st'[waiters[j]] = "granted" /\ st'[waiters[i]] = "wait")
                   /\ \A c \in Callers :
                         st[c] = "start" /\ st'[c] = "got" => waiters = <<>>
<1>1. IInv /\ [Next]_admVars => [Fair]_admVars
  BY StepInOrder DEF Next, Ahead, NoBarging
<1>2. QED
  BY <1>1, Invariance, PTL DEF Spec, FirstComeFirstServed
===============================================================================
