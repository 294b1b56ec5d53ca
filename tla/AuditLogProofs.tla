---------------------------- MODULE AuditLogProofs ----------------------------
(***************************************************************************)
(* Theorems about AuditLog, for every capacity of the queue and any number *)
(* of records and processes.                                               *)
(***************************************************************************)
EXTENDS AuditLog, FiniteSetTheorems, SequenceTheorems, TLAPS

InQueue(r) == \E i \in DOMAIN queue : queue[i] = r
Line(r) == [rec |-> r, part |-> "line"]

\* What has been written is older than what the writer holds, and this is older
\* than what is queued; the sentinel comes last.
Ordered ==
    /\ \A i, j \in DOMAIN file : i < j => file[i].rec < file[j].rec
    /\ \A i, j \in DOMAIN queue : i < j =>
          queue[i] # SENTINEL /\ (queue[j] # SENTINEL => queue[i] < queue[j])
    /\ \A i \in DOMAIN file : file[i].rec <= seen
    /\ hand # Nothing => hand <= seen /\ \A i \in DOMAIN file : file[i].rec < hand
    /\ \A i \in DOMAIN queue : queue[i] # SENTINEL =>
          /\ queue[i] <= seen /\ hand < queue[i]
          /\ \A j \in DOMAIN file : file[j].rec < queue[i]

\* The writer and the event loop agree on how far a stop has come.
Stopping ==
    /\ writer = "append" <=> hand # Nothing
    /\ pc = "down" => queue = <<>> /\ hand = Nothing
    /\ writer = "ended" /\ pc # "down" => queue = <<>> /\ pc \in {"join", "stopped"}
    /\ InQueue(SENTINEL) => pc \in {"join", "stopped"}

\* The history says where a record is.
Located ==
    \A r \in Records :
        /\ fate[r] = "new" <=> r > seen
        /\ fate[r] = "written" <=> \E i \in DOMAIN file : file[i] = Line(r)
        /\ fate[r] = "pending" <=> r = hand \/ InQueue(r)

Dropped == {r \in Records : fate[r] = "dropped"}

Counted ==
    /\ droppedCount <= seen
    /\ pc # "down" /\ starts = 1 => droppedCount = Cardinality(Dropped)

IInv == TypeOK /\ Ordered /\ Stopping /\ Located /\ Counted
-------------------------------------------------------------------------------
LEMMA DroppedFinite == IsFiniteSet(Dropped) /\ Cardinality(Dropped) \in Nat
<1>1. IsFiniteSet(Records)
  BY BoundsAssumption, FS_Interval DEF Records
<1>2. Dropped \subseteq Records
  BY DEF Dropped
<1>3. QED
  BY <1>1, <1>2, FS_Subset, FS_CardinalityType

\* What a sequence holds after something was appended to it.
LEMMA Appended ==
    ASSUME NEW S, NEW s \in Seq(S), NEW x \in S, NEW t, t = Append(s, x)
    PROVE  /\ t \in Seq(S)
           /\ DOMAIN s = 1..Len(s) /\ Len(s) \in Nat
           /\ DOMAIN t = 1..(Len(s) + 1) /\ Len(t) = Len(s) + 1
           /\ \A i \in DOMAIN s : t[i] = s[i] /\ i \in DOMAIN t
           /\ t[Len(s) + 1] = x
           /\ \A i \in DOMAIN t : i \in DOMAIN s \/ i = Len(s) + 1
OBVIOUS

\* The count stays right as long as the set of dropped records stays.
LEMMA SameDropped ==
    ASSUME Counted, Dropped' = Dropped, UNCHANGED <<droppedCount, seen, starts>>,
           pc # "down"
    PROVE  Counted'
BY DEF Counted

\* What TypeOK says of the items, as numbers.
LEMMA Numbers ==
    ASSUME TypeOK
    PROVE  /\ DOMAIN file = 1..Len(file) /\ Len(file) \in Nat
           /\ \A i \in DOMAIN file : file[i] \in Fragment /\ file[i].rec \in Records
           /\ \A i \in DOMAIN file : file[i].rec \in Int
           /\ DOMAIN queue = 1..Len(queue) /\ Len(queue) \in Nat
           /\ \A i \in DOMAIN queue : queue[i] \in Int
           /\ hand \in Int /\ seen \in Nat /\ droppedCount \in Nat
           /\ Records \subseteq Int
<1>1. \A i \in DOMAIN file : file[i] \in Fragment
  BY DEF TypeOK
<1>2. \A x \in Fragment : x.rec \in Records
  BY DEF Fragment, Unfinished
<1>3. Records \subseteq Int
  BY DEF Records
<1>4. QED
  BY <1>1, <1>2, <1>3, BoundsAssumption DEF TypeOK, Nothing, SENTINEL

LEMMA InitIInv == Init => IInv
<1> SUFFICES ASSUME Init PROVE IInv
  OBVIOUS
<1>1. TypeOK
  BY BoundsAssumption DEF Init, TypeOK, Fates, Nothing
<1>2. Ordered /\ Stopping /\ Located
  BY DEF Init, Ordered, Stopping, Located, InQueue, Records, Nothing
<1>3. Dropped = {}
  BY DEF Init, Dropped
<1>4. Counted
  BY <1>3, FS_EmptySet DEF Init, Counted
<1>5. QED
  BY <1>1, <1>2, <1>4 DEF IInv

LEMMA EnqueueIInv == IInv /\ Enqueue => IInv'
<1> SUFFICES ASSUME IInv, Enqueue PROVE IInv'
  OBVIOUS
<1> USE DEF IInv
<1>1. seen + 1 \in Records /\ seen' = seen + 1 /\ seen \in Nat
  BY BoundsAssumption DEF TypeOK, Enqueue, Records
<1>2. CASE Full
  <2>1. queue' = queue /\ droppedCount' = droppedCount + 1
        /\ fate' = [fate EXCEPT ![seen + 1] = "dropped"]
        /\ UNCHANGED <<pc, writer, hand, file, starts>>
    BY <1>2 DEF Enqueue, Becomes
  <2>2. TypeOK'
    BY <1>1, <2>1, BoundsAssumption DEF TypeOK, Counted, Records, Fates
  <2>3. Ordered' /\ Stopping'
    <3>1. Stopping'
      BY <2>1 DEF Stopping, InQueue
    <3>2. \A i \in DOMAIN queue : queue[i] \in Int
      BY DEF TypeOK, Records, SENTINEL
    <3>3. \A i \in DOMAIN file : file[i].rec \in Int
      BY Numbers
    <3>4. hand \in Int
      BY DEF TypeOK, Records, Nothing
    <3>5. Ordered'
      BY <1>1, <2>1, <3>2, <3>3, <3>4 DEF Ordered
    <3>6. QED
      BY <3>1, <3>5
  <2>4. fate[seen + 1] = "new"
    BY <1>1 DEF Located
  <2>5. Located'
    BY <1>1, <2>1, <2>4 DEF TypeOK, Located, InQueue, Records, Line
  <2>6. Dropped' = Dropped \cup {seen + 1} /\ seen + 1 \notin Dropped
    BY <1>1, <2>1, <2>4 DEF Dropped, TypeOK
  <2>7. Cardinality(Dropped') = Cardinality(Dropped) + 1
    BY <2>6, DroppedFinite, FS_AddElement
  <2>8. Counted'
    BY <1>1, <2>1, <2>7 DEF Counted, TypeOK
  <2>9. QED
    BY <2>2, <2>3, <2>5, <2>8
<1>3. CASE ~Full
  <2>1. queue' = Append(queue, seen + 1) /\ droppedCount' = droppedCount
        /\ fate' = [fate EXCEPT ![seen + 1] = "pending"]
        /\ pc = "serving" /\ UNCHANGED <<pc, writer, hand, file, starts>>
    BY <1>3 DEF Enqueue, Becomes
  <2>2. TypeOK'
    BY <1>1, <2>1, BoundsAssumption DEF TypeOK, Records, Fates
  <2>0. /\ DOMAIN queue' = 1..(Len(queue) + 1) /\ Len(queue) \in Nat
        /\ \A i \in DOMAIN queue : queue'[i] = queue[i] /\ i \in DOMAIN queue'
        /\ queue'[Len(queue) + 1] = seen + 1 /\ Len(queue) + 1 \in DOMAIN queue'
        /\ \A i \in DOMAIN queue' : i \in DOMAIN queue \/ i = Len(queue) + 1
    BY <2>1, <1>1, Appended DEF TypeOK
  <2>3. \A r : InQueue(r)' <=> InQueue(r) \/ r = seen + 1
    BY <2>0 DEF InQueue
  <2>4. ~InQueue(SENTINEL) /\ \A i \in DOMAIN queue : queue[i] # SENTINEL /\ queue[i] <= seen
    BY <2>1 DEF Stopping, Ordered, InQueue
  <2>5. hand < seen + 1
    BY <1>1 DEF TypeOK, Ordered, Nothing, Records
  <2>6. Ordered'
    <3>1. \A i \in DOMAIN file : file[i].rec \in Int /\ file[i].rec < seen + 1
      BY <1>1, Numbers DEF Ordered
    <3>2. \A i \in DOMAIN queue : queue[i] \in Int
      BY DEF TypeOK, Records, SENTINEL
    <3>3. DOMAIN queue = 1..Len(queue)
      BY DEF TypeOK
    <3>4. \A i, j \in DOMAIN queue' : i < j =>
             queue'[i] # SENTINEL /\ (queue'[j] # SENTINEL => queue'[i] < queue'[j])
      BY <1>1, <2>0, <2>4, <3>2, <3>3 DEF Ordered
    <3>5. \A i \in DOMAIN queue' : queue'[i] # SENTINEL =>
             /\ queue'[i] <= seen' /\ hand' < queue'[i]
             /\ \A j \in DOMAIN file' : file'[j].rec < queue'[i]
      BY <1>1, <2>0, <2>1, <2>4, <2>5, <3>1, <3>2 DEF Ordered
    <3>6. hand \in Int
      BY DEF TypeOK, Records, Nothing
    <3>7. QED
      BY <1>1, <2>1, <3>1, <3>4, <3>5, <3>6 DEF Ordered
  <2>7. Stopping'
    BY <1>1, <2>1, <2>3 DEF TypeOK, Stopping, Records, SENTINEL
  <2>8. fate[seen + 1] = "new"
    BY <1>1 DEF Located
  <2>9. ~(\E i \in DOMAIN file : file[i] = Line(seen + 1))
    BY <1>1, <2>8 DEF Located
  <2>10. Located'
    BY <1>1, <2>1, <2>3, <2>8, <2>9 DEF TypeOK, Located, Records, Line
  <2>11. Dropped' = Dropped
    BY <1>1, <2>1, <2>8 DEF Dropped, TypeOK
  <2>12. Counted'
    BY <1>1, <2>1, <2>11 DEF Counted, TypeOK
  <2>13. QED
    BY <2>2, <2>6, <2>7, <2>10, <2>12
<1>4. QED
  BY <1>2, <1>3

LEMMA WriterGetIInv == IInv /\ WriterGet => IInv'
<1> SUFFICES ASSUME IInv, WriterGet PROVE IInv'
  OBVIOUS
<1> USE Numbers DEF IInv
<1>0. PICK x : x = queue[1]
  OBVIOUS
<1>1. /\ queue # <<>> /\ Len(queue) >= 1 /\ 1 \in DOMAIN queue
      /\ writer = "get" /\ pc # "down" /\ hand = Nothing
      /\ UNCHANGED <<pc, droppedCount, file, seen, fate, starts>>
      /\ Head(queue) = x
  BY <1>0 DEF WriterGet, Stopping, TypeOK
<1>2. /\ queue' \in Seq(Records \cup {SENTINEL}) /\ DOMAIN queue' = 1..(Len(queue) - 1)
      /\ \A i \in DOMAIN queue' : queue'[i] = queue[i + 1] /\ i + 1 \in DOMAIN queue
      /\ \A i \in DOMAIN queue : i # 1 => i - 1 \in DOMAIN queue' /\ queue'[i - 1] = queue[i]
      /\ Len(queue') = Len(queue) - 1
  BY <1>1 DEF WriterGet, TypeOK
<1>3. \A r : InQueue(r) <=> InQueue(r)' \/ r = x
  <2>1. \A r : InQueue(r)' => InQueue(r)
    BY <1>2 DEF InQueue
  <2>2. \A r : InQueue(r) => InQueue(r)' \/ r = x
    BY <1>0, <1>2 DEF InQueue
  <2>3. InQueue(x)
    BY <1>0, <1>1 DEF InQueue
  <2>4. QED
    BY <2>1, <2>2, <2>3
<1>4. ~InQueue(x)'
  <2>1. \A i \in DOMAIN queue' : queue[i + 1] # x
    BY <1>0, <1>1, <1>2 DEF Ordered
  <2>2. QED
    BY <2>1, <1>2 DEF InQueue
<1>5. \A i, j \in DOMAIN queue' : i < j =>
         queue'[i] # SENTINEL /\ (queue'[j] # SENTINEL => queue'[i] < queue'[j])
  <2>1. ASSUME NEW i \in DOMAIN queue', NEW j \in DOMAIN queue', i < j
        PROVE  queue'[i] # SENTINEL /\ (queue'[j] # SENTINEL => queue'[i] < queue'[j])
    <3>1. i + 1 \in DOMAIN queue /\ j + 1 \in DOMAIN queue /\ i + 1 < j + 1
      BY <1>2, <2>1
    <3>2. QED
      BY <3>1, <1>2 DEF Ordered
  <2>2. QED
    BY <2>1
<1>6. Counted'
  BY <1>1 DEF Counted, Dropped
<1>7. CASE x = SENTINEL
  <2>1. writer' = "ended" /\ hand' = hand
    BY <1>1, <1>7 DEF WriterGet
  <2>2. queue' = <<>>
    <3>1. Len(queue) = 1
      BY <1>0, <1>1, <1>7 DEF Ordered
    <3>2. QED
      BY <3>1, <1>2
  <2>3. TypeOK'
    BY <1>1, <1>2, <2>1 DEF TypeOK
  <2>4. Ordered'
    BY <1>1, <2>1, <2>2 DEF Ordered
  <2>5. pc \in {"join", "stopped"}
    BY <1>3, <1>7 DEF Stopping
  <2>6. Stopping'
    BY <1>1, <2>1, <2>2, <2>5 DEF Stopping, InQueue
  <2>7. \A r \in Records : InQueue(r) <=> InQueue(r)'
    BY <1>3, <1>7 DEF Records, SENTINEL
  <2>8. Located'
    BY <1>1, <2>1, <2>7 DEF Located
  <2>9. QED
    BY <1>6, <2>3, <2>4, <2>6, <2>8
<1>8. CASE x # SENTINEL
  <2>1. writer' = "append" /\ hand' = x
    BY <1>1, <1>8 DEF WriterGet
  <2>2. x \in Records
    BY <1>0, <1>1, <1>8 DEF TypeOK
  <2>3. TypeOK'
    BY <1>1, <1>2, <2>1, <2>2 DEF TypeOK
  <2>4. x <= seen /\ \A j \in DOMAIN file : file[j].rec < x
    BY <1>0, <1>1, <1>8 DEF Ordered
  <2>5. \A i \in DOMAIN queue' : queue'[i] # SENTINEL =>
           /\ queue'[i] <= seen /\ x < queue'[i]
           /\ \A j \in DOMAIN file : file[j].rec < queue'[i]
    <3>1. ASSUME NEW i \in DOMAIN queue', queue'[i] # SENTINEL
          PROVE  /\ queue'[i] <= seen /\ x < queue'[i]
                 /\ \A j \in DOMAIN file : file[j].rec < queue'[i]
      <4>1. i + 1 \in DOMAIN queue /\ 1 < i + 1 /\ queue'[i] = queue[i + 1]
        BY <1>2
      <4>2. QED
        BY <1>0, <1>1, <3>1, <4>1 DEF Ordered
    <3>2. QED
      BY <3>1
  <2>6. Ordered'
    BY <1>1, <1>5, <2>1, <2>4, <2>5 DEF Ordered
  <2>7. x # Nothing
    BY <2>2 DEF Records, Nothing
  <2>8. Stopping'
    BY <1>1, <1>3, <2>1, <2>7 DEF Stopping
  <2>9. \A r \in Records : r # hand
    BY <1>1 DEF Records, Nothing
  <2>10. Located'
    BY <1>1, <1>3, <2>1, <2>9 DEF Located
  <2>11. QED
    BY <1>6, <2>3, <2>6, <2>8, <2>10
<1>9. QED
  BY <1>7, <1>8

\* The file after the writer has put a fragment behind the others.
LEMMA FileAppended ==
    ASSUME TypeOK, Ordered, hand # Nothing, NEW part \in {"line"} \cup Unfinished,
           file' = Append(file, [rec |-> hand, part |-> part])
    PROVE  /\ file' \in Seq(Fragment)
           /\ \A i, j \in DOMAIN file' : i < j => file'[i].rec < file'[j].rec
           /\ \A i \in DOMAIN file' : file'[i].rec <= seen
           /\ \A i \in DOMAIN queue : queue[i] # SENTINEL =>
                 \A j \in DOMAIN file' : file'[j].rec < queue[i]
           /\ \A r \in Records : (\E i \in DOMAIN file' : file'[i] = Line(r)) <=>
                 (\E i \in DOMAIN file : file[i] = Line(r)) \/ (r = hand /\ part = "line")
<1> DEFINE x == [rec |-> hand, part |-> part]
<1> USE Numbers
<1>1. hand \in Records /\ x \in Fragment /\ x.rec = hand
  BY DEF TypeOK, Fragment, Unfinished
<1>2. /\ file' \in Seq(Fragment)
      /\ DOMAIN file' = 1..(Len(file) + 1)
      /\ \A i \in DOMAIN file : file'[i] = file[i] /\ i \in DOMAIN file'
      /\ file'[Len(file) + 1] = x /\ Len(file) + 1 \in DOMAIN file'
      /\ \A i \in DOMAIN file' : i \in DOMAIN file \/ i = Len(file) + 1
  <2>1. file \in Seq(Fragment)
    BY DEF TypeOK
  <2>2. QED
    BY <1>1, <2>1, Appended
<1>3. \A r : x = Line(r) <=> r = hand /\ part = "line"
  BY DEF Line
<1> HIDE DEF x
<1>4. \A i \in DOMAIN file : file'[i].rec < hand
  BY <1>2 DEF Ordered
<1>5. \A i, j \in DOMAIN file' : i < j => file'[i].rec < file'[j].rec
  BY <1>1, <1>2, <1>4 DEF Ordered
<1>6. \A i \in DOMAIN file' : file'[i].rec <= seen
  BY <1>1, <1>2 DEF Ordered
<1>7. \A i \in DOMAIN queue : queue[i] # SENTINEL =>
         \A j \in DOMAIN file' : file'[j].rec < queue[i]
  BY <1>1, <1>2 DEF Ordered
<1>8. \A r \in Records : (\E i \in DOMAIN file' : file'[i] = Line(r)) <=>
         (\E i \in DOMAIN file : file[i] = Line(r)) \/ (r = hand /\ part = "line")
  BY <1>2, <1>3
<1>9. QED
  BY <1>2, <1>5, <1>6, <1>7, <1>8

LEMMA WriterAppendIInv == IInv /\ WriterAppend => IInv'
<1> SUFFICES ASSUME IInv, WriterAppend PROVE IInv'
  OBVIOUS
<1> USE Numbers DEF IInv
<1>1. /\ pc # "down" /\ writer = "append" /\ hand # Nothing /\ hand \in Records
      /\ writer' = "get" /\ hand' = Nothing
      /\ UNCHANGED <<pc, queue, droppedCount, seen, starts>>
  BY DEF WriterAppend, Stopping, TypeOK
<1>2. fate[hand] = "pending"
  BY <1>1 DEF Located
<1>3. ~InQueue(hand)
  BY <1>1 DEF Ordered, InQueue, Records, SENTINEL
<1>4. \A r : InQueue(r)' <=> InQueue(r)
  BY <1>1 DEF InQueue
<1>5. ~(\E i \in DOMAIN file : file[i] = Line(hand))
  BY <1>1, <1>2 DEF Located
<1>6. Stopping'
  BY <1>1, <1>4 DEF Stopping
<1>7. ASSUME NEW part \in {"line"} \cup Unfinished,
             file' = Append(file, [rec |-> hand, part |-> part]),
             NEW f \in {"written", "failed"}, f = "written" <=> part = "line",
             fate' = [fate EXCEPT ![hand] = f]
      PROVE  IInv'
  <2>1. TypeOK'
    <3>1. file' \in Seq(Fragment)
      BY <1>1, <1>7, FileAppended
    <3>2. fate' \in [Records -> Fates]
      BY <1>1, <1>7 DEF TypeOK, Fates
    <3>3. QED
      BY <1>1, <3>1, <3>2 DEF TypeOK
  <2>2. \A i \in DOMAIN queue : queue[i] # SENTINEL => Nothing < queue[i]
    BY DEF TypeOK, Records, SENTINEL, Nothing
  <2>3. Ordered'
    BY <1>1, <1>7, <2>2, FileAppended DEF Ordered
  <2>4. ASSUME NEW r \in Records
        PROVE  /\ fate'[r] = "new" <=> r > seen
               /\ fate'[r] = "written" <=> \E i \in DOMAIN file' : file'[i] = Line(r)
               /\ fate'[r] = "pending" <=> r = Nothing \/ InQueue(r)
    <3>1. (\E i \in DOMAIN file' : file'[i] = Line(r)) <=>
             (\E i \in DOMAIN file : file[i] = Line(r)) \/ (r = hand /\ part = "line")
      BY <1>1, <1>7, FileAppended
    <3>2. r # Nothing
      BY DEF Records, Nothing
    <3>3. CASE r = hand
      BY <1>1, <1>2, <1>3, <1>5, <1>7, <3>1, <3>2, <3>3 DEF Located, TypeOK
    <3>4. CASE r # hand
      <4>1. fate'[r] = fate[r]
        BY <1>7, <3>4 DEF TypeOK
      <4>2. QED
        BY <3>1, <3>2, <3>4, <4>1 DEF Located
    <3>5. QED
      BY <3>3, <3>4
  <2>5. Located'
    BY <1>1, <1>4, <2>4 DEF Located
  <2>6. Dropped' = Dropped
    BY <1>1, <1>2, <1>7 DEF Dropped, TypeOK
  <2>7. Counted'
    BY <1>1, <2>6 DEF Counted
  <2>8. QED
    BY <1>6, <2>1, <2>3, <2>5, <2>7
<1>8. CASE UNCHANGED file /\ Becomes(hand, "failed")
  <2>1. fate' = [fate EXCEPT ![hand] = "failed"] /\ file' = file
    BY <1>8 DEF Becomes
  <2>2. TypeOK'
    BY <1>1, <2>1 DEF TypeOK, Fates
  <2>3. \A i \in DOMAIN queue : queue[i] # SENTINEL => Nothing < queue[i]
    BY DEF TypeOK, Records, SENTINEL, Nothing
  <2>4. Ordered'
    BY <1>1, <2>1, <2>3 DEF Ordered
  <2>5. ASSUME NEW r \in Records
        PROVE  /\ fate'[r] = "new" <=> r > seen
               /\ fate'[r] = "written" <=> \E i \in DOMAIN file : file[i] = Line(r)
               /\ fate'[r] = "pending" <=> r = Nothing \/ InQueue(r)
    <3>1. r # Nothing
      BY DEF Records, Nothing
    <3>2. CASE r = hand
      BY <1>1, <1>2, <1>3, <1>5, <2>1, <3>1, <3>2 DEF Located, TypeOK
    <3>3. CASE r # hand
      <4>1. fate'[r] = fate[r]
        BY <2>1, <3>3 DEF TypeOK
      <4>2. QED
        BY <3>1, <3>3, <4>1 DEF Located
    <3>4. QED
      BY <3>2, <3>3
  <2>6. Located'
    BY <1>1, <1>4, <2>1, <2>5 DEF Located
  <2>7. Dropped' = Dropped
    BY <1>1, <1>2, <2>1 DEF Dropped, TypeOK
  <2>8. Counted'
    BY <1>1, <2>7 DEF Counted
  <2>9. QED
    BY <1>6, <2>2, <2>4, <2>6, <2>8
<1>9. QED
  BY <1>7, <1>8 DEF WriterAppend, Written, Torn, Unfinished, Becomes

\* The steps of stop() that leave the queue alone.
LEMMA StopIInv == IInv /\ (Stop \/ PutTimeout \/ JoinReturns) => IInv'
<1> SUFFICES ASSUME IInv, Stop \/ PutTimeout \/ JoinReturns PROVE IInv'
  OBVIOUS
<1>1. /\ UNCHANGED <<queue, writer, hand, droppedCount, file, seen, fate, starts>>
      /\ pc # "down" /\ pc' \in {"put", "join", "stopped"}
      /\ pc \in {"join", "stopped"} => pc' \in {"join", "stopped"}
      /\ pc = "serving" \/ pc = "put" \/ pc = "join"
  BY DEF Stop, PutTimeout, JoinReturns
<1>2. TypeOK' /\ Ordered'
  BY <1>1 DEF IInv, TypeOK, Ordered
<1>3. Stopping' /\ Located'
  BY <1>1 DEF IInv, Stopping, Located, InQueue
<1>4. Counted'
  BY <1>1 DEF IInv, Counted, Dropped
<1>5. QED
  BY <1>2, <1>3, <1>4 DEF IInv

LEMMA PutSentinelIInv == IInv /\ PutSentinel => IInv'
<1> SUFFICES ASSUME IInv, PutSentinel PROVE IInv'
  OBVIOUS
<1> USE Numbers DEF IInv
<1>1. /\ pc = "put" /\ pc' = "join" /\ queue' = Append(queue, SENTINEL)
      /\ UNCHANGED <<writer, hand, droppedCount, file, seen, fate, starts>>
  BY DEF PutSentinel
<1>2. /\ queue' \in Seq(Records \cup {SENTINEL})
      /\ DOMAIN queue' = 1..(Len(queue) + 1)
      /\ \A i \in DOMAIN queue : queue'[i] = queue[i] /\ i \in DOMAIN queue'
      /\ queue'[Len(queue) + 1] = SENTINEL /\ Len(queue) + 1 \in DOMAIN queue'
      /\ \A i \in DOMAIN queue' : i \in DOMAIN queue \/ i = Len(queue) + 1
  BY <1>1, Appended DEF TypeOK
<1>3. \A r : InQueue(r)' <=> InQueue(r) \/ r = SENTINEL
  BY <1>2 DEF InQueue
<1>4. TypeOK'
  BY <1>1, <1>2 DEF TypeOK
<1>5. \A i \in DOMAIN queue : queue[i] # SENTINEL
  BY <1>1 DEF Stopping, InQueue
<1>6. \A i, j \in DOMAIN queue' : i < j =>
         queue'[i] # SENTINEL /\ (queue'[j] # SENTINEL => queue'[i] < queue'[j])
  BY <1>2, <1>5 DEF Ordered
<1>7. \A i \in DOMAIN queue' : queue'[i] # SENTINEL =>
         /\ queue'[i] <= seen /\ hand < queue'[i]
         /\ \A j \in DOMAIN file : file[j].rec < queue'[i]
  BY <1>2, <1>5 DEF Ordered
<1>8. Ordered'
  BY <1>1, <1>6, <1>7 DEF Ordered
<1>9. Stopping'
  BY <1>1, <1>3 DEF Stopping
<1>10. \A r \in Records : r # SENTINEL
  BY DEF Records, SENTINEL
<1>11. Located'
  BY <1>1, <1>3, <1>10 DEF Located
<1>12. Counted'
  BY <1>1 DEF Counted, Dropped
<1>13. QED
  BY <1>4, <1>8, <1>9, <1>11, <1>12

LEMMA DieIInv == IInv /\ Die => IInv'
<1> SUFFICES ASSUME IInv, Die PROVE IInv'
  OBVIOUS
<1> USE Numbers DEF IInv
<1>1. /\ pc' = "down" /\ queue' = <<>> /\ hand' = Nothing /\ writer' = "ended"
      /\ UNCHANGED <<droppedCount, seen, starts>>
  BY DEF Die
<1>2. Stopping' /\ Counted'
  BY <1>1 DEF Stopping, Counted, InQueue
<1>3. \A r : ~InQueue(r)'
  BY <1>1 DEF InQueue
<1>4. \A r \in Records : r # Nothing
  BY DEF Records, Nothing
<1>5. CASE /\ fate' = [r \in Records |-> IF fate[r] = "pending" THEN "lost" ELSE fate[r]]
           /\ file' = file
  <2>1. TypeOK'
    BY <1>1, <1>5 DEF TypeOK, Fates, Nothing
  <2>2. Ordered'
    BY <1>1, <1>5 DEF Ordered
  <2>3. Located'
    BY <1>1, <1>3, <1>4, <1>5 DEF Located
  <2>4. QED
    BY <1>2, <2>1, <2>2, <2>3
<1>6. ASSUME writer = "append", NEW part \in {"line"} \cup Unfinished,
             file' = Append(file, [rec |-> hand, part |-> part]),
             fate' = [r \in Records |->
                IF r = hand /\ part = "line" THEN "written"
                ELSE IF fate[r] = "pending" THEN "lost" ELSE fate[r]]
      PROVE  IInv'
  <2>1. hand # Nothing /\ hand \in Records
    BY <1>6 DEF Stopping, TypeOK
  <2>2. TypeOK'
    <3>1. file' \in Seq(Fragment)
      BY <1>6, <2>1, FileAppended
    <3>2. fate' \in [Records -> Fates]
      BY <1>6 DEF TypeOK, Fates
    <3>3. QED
      BY <1>1, <3>1, <3>2 DEF TypeOK, Nothing
  <2>3. Ordered'
    BY <1>1, <1>6, <2>1, FileAppended DEF Ordered
  <2>4. fate[hand] = "pending"
    BY <2>1 DEF Located
  <2>5. \A r \in Records : (\E i \in DOMAIN file' : file'[i] = Line(r)) <=>
           (\E i \in DOMAIN file : file[i] = Line(r)) \/ (r = hand /\ part = "line")
    BY <1>6, <2>1, FileAppended
  <2>6. ASSUME NEW r \in Records
        PROVE  /\ fate'[r] = "new" <=> r > seen
               /\ fate'[r] = "written" <=> \E i \in DOMAIN file' : file'[i] = Line(r)
               /\ fate'[r] # "pending"
    BY <1>6, <2>1, <2>4, <2>5 DEF Located
  <2>7. Located'
    BY <1>1, <1>3, <1>4, <2>6 DEF Located
  <2>8. QED
    BY <1>2, <2>2, <2>3, <2>7
<1>7. \/ /\ fate' = [r \in Records |-> IF fate[r] = "pending" THEN "lost" ELSE fate[r]]
         /\ \/ file' = file
            \/ writer = "append" /\ Torn(hand)
      \/ /\ writer = "append" /\ Written(hand)
         /\ fate' = [r \in Records |->
                IF r = hand THEN "written"
                ELSE IF fate[r] = "pending" THEN "lost" ELSE fate[r]]
  BY DEF Die
<1>8. CASE /\ fate' = [r \in Records |-> IF fate[r] = "pending" THEN "lost" ELSE fate[r]]
           /\ writer = "append" /\ Torn(hand)
  <2>1. PICK part \in Unfinished : file' = Append(file, [rec |-> hand, part |-> part])
    BY <1>8 DEF Torn
  <2>2. fate' = [r \in Records |->
                IF r = hand /\ part = "line" THEN "written"
                ELSE IF fate[r] = "pending" THEN "lost" ELSE fate[r]]
    BY <1>8, <2>1 DEF Unfinished
  <2>3. QED
    BY <1>6, <1>8, <2>1, <2>2
<1>9. CASE /\ writer = "append" /\ Written(hand)
           /\ fate' = [r \in Records |->
                IF r = hand THEN "written"
                ELSE IF fate[r] = "pending" THEN "lost" ELSE fate[r]]
  <2>1. file' = Append(file, [rec |-> hand, part |-> "line"])
    BY <1>9 DEF Written
  <2>2. fate' = [r \in Records |->
                IF r = hand /\ "line" = "line" THEN "written"
                ELSE IF fate[r] = "pending" THEN "lost" ELSE fate[r]]
    BY <1>9
  <2>3. QED
    BY <1>6, <1>9, <2>1, <2>2
<1>10. QED
  BY <1>5, <1>7, <1>8, <1>9

LEMMA StartIInv == IInv /\ Start => IInv'
<1> SUFFICES ASSUME IInv, Start PROVE IInv'
  OBVIOUS
<1> USE Numbers DEF IInv
<1>1. /\ pc = "down" /\ pc' = "serving" /\ writer' = "get" /\ queue' = <<>>
      /\ hand' = Nothing /\ droppedCount' = 0 /\ starts' = starts + 1 /\ starts < MaxStarts
      /\ queue = <<>> /\ hand = Nothing
      /\ UNCHANGED <<file, seen, fate>>
  BY DEF Start, Stopping
<1>2. TypeOK'
  BY <1>1, BoundsAssumption DEF TypeOK
<1>3. Ordered' /\ Stopping'
  BY <1>1 DEF Ordered, Stopping, InQueue
<1>4. Located'
  BY <1>1 DEF Located, InQueue
<1>5. Counted'
  BY <1>1 DEF Counted, TypeOK
<1>6. QED
  BY <1>2, <1>3, <1>4, <1>5

LEMMA StepIInv == IInv /\ [Next]_auditVars => IInv'
<1> SUFFICES ASSUME IInv, [Next]_auditVars PROVE IInv'
  OBVIOUS
<1>1. CASE UNCHANGED auditVars
  BY <1>1 DEF auditVars, IInv, TypeOK, Ordered, Stopping, Located, Counted, Dropped, InQueue
<1>2. CASE Finished
  BY <1>1, <1>2 DEF Finished
<1>3. QED
  BY <1>1, <1>2, EnqueueIInv, WriterGetIInv, WriterAppendIInv, StopIInv, PutSentinelIInv,
     DieIInv, StartIInv DEF Next, StopStep

LEMMA Invariance == Spec => []IInv
BY InitIInv, StepIInv, PTL DEF Spec
-------------------------------------------------------------------------------
\* No record vanishes silently, for any capacity and any number of records and
\* processes: queue, hand, file, counter and history agree on each of them.
THEOREM RecordsAccounted == Spec => []EveryRecordAccounted
<1>1. IInv => EveryRecordAccounted
  <2> SUFFICES ASSUME IInv PROVE EveryRecordAccounted
    OBVIOUS
  <2> USE Numbers DEF IInv
  <2>1. ASSUME NEW r \in Records, r = hand
        PROVE  ~(\E i \in DOMAIN queue : queue[i] = r)
    BY <2>1 DEF Ordered, Records, SENTINEL
  <2>2. ASSUME NEW r \in Records
        PROVE  fate[r] = "pending" <=> (r = hand) # (\E i \in DOMAIN queue : queue[i] = r)
    <3>1. fate[r] = "pending" <=> r = hand \/ (\E i \in DOMAIN queue : queue[i] = r)
      BY DEF Located, InQueue
    <3>2. CASE r = hand
      BY <2>1, <3>1, <3>2, Zenon
    <3>3. CASE r # hand
      BY <3>1, <3>3, Zenon
    <3>4. QED
      BY <3>2, <3>3
  <2>3. pc # "down" /\ starts = 1
           => droppedCount = Cardinality({r \in Records : fate[r] = "dropped"})
    BY DEF Counted, Dropped
  <2>4. QED
    BY <2>2, <2>3 DEF EveryRecordAccounted, Located, Line
<1>2. QED
  BY <1>1, Invariance, PTL

\* After a stop that returned with the writer ended, nothing is left behind: the
\* sentinel is the last item of the queue, and it is the last one taken.
THEOREM StopDrains == Spec => []CleanStopDrains
<1>1. IInv => CleanStopDrains
  <2> SUFFICES ASSUME IInv, pc = "stopped", writer = "ended"
               PROVE  queue = <<>> /\ \A r \in Records : fate[r] # "pending"
    BY DEF CleanStopDrains
  <2>1. queue = <<>> /\ hand = Nothing
    BY DEF IInv, Stopping
  <2>2. \A r \in Records : r # hand
    BY <2>1 DEF Records, Nothing
  <2>3. QED
    BY <2>1, <2>2 DEF IInv, Located, InQueue
<1>2. QED
  BY <1>1, Invariance, PTL
-------------------------------------------------------------------------------
(* What a reader gets: the recursive function in RecordsAt *)

\* Induction over the natural numbers, with a set in place of the predicate.
LEMMA Induction ==
    ASSUME NEW T, 0 \in T, \A n \in Nat : n \in T => n + 1 \in T
    PROVE  \A n \in Nat : n \in T
<1> SUFFICES ASSUME Nat \ T # {} PROVE FALSE
  OBVIOUS
<1>1. PICK m \in Nat \ T : \A k \in Nat \ T : ~(<<k, m>> \in OpToRel(<, Nat))
  BY WFMin, NatLessThanWellFounded
<1>2. m \in Nat /\ m # 0
  OBVIOUS
<1>3. m - 1 \in Nat /\ m - 1 < m /\ (m - 1) + 1 = m
  BY <1>2
<1>4. <<m - 1, m>> \in OpToRel(<, Nat)
  <2>1. <<m - 1, m>> \in Nat \X Nat /\ <<m - 1, m>>[1] < <<m - 1, m>>[2]
    BY <1>2, <1>3
  <2>2. QED
    BY <2>1, Zenon DEF OpToRel
<1>5. m - 1 \in T
  BY <1>1, <1>3, <1>4
<1>6. (m - 1) + 1 \in T
  BY <1>3, <1>5
<1>7. QED
  BY <1>3, <1>6

\* What the fragment at place i adds to the records s of those before it.
Extended(f, places, i, s) == IF i \in places THEN Append(s, f[i].rec) ELSE s

\* up[i] holds the records of the first i fragments.
UpTo(f, places, n, up) ==
    up = [i \in 0..n |->
             IF i = 0 THEN <<>>
             ELSE IF i \in places THEN Append(up[i - 1], f[i].rec)
             ELSE up[i - 1]]

LEMMA UpToFirst ==
    ASSUME NEW f, NEW P, NEW n \in Nat, NEW u, UpTo(f, P, n, u)
    PROVE  u[0] = <<>>
<1>1. 0 \in 0..n
  OBVIOUS
<1>2. QED
  BY <1>1 DEF UpTo

LEMMA UpToNext ==
    ASSUME NEW f, NEW P, NEW n \in Nat, NEW u, UpTo(f, P, n, u),
           NEW h \in Nat, NEW i \in 1..n, i = h + 1
    PROVE  u[i] = Extended(f, P, i, u[h])
<1>1. i \in 0..n /\ i # 0 /\ h = i - 1
  OBVIOUS
<1>2. \A j \in 0..n : u[j] = IF j = 0 THEN <<>>
                            ELSE IF j \in P THEN Append(u[j - 1], f[j].rec)
                            ELSE u[j - 1]
  BY DEF UpTo
<1>3. QED
  BY <1>1, <1>2 DEF Extended

LEMMA UpToExists ==
    ASSUME NEW f, NEW places, NEW n \in Nat
    PROVE  \E up : UpTo(f, places, n, up)
<1> DEFINE T == {k \in Nat : \E up : UpTo(f, places, k, up)}
<1>1. 0 \in T
  <2>1. UpTo(f, places, 0, [i \in 0..0 |-> <<>>])
    BY DEF UpTo
  <2>2. QED
    BY <2>1
<1>2. ASSUME NEW k \in Nat, k \in T
      PROVE  k + 1 \in T
  <2>1. PICK up : UpTo(f, places, k, up)
    BY <1>2
  <2> DEFINE next == IF k + 1 \in places THEN Append(up[k], f[k + 1].rec) ELSE up[k]
             new == [i \in 0..(k + 1) |-> IF i = k + 1 THEN next ELSE up[i]]
  <2>2. \A i \in 0..k : up[i] = IF i = 0 THEN <<>>
                               ELSE IF i \in places THEN Append(up[i - 1], f[i].rec)
                               ELSE up[i - 1]
    BY <2>1 DEF UpTo
  <2>3. \A i \in 0..(k + 1) : new[i] = IF i = 0 THEN <<>>
                               ELSE IF i \in places THEN Append(new[i - 1], f[i].rec)
                               ELSE new[i - 1]
    <3>1. ASSUME NEW i \in 0..(k + 1), i = k + 1
          PROVE  new[i] = next /\ i # 0 /\ new[i - 1] = up[k]
      BY <3>1
    <3>2. ASSUME NEW i \in 0..(k + 1), i # k + 1
          PROVE  new[i] = up[i] /\ i \in 0..k /\ (i # 0 => new[i - 1] = up[i - 1])
      BY <3>2
    <3> HIDE DEF new
    <3>3. QED
      BY <3>1, <3>2, <2>2
  <2>4. new = [i \in 0..(k + 1) |-> new[i]]
    OBVIOUS
  <2> HIDE DEF new
  <2>5. UpTo(f, places, k + 1, new)
    BY <2>3, <2>4, Zenon DEF UpTo
  <2>6. QED
    BY <2>5
<1> HIDE DEF T
<1>3. n \in T
  BY <1>1, <1>2, Induction
<1>4. QED
  BY <1>3 DEF T

\* It looks at no fragment or place behind the k-th.
LEMMA UpToAgree ==
    ASSUME NEW f, NEW g, NEW P, NEW Q, NEW m \in Nat, NEW n \in Nat, NEW u, NEW v,
           UpTo(f, P, m, u), UpTo(g, Q, n, v),
           NEW k \in Nat, k <= m, k <= n,
           \A i \in 1..k : f[i].rec = g[i].rec /\ (i \in P <=> i \in Q)
    PROVE  u[k] = v[k]
<1> DEFINE T == {i \in Nat : i <= k => u[i] = v[i]}
<1>1. 0 \in T
  BY UpToFirst
<1>2. ASSUME NEW i \in Nat, i \in T
      PROVE  i + 1 \in T
  <2> SUFFICES ASSUME i + 1 <= k PROVE u[i + 1] = v[i + 1]
    OBVIOUS
  <2>1. i + 1 \in 1..m /\ i + 1 \in 1..n /\ i + 1 \in 1..k /\ (i + 1) - 1 = i
    OBVIOUS
  <2>2. u[i] = v[i]
    BY <1>2
  <2>3. u[i + 1] = Extended(f, P, i + 1, u[i])
    BY <2>1, UpToNext
  <2>4. v[i + 1] = Extended(g, Q, i + 1, v[i])
    BY <2>1, UpToNext
  <2>5. Extended(f, P, i + 1, u[i]) = Extended(g, Q, i + 1, u[i])
    BY <2>1 DEF Extended
  <2>6. QED
    BY <2>1, <2>2, <2>3, <2>4, <2>5
<1> HIDE DEF T
<1>3. k \in T
  BY <1>1, <1>2, Induction
<1>4. QED
  BY <1>3 DEF T

LEMMA RecordsAtUpTo ==
    ASSUME NEW f, Len(f) \in Nat, NEW places
    PROVE  \E up : UpTo(f, places, Len(f), up) /\ RecordsAt(f, places) = up[Len(f)]
<1>1. \E up : UpTo(f, places, Len(f), up)
  BY UpToExists
<1>2. QED
  BY <1>1 DEF UpTo, RecordsAt

LEMMA RecordsAtEmpty == ASSUME NEW places PROVE RecordsAt(<<>>, places) = <<>>
<1>1. Len(<<>>) = 0
  OBVIOUS
<1>2. PICK up : UpTo(<<>>, places, 0, up) /\ RecordsAt(<<>>, places) = up[0]
  BY <1>1, RecordsAtUpTo
<1>3. QED
  BY <1>2, UpToFirst

\* What is found depends on the records and the places up to the end only.
LEMMA RecordsAtSame ==
    ASSUME NEW f, Len(f) \in Nat, NEW P, NEW Q,
           \A i \in 1..Len(f) : i \in P <=> i \in Q
    PROVE  RecordsAt(f, P) = RecordsAt(f, Q)
<1>1. PICK u : UpTo(f, P, Len(f), u) /\ RecordsAt(f, P) = u[Len(f)]
  BY RecordsAtUpTo
<1>2. PICK v : UpTo(f, Q, Len(f), v) /\ RecordsAt(f, Q) = v[Len(f)]
  BY RecordsAtUpTo
<1>3. u[Len(f)] = v[Len(f)]
  BY <1>1, <1>2, UpToAgree
<1>4. QED
  BY <1>1, <1>2, <1>3

\* A fragment more.
LEMMA UpToAppend ==
    ASSUME NEW f, NEW g, NEW P, NEW Q, NEW n \in Nat, NEW u, NEW v,
           UpTo(f, P, n, u), UpTo(g, Q, n + 1, v),
           \A i \in 1..n : f[i].rec = g[i].rec /\ (i \in P <=> i \in Q)
    PROVE  v[n + 1] = Extended(g, Q, n + 1, u[n])
<1>1. n + 1 \in Nat /\ n <= n + 1 /\ n <= n
  OBVIOUS
<1>2. u[n] = v[n]
  BY <1>1, UpToAgree
<1>3. n + 1 \in 1..(n + 1) /\ (n + 1) - 1 = n
  OBVIOUS
<1>4. v[n + 1] = Extended(g, Q, n + 1, v[n])
  BY <1>1, <1>3, UpToNext
<1>5. QED
  BY <1>2, <1>3, <1>4

LEMMA RecordsAtAppend ==
    ASSUME NEW f, NEW g, Len(f) \in Nat, Len(g) = Len(f) + 1,
           \A i \in 1..Len(f) : g[i] = f[i],
           NEW P, NEW Q, \A i \in 1..Len(f) : i \in P <=> i \in Q
    PROVE  RecordsAt(g, Q) = Extended(g, Q, Len(g), RecordsAt(f, P))
<1>1. PICK u : UpTo(f, P, Len(f), u) /\ RecordsAt(f, P) = u[Len(f)]
  BY RecordsAtUpTo
<1>2. Len(g) \in Nat
  OBVIOUS
<1>3. PICK v : UpTo(g, Q, Len(g), v) /\ RecordsAt(g, Q) = v[Len(g)]
  BY <1>2, RecordsAtUpTo
<1>4. v[Len(f) + 1] = Extended(g, Q, Len(f) + 1, u[Len(f)])
  BY <1>1, <1>3, UpToAppend
<1>5. QED
  BY <1>1, <1>3, <1>4

\* Without the place of the last fragment.
LEMMA UpToWithoutLast ==
    ASSUME NEW f, NEW P, NEW Q, NEW k \in Nat, NEW n \in Nat, n = k + 1, NEW u, NEW v,
           UpTo(f, P, n, u), UpTo(f, Q, n, v), n \notin Q,
           \A i \in 1..k : i \in P <=> i \in Q
    PROVE  u[n] = Extended(f, P, n, v[n])
<1>1. k <= n /\ n \in 1..n
  OBVIOUS
<1>2. u[k] = v[k]
  BY <1>1, UpToAgree
<1>3. u[n] = Extended(f, P, n, u[k])
  BY <1>1, UpToNext
<1>4. v[n] = Extended(f, Q, n, v[k])
  BY <1>1, UpToNext
<1>5. Extended(f, Q, n, v[k]) = v[k]
  BY DEF Extended
<1>6. QED
  BY <1>2, <1>3, <1>4, <1>5

LEMMA RecordsAtWithoutLast ==
    ASSUME NEW f, Len(f) \in Nat, Len(f) # 0, NEW P, NEW Q, Len(f) \notin Q,
           \A i \in 1..(Len(f) - 1) : i \in P <=> i \in Q
    PROVE  RecordsAt(f, P) = Extended(f, P, Len(f), RecordsAt(f, Q))
<1>1. PICK u : UpTo(f, P, Len(f), u) /\ RecordsAt(f, P) = u[Len(f)]
  BY RecordsAtUpTo
<1>2. PICK v : UpTo(f, Q, Len(f), v) /\ RecordsAt(f, Q) = v[Len(f)]
  BY RecordsAtUpTo
<1>3. PICK k \in Nat : k = Len(f) - 1
  OBVIOUS
<1>4. k \in Nat /\ Len(f) = k + 1 /\ \A i \in 1..k : i \in P <=> i \in Q
  BY <1>3
<1>5. u[Len(f)] = Extended(f, P, Len(f), v[Len(f)])
  BY <1>1, <1>2, <1>4, UpToWithoutLast
<1>6. QED
  BY <1>1, <1>2, <1>5

\* A sequence of records, each that of a fragment at one of the places.
Found(f, P, s) ==
    /\ s \in Seq(Records)
    /\ \A k \in DOMAIN s : \E i \in DOMAIN f : i \in P /\ s[k] = f[i].rec

LEMMA FoundAppend ==
    ASSUME NEW f \in Seq(Fragment), NEW P, NEW s, Found(f, P, s),
           NEW i \in DOMAIN f, i \in P
    PROVE  Found(f, P, Append(s, f[i].rec))
<1>1. f[i].rec \in Records
  <2>1. f[i] \in Fragment
    OBVIOUS
  <2>2. QED
    BY <2>1 DEF Fragment, Unfinished
<1> DEFINE x == f[i].rec
           t == Append(s, x)
<1>2. s \in Seq(Records)
  BY DEF Found
<1>3. /\ t \in Seq(Records)
      /\ \A k \in DOMAIN t : (k \in DOMAIN s /\ t[k] = s[k]) \/ t[k] = x
  <2> HIDE DEF x
  <2> USE <1>1 DEF x
  <2>1. x \in Records
    OBVIOUS
  <2> HIDE DEF x
  <2>2. QED
    BY <1>2, <2>1
<1> HIDE DEF t
<1>4. \A k \in DOMAIN t : \E j \in DOMAIN f : j \in P /\ t[k] = f[j].rec
  BY <1>3 DEF Found
<1>5. QED
  BY <1>3, <1>4 DEF Found, t

LEMMA RecordsAtFound ==
    ASSUME NEW f \in Seq(Fragment), NEW P
    PROVE  Found(f, P, RecordsAt(f, P))
<1>1. PICK n \in Nat : n = Len(f)
  OBVIOUS
<1>2. DOMAIN f = 1..n
  BY <1>1
<1>3. PICK u : UpTo(f, P, n, u) /\ RecordsAt(f, P) = u[n]
  BY <1>1, RecordsAtUpTo
<1> DEFINE T == {i \in Nat : i <= n => Found(f, P, u[i])}
<1>4. 0 \in T
  <2>1. u[0] = <<>>
    BY <1>3, UpToFirst
  <2>2. Found(f, P, <<>>)
    BY DEF Found
  <2>3. QED
    BY <2>1, <2>2
<1>5. ASSUME NEW i \in Nat, i \in T
      PROVE  i + 1 \in T
  <2> SUFFICES ASSUME i + 1 <= n PROVE Found(f, P, u[i + 1])
    OBVIOUS
  <2>1. i <= n /\ i + 1 \in DOMAIN f /\ i + 1 \in 1..n /\ (i + 1) - 1 = i
    BY <1>2
  <2>2. Found(f, P, u[i])
    BY <1>5, <2>1
  <2>3. u[i + 1] = Extended(f, P, i + 1, u[i])
    BY <1>3, <2>1, UpToNext
  <2>4. Found(f, P, Extended(f, P, i + 1, u[i]))
    BY <2>1, <2>2, FoundAppend DEF Extended
  <2>5. QED
    BY <2>1, <2>3, <2>4
<1> HIDE DEF T
<1>6. n \in T
  BY <1>4, <1>5, Induction
<1>7. QED
  BY <1>3, <1>6 DEF T
-------------------------------------------------------------------------------
\* One step changes the file at most by one fragment of what the writer holds,
\* and enqueue counts one call at most.
LEMMA FileStep ==
    ASSUME TypeOK, Stopping, [Next]_auditVars
    PROVE  \/ file' = file /\ seen' \in {seen, seen + 1}
           \/ /\ seen' = seen /\ hand \in Records
              /\ \E part \in {"line"} \cup Unfinished :
                    file' = Append(file, [rec |-> hand, part |-> part])
<1>1. CASE Enqueue
  BY <1>1 DEF Enqueue
<1>2. CASE WriterGet \/ Stop \/ StopStep \/ Start \/ Finished \/ UNCHANGED auditVars
  BY <1>2 DEF WriterGet, Stop, StopStep, PutSentinel, PutTimeout, JoinReturns, Start,
              Finished, auditVars
<1>3. writer = "append" => hand \in Records
  BY DEF TypeOK, Stopping
<1>4. CASE WriterAppend
  BY <1>3, <1>4 DEF WriterAppend, Written, Torn, Unfinished
<1>5. CASE Die
  BY <1>3, <1>5 DEF Die, Written, Torn, Unfinished
<1>6. QED
  BY <1>1, <1>2, <1>4, <1>5 DEF Next

\* The places of the lines a reader finds once the newline is there, and the
\* log that the abstract specification sees.
Lines == {i \in DOMAIN file : Parses(i) /\ file[i].part = "line"}
Log == RecordsAt(file, Lines)

\* What is in the log is older than what the writer holds.
LEMMA LogOlder ==
    ASSUME TypeOK, Ordered, hand \in Records
    PROVE  \A k \in DOMAIN Log : Log[k] < hand
<1>1. file \in Seq(Fragment)
  BY DEF TypeOK
<1>2. \A k \in DOMAIN Log : \E i \in DOMAIN file : Log[k] = file[i].rec
  BY <1>1, RecordsAtFound DEF Found, Log
<1>3. hand # Nothing
  BY DEF Records, Nothing
<1>4. QED
  BY <1>2, <1>3 DEF Ordered

LEMMA LogAppend ==
    ASSUME TypeOK, NEW x \in Fragment, file' = Append(file, x)
    PROVE  Log' = Log \/ Log' = Append(Log, x.rec)
<1>1. /\ file \in Seq(Fragment) /\ file' \in Seq(Fragment)
      /\ Len(file) \in Nat /\ Len(file') = Len(file) + 1
      /\ DOMAIN file = 1..Len(file) /\ DOMAIN file' = 1..(Len(file) + 1)
      /\ \A i \in 1..Len(file) : file'[i] = file[i]
      /\ file'[Len(file')] = x
  BY DEF TypeOK
<1>2. \A i \in 1..Len(file) : Parses(i)' /\ file'[i].part = "line"
                          <=> Parses(i) /\ file[i].part = "line"
  <2> SUFFICES ASSUME NEW i \in 1..Len(file)
               PROVE  Parses(i)' /\ file'[i].part = "line"
                          <=> Parses(i) /\ file[i].part = "line"
    OBVIOUS
  <2>1. file'[i] = file[i] /\ (i # 1 => file'[i - 1] = file[i - 1])
    BY <1>1
  <2>2. QED
    BY <2>1 DEF Parses
<1>3. \A i \in 1..Len(file) : i \in Lines <=> i \in Lines'
  BY <1>1, <1>2 DEF Lines
<1>4. Log' = Extended(file', Lines', Len(file'), Log)
  BY <1>1, <1>3, RecordsAtAppend DEF Log
<1>5. QED
  BY <1>1, <1>4 DEF Extended

\* Every step of the audit log is one of the ledger: a call of enqueue is an
\* offer, a finished line behind a finished line is kept, the rest stutters.
LEMMA LedgerStep ==
    IInv /\ [Next]_auditVars => [LedgerOfCalls!Next]_<<seen, Log>>
<1> SUFFICES ASSUME IInv, [Next]_auditVars
             PROVE  [LedgerOfCalls!Next]_<<seen, Log>>
  OBVIOUS
<1> USE DEF IInv
<1>1. CASE file' = file /\ seen' \in {seen, seen + 1}
  <2>1. Log' = Log
    BY <1>1 DEF Log, Lines, Parses
  <2>2. QED
    BY <1>1, <2>1 DEF LedgerOfCalls!Next, LedgerOfCalls!Offer, Log, Lines
<1>2. ASSUME seen' = seen, hand \in Records, NEW part \in {"line"} \cup Unfinished,
             file' = Append(file, [rec |-> hand, part |-> part])
      PROVE  [LedgerOfCalls!Next]_<<seen, Log>>
  <2>1. [rec |-> hand, part |-> part] \in Fragment
    BY <1>2 DEF Fragment, Unfinished
  <2>2. Log' = Log \/ Log' = Append(Log, hand)
    BY <1>2, <2>1, LogAppend
  <2>3. hand \in 1..seen
    BY <1>2, Numbers DEF Ordered, Records, Nothing
  <2>4. \A k \in DOMAIN Log : Log[k] < hand
    BY <1>2, LogOlder
  <2>5. CASE Log' = Append(Log, hand)
    <3>1. LedgerOfCalls!Keep(hand)
      BY <1>2, <2>3, <2>4, <2>5 DEF LedgerOfCalls!Keep, Log, Lines
    <3>2. QED
      BY <2>3, <3>1 DEF LedgerOfCalls!Next
  <2>6. QED
    BY <1>2, <2>2, <2>5
<1>3. QED
  BY <1>1, <1>2, FileStep

\* The audit log implements the ledger: what can be read in the file, across all
\* processes, is only ever appended to, with records of calls already made and
\* behind those of all earlier calls.
THEOREM ImplementsLedger == Spec => LedgerSpec
<1>1. Init => LedgerOfCalls!Init
  BY RecordsAtEmpty DEF Init, LedgerOfCalls!Init
<1>2. IInv /\ [Next]_auditVars => [LedgerOfCalls!Next]_(LedgerOfCalls!ledgerVars)
  BY LedgerStep DEF LedgerOfCalls!ledgerVars, Log, Lines
<1>3. QED
  BY <1>1, <1>2, Invariance, PTL DEF Spec, LedgerSpec, LedgerOfCalls!Spec
-------------------------------------------------------------------------------
(* Paging                                                                     *)

PageOf(s, offset, limit) == SubSeq(s, offset + 1, Min({offset + limit, Len(s)}))

LEMMA MinOfTwo ==
    ASSUME NEW a \in Int, NEW b \in Int
    PROVE  Min({a, b}) = IF a <= b THEN a ELSE b
BY DEF Min

\* A full page ends at offset + limit.
LEMMA FullPage ==
    ASSUME NEW S, NEW s \in Seq(S), NEW offset \in Nat, NEW limit \in Nat, limit # 0,
           Len(PageOf(s, offset, limit)) = limit
    PROVE  /\ offset + limit <= Len(s)
           /\ PageOf(s, offset, limit) = SubSeq(s, offset + 1, offset + limit)
           /\ Last(PageOf(s, offset, limit)) = s[offset + limit]
<1> DEFINE from == offset + 1
           upto == Min({offset + limit, Len(s)})
<1>1. Len(s) \in Nat /\ upto = IF offset + limit <= Len(s) THEN offset + limit ELSE Len(s)
  BY MinOfTwo
<1>2. from \in Nat /\ upto \in Nat /\ from >= 1 /\ upto <= Len(s)
  BY <1>1
<1> HIDE DEF from, upto
<1>3. \A i \in from..upto : s[i] \in S
  BY <1>2
<1>4. /\ Len(SubSeq(s, from, upto)) = IF from <= upto THEN upto - from + 1 ELSE 0
      /\ \A i \in 1..(upto - from + 1) : SubSeq(s, from, upto)[i] = s[from + i - 1]
  BY <1>2, <1>3, SubSeqProperties
<1>5. PageOf(s, offset, limit) = SubSeq(s, from, upto)
  BY DEF PageOf, from, upto
<1>6. upto - from + 1 = limit
  BY <1>4, <1>5
<1>7. upto = offset + limit
  BY <1>2, <1>6 DEF from
<1>8. offset + limit <= Len(s)
  BY <1>2, <1>7
<1>9. PageOf(s, offset, limit)[limit] = s[offset + limit]
  <2>1. limit \in 1..(upto - from + 1)
    BY <1>6
  <2>2. SubSeq(s, from, upto)[limit] = s[from + limit - 1]
    BY <1>4, <2>1
  <2>3. from + limit - 1 = offset + limit
    BY DEF from
  <2>4. QED
    BY <1>5, <2>2, <2>3
<1>10. QED
  BY <1>5, <1>7, <1>8, <1>9 DEF from, Last

\* It stays what it is when what lies behind it changes.
LEMMA SamePage ==
    ASSUME NEW S, NEW s \in Seq(S), NEW t \in Seq(S),
           NEW offset \in Nat, NEW limit \in Nat, limit # 0,
           Len(PageOf(s, offset, limit)) = limit,
           offset + limit <= Len(t),
           \A i \in 1..(offset + limit) : t[i] = s[i]
    PROVE  PageOf(t, offset, limit) = PageOf(s, offset, limit)
<1> DEFINE from == offset + 1
           upto == offset + limit
<1>1. upto <= Len(s) /\ PageOf(s, offset, limit) = SubSeq(s, from, upto)
  BY FullPage
<1>2. PageOf(t, offset, limit) = SubSeq(t, from, upto)
  <2>1. PICK a \in Int, b \in Int : a = offset + limit /\ b = Len(t) /\ a <= b
    OBVIOUS
  <2>2. Min({a, b}) = a
    BY <2>1, MinOfTwo
  <2>3. QED
    BY <2>1, <2>2 DEF PageOf
<1>3. from \in Int /\ upto \in Int /\ from >= 1 /\ upto <= Len(t)
  OBVIOUS
<1>4. \A i \in from..upto : t[i] = s[i] /\ s[i] \in S /\ t[i] \in S
  <2>1. \A i \in from..upto : i \in 1..(offset + limit) /\ i \in 1..Len(s)
    BY <1>1
  <2>2. \A i \in 1..Len(s) : s[i] \in S
    OBVIOUS
  <2> HIDE DEF from, upto
  <2>3. QED
    BY <2>1, <2>2, Zenon
<1> HIDE DEF from, upto
<1>5. /\ SubSeq(s, from, upto) \in Seq(S)
      /\ Len(SubSeq(s, from, upto)) = IF from <= upto THEN upto - from + 1 ELSE 0
      /\ \A i \in 1..(upto - from + 1) : SubSeq(s, from, upto)[i] = s[from + i - 1]
  BY <1>3, <1>4, SubSeqProperties
<1>6. /\ SubSeq(t, from, upto) \in Seq(S)
      /\ Len(SubSeq(t, from, upto)) = IF from <= upto THEN upto - from + 1 ELSE 0
      /\ \A i \in 1..(upto - from + 1) : SubSeq(t, from, upto)[i] = t[from + i - 1]
  BY <1>3, <1>4, SubSeqProperties
<1>7. \A i \in 1..(upto - from + 1) : s[from + i - 1] = t[from + i - 1]
  BY <1>3, <1>4
<1>8. SubSeq(t, from, upto) = SubSeq(s, from, upto)
  <2> DEFINE a == SubSeq(t, from, upto)
             b == SubSeq(s, from, upto)
  <2>1. a \in Seq(S) /\ b \in Seq(S) /\ Len(a) = Len(b)
    BY <1>5, <1>6
  <2>2. \A i \in 1..Len(b) : a[i] = b[i]
    BY <1>3, <1>5, <1>6, <1>7
  <2> HIDE DEF a, b
  <2>3. a = b
    BY <2>1, <2>2, SeqEqual
  <2>4. QED
    BY <2>3 DEF a, b
<1>9. QED
  BY <1>1, <1>2, <1>8

\* A record more at the end, or one less there, leaves the pages before it.
LEMMA PageBefore ==
    ASSUME NEW S, NEW s \in Seq(S), NEW x \in S, NEW offset \in Nat, NEW limit \in Nat,
           limit # 0, Len(PageOf(s, offset, limit)) = limit
    PROVE  PageOf(Append(s, x), offset, limit) = PageOf(s, offset, limit)
<1>1. PICK t \in Seq(S) : t = Append(s, x)
  <2>1. Append(s, x) \in Seq(S)
    OBVIOUS
  <2>2. QED
    BY <2>1
<1>2. Len(t) = Len(s) + 1 /\ \A i \in 1..Len(s) : t[i] = s[i]
  BY <1>1
<1>3. offset + limit <= Len(s)
  BY FullPage
<1>4. offset + limit <= Len(t) /\ \A i \in 1..(offset + limit) : t[i] = s[i]
  BY <1>2, <1>3
<1>5. PageOf(t, offset, limit) = PageOf(s, offset, limit)
  BY <1>4, SamePage
<1>6. QED
  BY <1>1, <1>5

LEMMA PageWithoutLast ==
    ASSUME NEW S, NEW s \in Seq(S), NEW x \in S, NEW offset \in Nat, NEW limit \in Nat,
           limit # 0, Len(PageOf(Append(s, x), offset, limit)) = limit,
           Last(PageOf(Append(s, x), offset, limit)) # x
    PROVE  PageOf(s, offset, limit) = PageOf(Append(s, x), offset, limit)
<1>1. PICK t \in Seq(S) : t = Append(s, x)
  <2>1. Append(s, x) \in Seq(S)
    OBVIOUS
  <2>2. QED
    BY <2>1
<1>2. Len(t) = Len(s) + 1 /\ t[Len(s) + 1] = x /\ \A i \in 1..Len(s) : s[i] = t[i]
  BY <1>1
<1>3. Len(PageOf(t, offset, limit)) = limit /\ Last(PageOf(t, offset, limit)) # x
  BY <1>1
<1>4. offset + limit <= Len(t) /\ Last(PageOf(t, offset, limit)) = t[offset + limit]
  BY <1>3, FullPage
<1>5. offset + limit # Len(s) + 1
  BY <1>2, <1>3, <1>4
<1>6. offset + limit <= Len(s) /\ \A i \in 1..(offset + limit) : s[i] = t[i]
  BY <1>2, <1>4, <1>5
<1>7. PageOf(s, offset, limit) = PageOf(t, offset, limit)
  BY <1>3, <1>6, SamePage
<1>8. QED
  BY <1>1, <1>7

\* What a page of the listing becomes when a fragment is appended: the listing
\* grows by at most one record, unless its last one lacked the newline.
LEMMA ListedAppend ==
    ASSUME TypeOK, NEW x \in Fragment, file' = Append(file, x), NEW filter,
           ~(file # <<>> /\ Last(file).part = "bare" /\ Len(file) \in FoundAt(filter))
    PROVE  Listed(filter)' = Listed(filter) \/ Listed(filter)' = Append(Listed(filter), x.rec)
<1>1. /\ Len(file) \in Nat /\ Len(file') = Len(file) + 1
      /\ DOMAIN file = 1..Len(file) /\ DOMAIN file' = 1..(Len(file) + 1)
      /\ \A i \in 1..Len(file) : file'[i] = file[i]
      /\ file'[Len(file')] = x
      /\ Last(file) = file[Len(file)]
  BY DEF TypeOK, Last
<1>2. \A i \in 1..Len(file) : i \in FoundAt(filter) <=> i \in FoundAt(filter)'
  <2> SUFFICES ASSUME NEW i \in 1..Len(file)
               PROVE  i \in FoundAt(filter) <=> i \in FoundAt(filter)'
    OBVIOUS
  <2>1. file'[i] = file[i] /\ (i # 1 => file'[i - 1] = file[i - 1])
    BY <1>1
  <2>2. i \in DOMAIN file /\ i \in DOMAIN file' /\ i # Len(file')
    BY <1>1
  <2>3. CASE file[i].part = "bare"
    <3>1. i \notin FoundAt(filter)'
      BY <2>1, <2>2, <2>3 DEF FoundAt, Parses
    <3>2. i \notin FoundAt(filter)
      <4>1. i \in FoundAt(filter) => i = Len(file)
        BY <2>3 DEF FoundAt, Parses
      <4>2. file # <<>>
        BY <1>1
      <4>3. QED
        BY <1>1, <2>3, <4>1, <4>2
    <3>3. QED
      BY <3>1, <3>2
  <2>4. CASE file[i].part # "bare"
    BY <2>1, <2>2, <2>4 DEF FoundAt, Parses
  <2>5. QED
    BY <2>3, <2>4
<1>3. Listed(filter)' = Extended(file', FoundAt(filter)', Len(file'), Listed(filter))
  BY <1>1, <1>2, RecordsAtAppend DEF Listed
<1>4. QED
  BY <1>1, <1>3 DEF Extended

\* An append behind a record that lacks its newline takes this record away.
LEMMA ListedGlued ==
    ASSUME TypeOK, NEW x \in Fragment, file' = Append(file, x), NEW filter,
           file # <<>>, Last(file).part = "bare", Len(file) \in FoundAt(filter)
    PROVE  Listed(filter) = Append(Listed(filter)', Last(file).rec)
<1>1. /\ Len(file) \in Nat /\ Len(file) # 0 /\ Len(file') = Len(file) + 1
      /\ DOMAIN file = 1..Len(file) /\ DOMAIN file' = 1..(Len(file) + 1)
      /\ \A i \in 1..Len(file) : file'[i] = file[i]
      /\ Last(file) = file[Len(file)]
  BY DEF TypeOK, Last
<1> DEFINE rest == FoundAt(filter) \ {Len(file)}
<1>2. \A i \in 1..Len(file) : i \in rest <=> i \in FoundAt(filter)'
  <2> SUFFICES ASSUME NEW i \in 1..Len(file)
               PROVE  i \in rest <=> i \in FoundAt(filter)'
    OBVIOUS
  <2>1. file'[i] = file[i] /\ (i # 1 => file'[i - 1] = file[i - 1])
    BY <1>1
  <2>2. i \in DOMAIN file /\ i \in DOMAIN file' /\ i # Len(file')
    BY <1>1
  <2>3. CASE file[i].part = "bare"
    <3>1. i \notin FoundAt(filter)'
      BY <2>1, <2>2, <2>3 DEF FoundAt, Parses
    <3>2. i \notin rest
      BY <1>1, <2>3 DEF FoundAt, Parses
    <3>3. QED
      BY <3>1, <3>2
  <2>4. CASE file[i].part # "bare"
    <3>1. i # Len(file)
      BY <1>1, <2>4
    <3>2. QED
      BY <2>1, <2>2, <2>4, <3>1 DEF FoundAt, Parses
  <2>5. QED
    BY <2>3, <2>4
<1>3. Len(file') \notin FoundAt(filter)'
  <2>1. Len(file) \in 1..Len(file) /\ Len(file') - 1 = Len(file) /\ Len(file') # 1
    BY <1>1
  <2>2. file'[Len(file') - 1].part = "bare"
    BY <1>1, <2>1
  <2>3. QED
    BY <2>1, <2>2 DEF FoundAt, Parses
<1>4. Len(file) \notin rest /\ \A i \in 1..(Len(file) - 1) : i \in FoundAt(filter) <=> i \in rest
  OBVIOUS
<1> HIDE DEF rest
<1>5. Listed(filter)' = Extended(file', FoundAt(filter)', Len(file'), RecordsAt(file, rest))
  BY <1>1, <1>2, RecordsAtAppend DEF Listed
<1>6. Listed(filter) = Extended(file, FoundAt(filter), Len(file), RecordsAt(file, rest))
  BY <1>1, <1>4, RecordsAtWithoutLast DEF Listed
<1>7. QED
  BY <1>1, <1>3, <1>5, <1>6 DEF Extended

\* A full page stays where it is while the log is written, torn, stopped and
\* started again.
LEMMA PageStays ==
    ASSUME IInv, [Next]_auditVars,
           NEW filter \in Filters, NEW offset \in 0..MaxRecords, NEW limit \in 1..MaxRecords,
           Len(Page(filter, offset, limit)) = limit,
           Last(file) # [rec |-> Last(Page(filter, offset, limit)), part |-> "bare"]
    PROVE  Page(filter, offset, limit)' = Page(filter, offset, limit)
<1>1. offset \in Nat /\ limit \in Nat /\ limit # 0
  BY BoundsAssumption
<1>2. PICK s \in Seq(Records) : s = Listed(filter)
  <2>1. file \in Seq(Fragment)
    BY DEF IInv, TypeOK
  <2>2. Listed(filter) \in Seq(Records)
    BY <2>1, RecordsAtFound DEF Found, Listed
  <2>3. QED
    BY <2>2
<1>3. Page(filter, offset, limit) = PageOf(s, offset, limit)
  BY <1>2 DEF Page, PageOf
<1>4. Page(filter, offset, limit)' = PageOf(Listed(filter)', offset, limit)
  BY DEF Page, PageOf
<1>5. CASE file' = file
  BY <1>5 DEF Page, Listed, FoundAt, Parses
<1>6. ASSUME hand \in Records, NEW part \in {"line"} \cup Unfinished,
             file' = Append(file, [rec |-> hand, part |-> part])
      PROVE  Page(filter, offset, limit)' = Page(filter, offset, limit)
  <2>1. [rec |-> hand, part |-> part] \in Fragment
    BY <1>6 DEF Fragment, Unfinished
  <2>2. CASE file # <<>> /\ Last(file).part = "bare" /\ Len(file) \in FoundAt(filter)
    <3>1. PICK t \in Seq(Records) : t = Listed(filter)'
      <4>1. file' \in Seq(Fragment)
        BY <1>6, <2>1 DEF IInv, TypeOK
      <4>2. Listed(filter)' \in Seq(Records)
        BY <4>1, RecordsAtFound DEF Found, Listed
      <4>3. QED
        BY <4>2
    <3>2. Last(file) \in Fragment
      BY <2>2 DEF IInv, TypeOK, Last
    <3>3. PICK x \in Records : x = Last(file).rec /\ Last(file) = [rec |-> x, part |-> "bare"]
      BY <2>2, <3>2 DEF Fragment, Unfinished
    <3>4. s = Append(t, x)
      BY <1>2, <1>6, <2>1, <2>2, <3>1, <3>3, ListedGlued DEF IInv
    <3>5. Len(PageOf(Append(t, x), offset, limit)) = limit
          /\ Last(PageOf(Append(t, x), offset, limit)) # x
      BY <1>3, <3>3, <3>4
    <3>6. PageOf(t, offset, limit) = PageOf(Append(t, x), offset, limit)
      BY <1>1, <3>5, PageWithoutLast
    <3>7. QED
      BY <1>3, <1>4, <3>1, <3>4, <3>6
  <2>3. CASE ~(file # <<>> /\ Last(file).part = "bare" /\ Len(file) \in FoundAt(filter))
    <3>1. Listed(filter)' = s \/ Listed(filter)' = Append(s, hand)
      BY <1>2, <1>6, <2>1, <2>3, ListedAppend DEF IInv
    <3>2. PageOf(Append(s, hand), offset, limit) = PageOf(s, offset, limit)
      BY <1>1, <1>3, <1>6, PageBefore
    <3>3. QED
      BY <1>3, <1>4, <3>1, <3>2
  <2>4. QED
    BY <2>2, <2>3
<1>7. QED
  BY <1>5, <1>6, FileStep DEF IInv

\* A character that was cut stays cut.
LEMMA CutForGood == IInv /\ [Next]_auditVars /\ ~Decodes => ~Decodes'
<1> SUFFICES ASSUME IInv, [Next]_auditVars, ~Decodes PROVE ~Decodes'
  OBVIOUS
<1>1. PICK i \in DOMAIN file : file[i].part = "cut"
  BY DEF Decodes
<1>2. i \in DOMAIN file' /\ file'[i] = file[i]
  <2>1. CASE file' = file
    BY <2>1
  <2>2. ASSUME hand \in Records, NEW part \in {"line"} \cup Unfinished,
               file' = Append(file, [rec |-> hand, part |-> part])
        PROVE  i \in DOMAIN file' /\ file'[i] = file[i]
    BY <2>2 DEF IInv, TypeOK
  <2>3. QED
    BY <2>1, <2>2, FileStep DEF IInv
<1>3. QED
  BY <1>1, <1>2 DEF Decodes

\* A reader who pages through the log while it is written, torn, stopped and
\* started again finds a full page unchanged, in any log and for any filter, as
\* far as it gets an answer; it gets none any more once a character was cut.
THEOREM PagesStable == Spec => FullPageStable
<1> DEFINE Served(filter, offset, limit) ==
              [status |-> 200, records |-> Page(filter, offset, limit)]
           Step(filter, offset, limit) ==
              /\ \A reply \in Replies(filter, offset, limit) :
                    LET page == reply.records
                    IN  Len(page) = limit /\ Last(file) # [rec |-> Last(page), part |-> "bare"]
                            => /\ \A later \in Replies(filter, offset, limit)' :
                                     later.records \in {page, <<>>}
                               /\ Decodes' => reply \in Replies(filter, offset, limit)'
              /\ ~Decodes => \A later \in Replies(filter, offset, limit)' : later.records = <<>>
           Stable == \A filter \in Filters, offset \in 0..MaxRecords, limit \in 1..MaxRecords :
                        Step(filter, offset, limit)
<1>1. ASSUME IInv, [Next]_auditVars,
             NEW filter \in Filters, NEW offset \in 0..MaxRecords, NEW limit \in 1..MaxRecords
      PROVE  Step(filter, offset, limit)
  <2>1. ~Decodes => \A later \in Replies(filter, offset, limit)' : later.records = <<>>
    BY <1>1, CutForGood DEF Replies
  <2>2. ASSUME NEW reply \in Replies(filter, offset, limit), Len(reply.records) = limit,
               Last(file) # [rec |-> Last(reply.records), part |-> "bare"]
        PROVE  /\ \A later \in Replies(filter, offset, limit)' :
                     later.records \in {reply.records, <<>>}
               /\ Decodes' => reply \in Replies(filter, offset, limit)'
    <3>1. reply.records # <<>>
      BY <2>2
    <3>2. reply = Served(filter, offset, limit)
      BY <2>2, <3>1 DEF Replies
    <3>3. reply.records = Page(filter, offset, limit)
      BY <3>2
    <3>4. Page(filter, offset, limit)' = Page(filter, offset, limit)
      BY <1>1, <2>2, <3>3, PageStays
    <3>5. QED
      BY <3>2, <3>3, <3>4 DEF Replies
  <2>3. QED
    BY <2>1, <2>2
<1>2. IInv /\ [Next]_auditVars => [Stable]_auditVars
  BY <1>1
<1>3. QED
  BY <1>2, Invariance, PTL DEF Spec, FullPageStable
===============================================================================
