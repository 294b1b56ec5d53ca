-------------------------- MODULE SemanticCacheProofs --------------------------
(***************************************************************************)
(* Theorems about SemanticCache, for any prompts, scopes and stores and    *)
(* any number of processes.                                                *)
(***************************************************************************)
EXTENDS SemanticCache, FiniteSetTheorems, TLAPS
-------------------------------------------------------------------------------
(* What remove_ids leaves: the recursive function in Without *)

Vector == [id : Nat, prompt : Prompts]

Unique(x) == \A i, j \in DOMAIN x : x[i].id = x[j].id => i = j

\* Induction over the natural numbers, with a set in place of the predicate.
LEMMA Induction ==
    ASSUME NEW T, 0 \in T, \A n \in Nat : n \in T => n + 1 \in T
    PROVE  \A n \in Nat : n \in T
<1> SUFFICES ASSUME Nat \ T # {} PROVE FALSE
  OBVIOUS
<1>1. PICK m \in Nat \ T : \A k \in Nat \ T : ~(<<k, m>> \in OpToRel(<, Nat))
  BY WFMin, NatLessThanWellFounded
<1>0. m \in Nat /\ m # 0
  OBVIOUS
<1>2. m - 1 \in Nat /\ m - 1 < m /\ (m - 1) + 1 = m
  BY <1>0
<1>3. <<m - 1, m>> \in OpToRel(<, Nat)
  <2>1. <<m - 1, m>> \in Nat \X Nat /\ <<m - 1, m>>[1] < <<m - 1, m>>[2]
    BY <1>0, <1>2
  <2>2. QED
    BY <2>1, Zenon DEF OpToRel
<1>4. QED
  BY <1>0, <1>1, <1>2, <1>3

\* What the vector at place i adds to those before it.
Extended(x, ids, i, s) == IF x[i].id \in ids THEN s ELSE Append(s, x[i])

\* rest[i] holds what is left of the first i vectors.
UpTo(x, ids, n, rest) ==
    rest = [i \in 0..n |->
             IF i = 0 THEN <<>>
             ELSE IF x[i].id \in ids THEN rest[i - 1]
             ELSE Append(rest[i - 1], x[i])]

LEMMA UpToFirst ==
    ASSUME NEW x, NEW ids, NEW n \in Nat, NEW u, UpTo(x, ids, n, u)
    PROVE  u[0] = <<>>
<1>1. 0 \in 0..n
  OBVIOUS
<1>2. QED
  BY <1>1 DEF UpTo

LEMMA UpToNext ==
    ASSUME NEW x, NEW ids, NEW n \in Nat, NEW u, UpTo(x, ids, n, u),
           NEW h \in Nat, NEW i \in 1..n, i = h + 1
    PROVE  u[i] = Extended(x, ids, i, u[h])
<1>1. i \in 0..n /\ i # 0 /\ h = i - 1
  OBVIOUS
<1>2. \A j \in 0..n : u[j] = IF j = 0 THEN <<>>
                            ELSE IF x[j].id \in ids THEN u[j - 1]
                            ELSE Append(u[j - 1], x[j])
  BY DEF UpTo
<1>3. QED
  BY <1>1, <1>2 DEF Extended

LEMMA UpToExists ==
    ASSUME NEW x, NEW ids, NEW n \in Nat
    PROVE  \E rest : UpTo(x, ids, n, rest)
<1> DEFINE T == {k \in Nat : \E rest : UpTo(x, ids, k, rest)}
<1>1. 0 \in T
  <2>1. UpTo(x, ids, 0, [i \in 0..0 |-> <<>>])
    BY DEF UpTo
  <2>2. QED
    BY <2>1
<1>2. ASSUME NEW k \in Nat, k \in T
      PROVE  k + 1 \in T
  <2>1. PICK rest : UpTo(x, ids, k, rest)
    BY <1>2
  <2> DEFINE next == IF x[k + 1].id \in ids THEN rest[k] ELSE Append(rest[k], x[k + 1])
             new == [i \in 0..(k + 1) |-> IF i = k + 1 THEN next ELSE rest[i]]
  <2>2. \A i \in 0..k : rest[i] = IF i = 0 THEN <<>>
                               ELSE IF x[i].id \in ids THEN rest[i - 1]
                               ELSE Append(rest[i - 1], x[i])
    BY <2>1 DEF UpTo
  <2>3. \A i \in 0..(k + 1) : new[i] = IF i = 0 THEN <<>>
                               ELSE IF x[i].id \in ids THEN new[i - 1]
                               ELSE Append(new[i - 1], x[i])
    <3>1. ASSUME NEW i \in 0..(k + 1), i = k + 1
          PROVE  new[i] = next /\ i # 0 /\ new[i - 1] = rest[k]
      BY <3>1
    <3>2. ASSUME NEW i \in 0..(k + 1), i # k + 1
          PROVE  new[i] = rest[i] /\ i \in 0..k /\ (i # 0 => new[i - 1] = rest[i - 1])
      BY <3>2
    <3> HIDE DEF new
    <3>3. QED
      BY <3>1, <3>2, <2>2
  <2>4. new = [i \in 0..(k + 1) |-> new[i]]
    OBVIOUS
  <2> HIDE DEF new
  <2>5. UpTo(x, ids, k + 1, new)
    BY <2>3, <2>4, Zenon DEF UpTo
  <2>6. QED
    BY <2>5
<1> HIDE DEF T
<1>3. n \in T
  BY <1>1, <1>2, Induction
<1>4. QED
  BY <1>3 DEF T

\* s is what is left of the first n vectors: these and no others, no id twice.
Left(x, ids, n, s) ==
    /\ s \in Seq(Vector)
    /\ \A k \in DOMAIN s : \E i \in 1..n : s[k] = x[i] /\ x[i].id \notin ids
    /\ \A i \in 1..n : x[i].id \notin ids => \E k \in DOMAIN s : s[k] = x[i]
    /\ Unique(x) => Unique(s)

LEMMA LeftNext ==
    ASSUME NEW x \in Seq(Vector), NEW ids, NEW s, NEW h \in Nat, Left(x, ids, h, s),
           NEW i \in DOMAIN x, i = h + 1
    PROVE  Left(x, ids, i, Extended(x, ids, i, s))
<1>1. \A j : j \in 1..i <=> j \in 1..h \/ j = i
  OBVIOUS
<1>2. CASE x[i].id \in ids
  BY <1>1, <1>2 DEF Left, Extended
<1>3. CASE x[i].id \notin ids
  <2>1. PICK v \in Vector : v = x[i]
    OBVIOUS
  <2>2. s \in Seq(Vector)
    BY DEF Left
  <2> HIDE <2>1
  <2>3. PICK t \in Seq(Vector) : t = Append(s, v)
    <3>1. Append(s, v) \in Seq(Vector)
      BY <2>2
    <3>2. QED
      BY <3>1
  <2>4. /\ \A k \in DOMAIN s : k \in DOMAIN t /\ t[k] = s[k]
        /\ Len(s) + 1 \in DOMAIN t /\ t[Len(s) + 1] = v
        /\ \A k \in DOMAIN t : k \in DOMAIN s \/ k = Len(s) + 1
    BY <2>2, <2>3
  <2>5. \A k \in DOMAIN t : \E j \in 1..i : t[k] = x[j] /\ x[j].id \notin ids
    <3>1. \A k \in DOMAIN s : \E j \in 1..i : t[k] = x[j] /\ x[j].id \notin ids
      BY <1>1, <2>4 DEF Left
    <3>2. i \in 1..i
      OBVIOUS
    <3>3. QED
      BY <1>3, <2>1, <2>4, <3>1, <3>2
  <2>6. \A j \in 1..i : x[j].id \notin ids => \E k \in DOMAIN t : t[k] = x[j]
    BY <1>1, <2>1, <2>4 DEF Left
  <2>7. ASSUME Unique(x) PROVE Unique(t)
    <3>1. \A j \in 1..h : j \in DOMAIN x /\ j # i
      OBVIOUS
    <3>2. \A k \in DOMAIN s : s[k].id # v.id
      BY <2>1, <2>7, <3>1 DEF Left, Unique
    <3>3. QED
      BY <2>4, <2>7, <3>2 DEF Left, Unique
  <2>8. Extended(x, ids, i, s) = t
    BY <1>3, <2>1, <2>3 DEF Extended
  <2>9. QED
    BY <2>5, <2>6, <2>7, <2>8 DEF Left
<1>4. QED
  BY <1>2, <1>3

LEMMA WithoutLeft ==
    ASSUME NEW x \in Seq(Vector), NEW ids
    PROVE  Left(x, ids, Len(x), Without(x, ids))
<1>1. PICK n \in Nat : n = Len(x)
  OBVIOUS
<1>2. DOMAIN x = 1..n
  BY <1>1
<1>3. PICK u : UpTo(x, ids, n, u) /\ Without(x, ids) = u[n]
  <2>1. \E rest : UpTo(x, ids, n, rest)
    BY UpToExists
  <2>2. QED
    BY <1>1, <2>1 DEF UpTo, Without
<1> DEFINE T == {i \in Nat : i <= n => Left(x, ids, i, u[i])}
<1>4. 0 \in T
  <2>1. u[0] = <<>>
    BY <1>3, UpToFirst
  <2>2. Left(x, ids, 0, <<>>)
    BY DEF Left, Unique
  <2>3. QED
    BY <2>1, <2>2
<1>5. ASSUME NEW i \in Nat, i \in T
      PROVE  i + 1 \in T
  <2> SUFFICES ASSUME i + 1 <= n PROVE Left(x, ids, i + 1, u[i + 1])
    OBVIOUS
  <2>1. i <= n /\ i + 1 \in DOMAIN x /\ i + 1 \in 1..n
    BY <1>2
  <2>2. Left(x, ids, i, u[i])
    BY <1>5, <2>1
  <2>3. u[i + 1] = Extended(x, ids, i + 1, u[i])
    BY <1>3, <2>1, UpToNext
  <2>4. Left(x, ids, i + 1, Extended(x, ids, i + 1, u[i]))
    BY <2>1, <2>2, LeftNext
  <2>5. QED
    BY <2>3, <2>4
<1> HIDE DEF T
<1>6. n \in T
  BY <1>4, <1>5, Induction
<1>7. QED
  BY <1>1, <1>3, <1>6 DEF T
-------------------------------------------------------------------------------
(* The inductive invariant *)

\* The shapes of the two halves of the cache, in memory and on disk.  An id is
\* given out only once: every entry, there and here, is below the next id.
Shapes ==
    /\ up \in BOOLEAN /\ flushing \in BOOLEAN /\ inSync \in BOOLEAN /\ mixed \in BOOLEAN
    /\ stores \in Nat /\ nextId \in Nat /\ diskMeta.nextId \in Nat
    /\ index \in Seq(Vector) /\ diskIndex.index \in Seq(Vector)
    /\ \A id \in DOMAIN meta : id \in Nat /\ id < nextId
    /\ \A id \in DOMAIN diskMeta.meta : id \in Nat /\ id < diskMeta.nextId
    /\ \A e \in embedding : e.prompt \in Prompts

\* A process that has ended has no memory.
Ended ==
    ~up => /\ index = <<>> /\ meta = Empty /\ nextId = 0
           /\ loaded = {} /\ embedding = {} /\ ~flushing

Distinct(m) == \A i, j \in DOMAIN m : m[i].store = m[j].store => i = j

\* A store is embedding or has one entry, so that what an invalidation takes away
\* it takes away for good; the disk may know it until metadata.json is written.
Stored ==
    /\ unflushed \subseteq revoked /\ revoked \subseteq 1..stores
    /\ Distinct(meta) /\ Distinct(diskMeta.meta)
    /\ \A id \in DOMAIN meta : meta[id].store \in (1..stores) \ revoked
    /\ \A e \in embedding :
          /\ e.store \in (1..stores) \ revoked
          /\ \A id \in DOMAIN meta : meta[id].store # e.store
          /\ \A f \in embedding : f.store = e.store => f = e
    /\ \A id \in DOMAIN diskMeta.meta :
          diskMeta.meta[id].store \in ((1..stores) \ revoked) \cup unflushed

\* Entries and vectors that belong together.
Agree(x, m, next) ==
    /\ Unique(x)
    /\ \A i \in DOMAIN x :
          x[i].id < next /\ (x[i].id \in DOMAIN m => m[x[i].id].prompt = x[i].prompt)
    /\ \A id \in DOMAIN m : \E i \in DOMAIN x : x[i].id = id

\* Memory agrees and, when one flush has written both files, so does the disk; a
\* flush holds the lock, so that the index it has written is still the one in
\* memory when it writes the metadata.
Agreement ==
    /\ ~mixed => /\ Agree(index, meta, nextId)
                 /\ \A i \in DOMAIN index : index[i].id \in DOMAIN meta \cup loaded
    /\ flushing => ~inSync /\ diskIndex.index = index
    /\ inSync /\ ~mixed /\ Loads => Agree(diskIndex.index, diskMeta.meta, diskMeta.nextId)

IInv == Shapes /\ Ended /\ Stored /\ Agreement
-------------------------------------------------------------------------------
LEMMA NothingThere ==
    /\ DOMAIN Empty = {} /\ <<>> \in Seq(Vector) /\ 0 \in Nat
    /\ NoMeta.meta = Empty /\ NoMeta.nextId = 0 /\ NoMeta.file = "none"
    /\ NoIndex.index = <<>> /\ NoIndex.file = "none"
BY DEF Empty, NoMeta, NoIndex

LEMMA IdsNatural ==
    ASSUME NEW x \in Seq(Vector)
    PROVE  \A i \in DOMAIN x : x[i].id \in Nat
<1>1. \A i \in DOMAIN x : x[i] \in Vector
  OBVIOUS
<1>2. QED
  BY <1>1 DEF Vector

LEMMA InitIInv == Init => IInv
<1> SUFFICES ASSUME Init PROVE IInv
  OBVIOUS
<1>1. Shapes /\ Ended
  BY NothingThere DEF Init, Shapes, Ended
<1>2. Stored
  BY NothingThere DEF Init, Stored, Distinct
<1>3. Agreement
  BY NothingThere DEF Init, Agreement, Agree, Unique, Loads
<1>4. QED
  BY <1>1, <1>2, <1>3 DEF IInv

LEMMA StoreCallIInv ==
    ASSUME IInv, NEW q \in Asked, StoreCall(q[1], q[2])
    PROVE  IInv'
<1> USE DEF IInv
<1>1. q[1] \in Scopes /\ q[2] \in Prompts
  BY AskedAssumption
<1>2. PICK e : e = [store |-> stores + 1, prompt |-> q[2], scope |-> q[1]]
  OBVIOUS
<1>3. /\ up /\ stores' = stores + 1 /\ stores \in Nat
      /\ embedding' = embedding \cup {e} /\ e.store = stores + 1 /\ e.prompt \in Prompts
      /\ UNCHANGED <<memory, disk, revocation, process, flushing, expired>>
  BY <1>1, <1>2 DEF StoreCall, Shapes
<1>4. \A n \in 1..stores : n \in 1..stores' /\ n # e.store
  BY <1>3
<1>5. e.store \in (1..stores') \ revoked
  BY <1>3, <1>4 DEF Stored
<1>6. Shapes' /\ Ended' /\ Agreement'
  BY <1>3 DEF Shapes, Ended, Agreement, Loads, memory, disk, process
<1>7. Stored'
  BY <1>3, <1>4, <1>5 DEF Stored, Distinct, memory, disk, revocation
<1>8. QED
  BY <1>6, <1>7

LEMMA InsertIInv ==
    ASSUME IInv, NEW e \in embedding, Insert(e)
    PROVE  IInv'
<1> USE DEF IInv
<1>1. PICK v \in Vector : v = [id |-> nextId, prompt |-> e.prompt]
  BY DEF Shapes, Vector
<1>2. v.id = nextId /\ v.prompt = e.prompt
  BY <1>1
<1>3. /\ up /\ ~flushing /\ embedding' = embedding \ {e}
      /\ index' = Append(index, v)
      /\ meta' = [id \in DOMAIN meta \cup {nextId} |-> IF id = nextId THEN e ELSE meta[id]]
      /\ nextId' = nextId + 1
      /\ UNCHANGED <<disk, revocation, process, flushing, expired, stores>>
  BY <1>1 DEF Insert, Unlocked
<1>4. /\ index \in Seq(Vector) /\ index' \in Seq(Vector)
      /\ \A k \in DOMAIN index : k \in DOMAIN index' /\ index'[k] = index[k]
      /\ Len(index) + 1 \in DOMAIN index' /\ index'[Len(index) + 1] = v
      /\ \A k \in DOMAIN index' : k \in DOMAIN index \/ k = Len(index) + 1
  BY <1>3 DEF Shapes
<1>5. nextId \in Nat /\ nextId \notin DOMAIN meta /\ \A k \in DOMAIN index : index[k].id \in Nat
  BY <1>4, IdsNatural DEF Shapes
<1>6. /\ DOMAIN meta' = DOMAIN meta \cup {nextId} /\ meta'[nextId] = e
      /\ \A id \in DOMAIN meta : meta'[id] = meta[id]
  BY <1>3, <1>5
<1>7. Shapes'
  BY <1>3, <1>4, <1>5, <1>6 DEF Shapes, disk, process
<1>8. Ended'
  BY <1>3 DEF Ended, process
<1>9. Stored'
  <2>1. \A id \in DOMAIN meta : meta[id].store # e.store
    BY DEF Stored
  <2>2. UNCHANGED <<stores, revoked, unflushed, diskMeta>>
    BY <1>3 DEF disk, revocation
  <2>3. \A f \in embedding' : f \in embedding /\ f.store # e.store
    BY <1>3 DEF Stored
  <2>4. \A id \in DOMAIN meta' : id \in DOMAIN meta \/ id = nextId
    BY <1>6
  <2>5. Distinct(meta')
    BY <1>6, <2>1, <2>4 DEF Stored, Distinct
  <2>6. \A id \in DOMAIN meta' : meta'[id].store \in (1..stores) \ revoked
    BY <1>6, <2>4 DEF Stored
  <2>7. \A f \in embedding', id \in DOMAIN meta' : meta'[id].store # f.store
    BY <1>6, <2>3, <2>4 DEF Stored
  <2>8. QED
    BY <2>2, <2>3, <2>5, <2>6, <2>7 DEF Stored
<1>10. Agreement'
  <2>1. ASSUME ~mixed PROVE Agree(index', meta', nextId')
    <3>1. Agree(index, meta, nextId)
      BY <2>1 DEF Agreement
    <3>2. \A k \in DOMAIN index : index[k].id < nextId /\ index[k].id # nextId
      BY <1>5, <3>1 DEF Agree
    <3>3. Unique(index')
      BY <1>2, <1>4, <3>1, <3>2 DEF Agree, Unique
    <3>4. \A k \in DOMAIN index' :
             /\ index'[k].id < nextId'
             /\ index'[k].id \in DOMAIN meta' => meta'[index'[k].id].prompt = index'[k].prompt
      <4>1. ASSUME NEW k \in DOMAIN index
            PROVE  /\ index[k].id < nextId + 1
                   /\ index[k].id \in DOMAIN meta' => meta'[index[k].id].prompt = index[k].prompt
        <5>1. index[k].id < nextId + 1
          BY <1>5, <3>2
        <5>2. index[k].id \in DOMAIN meta' => index[k].id \in DOMAIN meta
          BY <1>6, <3>2
        <5>3. QED
          BY <1>6, <3>1, <5>1, <5>2 DEF Agree
      <4>2. nextId < nextId + 1
        BY <1>5
      <4>3. QED
        BY <1>2, <1>3, <1>4, <1>6, <4>1, <4>2
    <3>5. \A id \in DOMAIN meta' : \E k \in DOMAIN index' : index'[k].id = id
      BY <1>2, <1>4, <1>6, <3>1 DEF Agree
    <3>6. QED
      BY <3>3, <3>4, <3>5 DEF Agree
  <2>2. ~mixed => \A k \in DOMAIN index' : index'[k].id \in DOMAIN meta' \cup loaded
    BY <1>2, <1>4, <1>6 DEF Agreement
  <2>3. QED
    BY <1>3, <2>1, <2>2 DEF Agreement, disk, process, Loads
<1>11. QED
  BY <1>7, <1>8, <1>9, <1>10

\* remove_ids and del take the same entries from both halves.
LEMMA RemoveIInv ==
    ASSUME IInv, NEW ids, ids \subseteq DOMAIN meta, up, ~flushing, Remove(ids),
           UNCHANGED <<nextId, disk, process, embedding, flushing, stores>>,
           NEW gone, gone = {meta[id].store : id \in ids},
           \/ UNCHANGED revocation
           \/ revoked' = revoked \cup gone /\ unflushed' = unflushed \cup gone
    PROVE  IInv'
<1> USE DEF IInv
<1>1. /\ index \in Seq(Vector) /\ index' = Without(index, ids)
      /\ DOMAIN meta' = DOMAIN meta \ ids /\ \A id \in DOMAIN meta' : meta'[id] = meta[id]
  BY DEF Remove, Keep, Shapes
<1>2. Left(index, ids, Len(index), index')
  BY <1>1, WithoutLeft
<1>3. /\ index' \in Seq(Vector)
      /\ \A k \in DOMAIN index' : \E i \in DOMAIN index :
            index'[k] = index[i] /\ index[i].id \notin ids
      /\ \A i \in DOMAIN index : index[i].id \notin ids => \E k \in DOMAIN index' : index'[k] = index[i]
      /\ Unique(index) => Unique(index')
  <2>1. DOMAIN index = 1..Len(index)
    BY <1>1
  <2>2. QED
    BY <1>2, <2>1 DEF Left
<1>4. Shapes'
  BY <1>1, <1>3 DEF Shapes, disk, process
<1>5. Ended'
  BY DEF Ended, process
<1>6. Stored'
  <2>1. Distinct(meta')
    BY <1>1 DEF Stored, Distinct
  <2>2. \A id \in DOMAIN meta' : meta[id].store \notin gone
    BY <1>1 DEF Stored, Distinct
  <2>3. \A e \in embedding : e.store \notin gone
    BY DEF Stored
  <2>4. gone \subseteq 1..stores
    BY DEF Stored
  <2>5. UNCHANGED <<stores, embedding, diskMeta>>
    BY DEF disk
  <2>6. CASE UNCHANGED revocation
    BY <1>1, <2>1, <2>5, <2>6 DEF Stored, revocation
  <2>7. CASE revoked' = revoked \cup gone /\ unflushed' = unflushed \cup gone
    BY <1>1, <2>1, <2>2, <2>3, <2>4, <2>5, <2>7 DEF Stored
  <2>8. QED
    BY <2>6, <2>7
<1>7. Agreement'
  <2>1. ASSUME ~mixed
        PROVE  /\ Agree(index', meta', nextId)
               /\ \A k \in DOMAIN index' : index'[k].id \in DOMAIN meta' \cup loaded
    <3>1. /\ Agree(index, meta, nextId)
          /\ \A i \in DOMAIN index : index[i].id \in DOMAIN meta \cup loaded
      BY <2>1 DEF Agreement
    <3>2. \A k \in DOMAIN index' :
             /\ index'[k].id < nextId /\ index'[k].id \in DOMAIN meta' \cup loaded
             /\ index'[k].id \in DOMAIN meta' => meta'[index'[k].id].prompt = index'[k].prompt
      BY <1>1, <1>3, <3>1 DEF Agree
    <3>3. \A id \in DOMAIN meta' : \E k \in DOMAIN index' : index'[k].id = id
      BY <1>1, <1>3, <3>1 DEF Agree
    <3>4. QED
      BY <1>3, <3>1, <3>2, <3>3 DEF Agree
  <2>2. QED
    BY <2>1 DEF Agreement, disk, process, Loads
<1>8. QED
  BY <1>4, <1>5, <1>6, <1>7

LEMMA FlushIInv ==
    ASSUME IInv, FlushIndex \/ FlushIndexFails \/ FlushMeta
    PROVE  IInv'
<1> USE DEF IInv
<1>1. CASE FlushIndex
  <2>1. Shapes'
    BY <1>1 DEF FlushIndex, Shapes, memory, process
  <2>2. Ended' /\ Stored'
    BY <1>1 DEF FlushIndex, Unlocked, Ended, Stored, memory, process, revocation
  <2>3. Agreement'
    BY <1>1 DEF FlushIndex, Agreement, memory, process
  <2>4. QED
    BY <2>1, <2>2, <2>3
<1>2. CASE FlushIndexFails
  <2>1. Shapes'
    BY <1>2, NothingThere DEF FlushIndexFails, Shapes, memory, process
  <2>2. Ended' /\ Stored'
    BY <1>2 DEF FlushIndexFails, Ended, Stored, memory, process, revocation
  <2>3. Agreement'
    BY <1>2 DEF FlushIndexFails, Unlocked, Agreement, memory, process
  <2>4. QED
    BY <2>1, <2>2, <2>3
<1>3. CASE FlushMeta
  <2>1. /\ up /\ flushing /\ flushing' = FALSE
        /\ UNCHANGED <<memory, diskIndex, revoked, process, embedding, stores>>
    BY <1>3 DEF FlushMeta
  <2>2. CASE diskMeta' = [file |-> "good", meta |-> meta, nextId |-> nextId]
             /\ inSync' = TRUE /\ unflushed' = {}
    <3>1. diskMeta'.meta = meta /\ diskMeta'.nextId = nextId
      BY <2>2
    <3>2. Shapes' /\ Ended'
      BY <2>1, <2>2, <3>1 DEF Shapes, Ended, memory, process
    <3>3. Stored'
      BY <2>1, <2>2, <3>1 DEF Stored, memory
    <3>4. Agreement'
      BY <2>1, <2>2, <3>1 DEF Agreement, memory, process
    <3>5. QED
      BY <3>2, <3>3, <3>4
  <2>3. CASE diskMeta' = NoMeta /\ UNCHANGED <<inSync, unflushed>>
    <3>1. diskMeta'.meta = Empty /\ DOMAIN Empty = {} /\ diskMeta'.nextId = 0
      BY <2>3, NothingThere
    <3>2. Shapes' /\ Ended'
      <4>0. diskMeta'.nextId \in Nat /\ \A id \in DOMAIN diskMeta'.meta : FALSE
        BY <3>1
      <4>1. UNCHANGED <<up, stores, nextId, index, meta, mixed, inSync, diskIndex, embedding>>
        BY <2>1, <2>3 DEF memory, process
      <4>2. Shapes'
        BY <2>1, <4>0, <4>1 DEF Shapes
      <4>3. QED
        BY <2>1, <4>2 DEF Ended, memory, process
    <3>3. Stored'
      BY <2>1, <2>3, <3>1 DEF Stored, Distinct, memory
    <3>4. Agreement'
      BY <2>1, <2>3 DEF Agreement, memory, process
    <3>5. QED
      BY <3>2, <3>3, <3>4
  <2>4. QED
    BY <1>3, <2>2, <2>3 DEF FlushMeta
<1>4. QED
  BY <1>1, <1>2, <1>3

LEMMA DieIInv ==
    ASSUME IInv, Die
    PROVE  IInv'
<1> USE DEF IInv
<1>1. /\ up' = FALSE /\ flushing' = FALSE /\ embedding' = {}
      /\ index' = <<>> /\ meta' = Empty /\ nextId' = 0 /\ loaded' = {}
      /\ UNCHANGED <<diskIndex, inSync, revoked, unflushed, mixed, stores>>
      /\ diskMeta' = diskMeta \/ (diskMeta' = NoMeta /\ ~inSync)
      /\ DOMAIN Empty = {}
  BY NothingThere DEF Die, Agreement, revocation
<1>2. DOMAIN NoMeta.meta = {} /\ NoMeta.nextId = 0 /\ <<>> \in Seq(Vector)
  BY NothingThere
<1>3. Shapes' /\ Ended'
  <2>1. \A id \in DOMAIN diskMeta'.meta : id \in Nat /\ id < diskMeta'.nextId
    BY <1>1, <1>2 DEF Shapes
  <2>2. diskMeta'.nextId \in Nat
    BY <1>1, <1>2 DEF Shapes
  <2>3. Shapes'
    BY <1>1, <1>2, <2>1, <2>2 DEF Shapes
  <2>4. QED
    BY <1>1, <2>3 DEF Ended
<1>4. Stored'
  BY <1>1, <1>2 DEF Stored, Distinct
<1>5. Agreement'
  BY <1>1 DEF Agreement, Agree, Unique, Loads
<1>6. QED
  BY <1>3, <1>4, <1>5

LEMMA StartIInv ==
    ASSUME IInv, Start
    PROVE  IInv'
<1> USE DEF IInv
<1>1. /\ ~up /\ up' = TRUE /\ revoked' = revoked \ unflushed /\ unflushed' = {}
      /\ index = <<>> /\ meta = Empty /\ nextId = 0 /\ loaded = {}
      /\ embedding = {} /\ flushing = FALSE /\ DOMAIN Empty = {}
      /\ UNCHANGED <<diskIndex, diskMeta, inSync, embedding, flushing, stores>>
  BY NothingThere DEF Start, Ended, Shapes, disk
<1>2. CASE ~Loads /\ UNCHANGED <<index, meta, nextId, loaded, mixed>>
  <2>1. Shapes' /\ Ended'
    BY <1>1, <1>2 DEF Shapes, Ended
  <2>2. Stored'
    BY <1>1, <1>2 DEF Stored, Distinct
  <2>3. Agreement'
    BY <1>1, <1>2 DEF Agreement, Loads
  <2>4. QED
    BY <2>1, <2>2, <2>3
<1>0. PICK restored : restored = DOMAIN diskMeta.meta \ Expired(diskMeta.meta)
  OBVIOUS
<1>3. CASE /\ Loads
           /\ meta' = Keep(diskMeta.meta, restored)
           /\ nextId' = MaxOf({diskMeta.nextId} \cup {id + 1 : id \in restored \cup {0}})
           /\ index' = diskIndex.index
           /\ loaded' = IdsOf(diskIndex.index)
           /\ mixed' = (mixed \/ ~inSync)
  <2>2. /\ DOMAIN meta' = restored /\ restored \subseteq DOMAIN diskMeta.meta
        /\ \A id \in restored : meta'[id] = diskMeta.meta[id]
    BY <1>0, <1>3 DEF Keep
  <2>3. nextId' \in Nat /\ nextId' >= diskMeta.nextId
    <3> DEFINE S == {diskMeta.nextId} \cup {id + 1 : id \in restored \cup {0}}
    <3>1. diskMeta.nextId \in Nat /\ \A id \in restored : id \in Nat /\ id < diskMeta.nextId
      BY <2>2 DEF Shapes
    <3>2. S \subseteq Nat
      BY <3>1
    <3>3. 1 \in S /\ diskMeta.nextId \in S /\ \A n \in S : n <= diskMeta.nextId \/ n = 1
      <4>1. 0 \in restored \cup {0} /\ 0 + 1 = 1
        OBVIOUS
      <4>2. \A id \in restored \cup {0} : id + 1 <= diskMeta.nextId \/ id + 1 = 1
        BY <3>1
      <4>3. diskMeta.nextId <= diskMeta.nextId
        BY <3>1
      <4>4. QED
        BY <4>1, <4>2, <4>3
    <3>4. \E m \in S : \A n \in S : n <= m
      <4>1. CASE diskMeta.nextId >= 1
        BY <3>1, <3>3, <4>1
      <4>2. CASE diskMeta.nextId = 0
        BY <3>2, <3>3, <4>2
      <4>3. QED
        BY <3>1, <4>1, <4>2
    <3>5. MaxOf(S) \in S /\ \A n \in S : n <= MaxOf(S)
      BY <3>4 DEF MaxOf
    <3>6. QED
      BY <1>3, <3>2, <3>3, <3>5
  <2>4. Shapes'
    <3>1. mixed' \in BOOLEAN /\ up' \in BOOLEAN
      BY <1>1, <1>3
    <3>2. \A id \in DOMAIN meta' : id \in Nat /\ id < nextId'
      BY <2>2, <2>3 DEF Shapes
    <3>3. QED
      BY <1>1, <1>3, <2>3, <3>1, <3>2 DEF Shapes
  <2>5. Ended'
    BY <1>1 DEF Ended
  <2>6. Stored'
    <3>1. Distinct(meta')
      BY <2>2 DEF Stored, Distinct
    <3>2. \A id \in DOMAIN meta' : meta'[id].store \in (1..stores) \ revoked'
      BY <1>1, <2>2 DEF Stored
    <3>3. \A id \in DOMAIN diskMeta.meta :
             diskMeta.meta[id].store \in ((1..stores) \ revoked') \cup unflushed'
      BY <1>1 DEF Stored
    <3>4. revoked' \subseteq 1..stores /\ Distinct(diskMeta.meta)
      BY <1>1 DEF Stored
    <3>5. QED
      BY <1>1, <3>1, <3>2, <3>3, <3>4 DEF Stored
  <2>7. Agreement'
    <3>1. ASSUME ~mixed' PROVE Agree(index', meta', nextId') /\ ~mixed /\ inSync
      <4>1. ~mixed /\ inSync
        BY <1>3, <3>1
      <4>2. Agree(diskIndex.index, diskMeta.meta, diskMeta.nextId)
        BY <1>3, <4>1 DEF Agreement
      <4>3. \A i \in DOMAIN diskIndex.index : diskIndex.index[i].id \in Nat
        BY IdsNatural DEF Shapes
      <4>4. \A i \in DOMAIN diskIndex.index : diskIndex.index[i].id < nextId'
        BY <2>3, <4>2, <4>3 DEF Agree, Shapes
      <4>5. QED
        BY <1>3, <2>2, <4>1, <4>2, <4>4 DEF Agree
    <3>2. \A i \in DOMAIN index' : index'[i].id \in loaded'
      BY <1>3 DEF IdsOf
    <3>3. QED
      BY <1>1, <3>1, <3>2 DEF Agreement, Loads
  <2>8. QED
    BY <2>4, <2>5, <2>6, <2>7
<1>4. QED
  BY <1>0, <1>2, <1>3 DEF Start

LEMMA StepIInv == IInv /\ [Next]_cacheVars => IInv'
<1> SUFFICES ASSUME IInv, [Next]_cacheVars PROVE IInv'
  OBVIOUS
<1>1. CASE UNCHANGED <<memory, disk, revocation, process, embedding, flushing, stores>>
  BY <1>1 DEF IInv, Shapes, Ended, Stored, Agreement, Loads, memory, disk, revocation, process
<1>2. ASSUME NEW n \in 1..MaxStores, Expire(n) PROVE IInv'
  BY <1>1, <1>2 DEF Expire
<1>3. CASE Finished \/ UNCHANGED cacheVars
  BY <1>1, <1>3 DEF Finished, cacheVars
<1>4. CASE Sweep
  <2>1. Expired(meta) \subseteq DOMAIN meta
    BY DEF Expired
  <2>2. QED
    BY <1>4, <2>1, RemoveIInv DEF Sweep, Unlocked
<1>5. ASSUME NEW s \in Scopes, Invalidate(s) PROVE IInv'
  <2>1. PICK ids : ids = {id \in DOMAIN meta : meta[id].scope = s}
    OBVIOUS
  <2>2. PICK gone : gone = {meta[id].store : id \in ids}
    OBVIOUS
  <2>3. /\ up /\ ~flushing /\ Remove(ids)
        /\ revoked' = revoked \cup gone /\ unflushed' = unflushed \cup gone
        /\ UNCHANGED <<nextId, disk, process, embedding, flushing, stores>>
    BY <1>5, <2>1, <2>2 DEF Invalidate, Unlocked
  <2>4. ids \subseteq DOMAIN meta
    BY <2>1
  <2>5. QED
    BY <2>2, <2>3, <2>4, RemoveIInv
<1>6. QED
  BY <1>2, <1>3, <1>4, <1>5, StoreCallIInv, InsertIInv, FlushIInv, DieIInv, StartIInv DEF Next

LEMMA Invariance == Spec => []IInv
BY InitIInv, StepIInv, PTL DEF Spec
-------------------------------------------------------------------------------
\* Index and dictionary agree in every process, after any stores, sweeps,
\* invalidations, flushes, crashes and loads, as long as what was loaded came
\* from one flush.
THEOREM IndexAndEntries == Spec => []IndexMatchesEntries
<1>1. IInv => IndexMatchesEntries
  BY DEF IInv, Agreement, Agree, Unique, IndexMatchesEntries, IdsOf
<1>2. QED
  BY <1>1, Invariance, PTL

\* A hit is for the prompt that was asked, in every such process.
THEOREM HitsAnswer == Spec => []HitAnswersPrompt
<1>1. IInv => HitAnswersPrompt
  BY DEF IInv, Agreement, Agree, HitAnswersPrompt, Hits
<1>2. QED
  BY <1>1, Invariance, PTL

\* What was invalidated is never in the dictionary again, unless the process
\* ended before a flush: a store has one entry at most, in memory and on disk.
THEOREM InvalidatedOut == Spec => []InvalidatedStaysOut
<1>1. IInv => InvalidatedStaysOut
  BY DEF IInv, Stored, InvalidatedStaysOut
<1>2. QED
  BY <1>1, Invariance, PTL
===============================================================================
