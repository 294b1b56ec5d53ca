----------------------------- MODULE SemanticCache -----------------------------
(***************************************************************************)
(* gateway/semantic_cache.py: a vector index and a dictionary of entries   *)
(* under one lock, a thread that flushes both to disk, a thread that       *)
(* sweeps expired entries, and a restart that loads what the disk holds.   *)
(* A store embeds its prompt before it takes the lock; its insertion, a    *)
(* sweep and an invalidation are one critical section each; the flush,     *)
(* which writes two files, takes two steps.  Two prompts are similar when  *)
(* they are equal; a tenant and a domain are a scope; a response is known  *)
(* by the number of the store call that brought it.                        *)
(***************************************************************************)
EXTENDS Integers, FiniteSets, Sequences, TLC

CONSTANTS
    Prompts,
    Scopes,
    Asked,      \* the <<scope, prompt>> pairs whose responses are stored
    MaxStores,  \* bound: stores over all processes
    MaxStarts   \* bound: processes

ASSUME AskedAssumption == Asked \subseteq Scopes \X Prompts
ASSUME StoresAssumption == MaxStores \in Nat /\ MaxStarts \in Nat

VARIABLES
    up,         \* the process runs
    index,      \* _index: the vectors in the order of their insertion
    meta,       \* _metadata: from vector id to entry
    nextId,     \* _next_id
    embedding,  \* the entries whose stores have not taken the lock yet
    flushing,   \* _flush is between its two writes and holds the lock
    diskIndex,  \* faiss.index
    diskMeta,   \* metadata.json
    expired,    \* the stores whose TTL has passed
    stores,     \* history: the number of stores
    starts,     \* history: the number of processes so far
    loaded,     \* history: the vector ids this process found on disk
    inSync,     \* history: both files come from the same flush
    mixed,      \* history: some process has loaded files of two flushes
    revoked,    \* history: the stores whose entries were invalidated
    unflushed   \* history: those invalidated since the last metadata.json

memory == <<index, meta, nextId>>
disk == <<diskIndex, diskMeta, inSync>>
revocation == <<revoked, unflushed>>
process == <<up, starts, loaded, mixed>>
cacheVars == <<memory, disk, revocation, process, embedding, flushing, expired, stores>>

Ids == 0..MaxStores + 1
Vectors == [id : Ids, prompt : Prompts]
Entries == [store : 1..MaxStores, prompt : Prompts, scope : Scopes]

\* A file can be read back, or it is not there or broken.
Files == {"none", "good"}

IdsOf(x) == {x[i].id : i \in DOMAIN x}
Live(e) == e.store \notin expired

\* (mutant) the comparison of is_expired is the wrong way round.
ExpiredSwapped(m) == {id \in DOMAIN m : Live(m[id])}

Expired(m) == {id \in DOMAIN m : ~Live(m[id])}

Keep(m, ids) == [id \in ids |-> m[id]]

TypeOK ==
    /\ up \in BOOLEAN /\ flushing \in BOOLEAN /\ inSync \in BOOLEAN /\ mixed \in BOOLEAN
    /\ index \in Seq(Vectors)
    /\ DOMAIN meta \subseteq Ids /\ \A id \in DOMAIN meta : meta[id] \in Entries
    /\ nextId \in Ids
    /\ diskIndex.file \in Files /\ diskIndex.index \in Seq(Vectors)
    /\ diskMeta.file \in Files /\ diskMeta.nextId \in Ids
    /\ expired \subseteq 1..MaxStores
    /\ stores \in 0..MaxStores /\ starts \in 1..MaxStarts
    /\ loaded \subseteq Ids
    /\ embedding \subseteq Entries
    /\ unflushed \subseteq revoked /\ revoked \subseteq 1..MaxStores
-------------------------------------------------------------------------------
Empty == [id \in {} |-> 0]
NoIndex == [file |-> "none", index |-> <<>>]

NoMeta == [file |-> "none", meta |-> Empty, nextId |-> 0]

Init ==
    /\ up = TRUE /\ flushing = FALSE
    /\ index = <<>> /\ meta = Empty /\ nextId = 0
    /\ diskIndex = NoIndex /\ diskMeta = NoMeta
    /\ expired = {} /\ stores = 0 /\ starts = 1
    /\ loaded = {} /\ inSync = TRUE /\ mixed = FALSE
    /\ embedding = {} /\ revoked = {} /\ unflushed = {}

\* _lookup_sync changes nothing: it looks the ids of the similar vectors up in
\* the dictionary and returns the first entry of the caller's scope that has
\* not expired.  These are the entries it may return.
Hits(s, p) ==
    {meta[v.id] : v \in {index[i] : i \in {j \in DOMAIN index :
        /\ index[j].prompt = p
        /\ index[j].id \in DOMAIN meta
        /\ meta[index[j].id].scope = s
        /\ Live(meta[index[j].id])}}}

\* The lock is free in a running process.
Unlocked == up /\ ~flushing

\* store, called in the background of a request: a thread embeds the prompt.
StoreCall(s, p) ==
    /\ up /\ stores < MaxStores
    /\ stores' = stores + 1
    /\ embedding' = embedding \cup {[store |-> stores', prompt |-> p, scope |-> s]}
    /\ UNCHANGED <<memory, disk, revocation, process, flushing, expired>>

\* _store_sync, from the lock on: the id is taken under it.
Insert(e) ==
    /\ Unlocked /\ e \in embedding
    /\ embedding' = embedding \ {e}
    /\ index' = Append(index, [id |-> nextId, prompt |-> e.prompt])
    /\ meta' = [id \in DOMAIN meta \cup {nextId} |-> IF id = nextId THEN e ELSE meta[id]]
    /\ nextId' = nextId + 1
    /\ UNCHANGED <<disk, revocation, process, flushing, expired, stores>>

\* The TTL of a response passes; it starts before the store takes the lock.
Expire(n) ==
    /\ n \in 1..stores \ expired
    /\ expired' = expired \cup {n}
    /\ UNCHANGED <<memory, disk, revocation, process, embedding, flushing, stores>>

\* (mutant) the vectors stay in the index.
RemoveEntriesOnly(ids) ==
    /\ meta' = Keep(meta, DOMAIN meta \ ids)
    /\ UNCHANGED index

\* remove_ids: the vectors with other ids, in their order.
Without(vectors, ids) ==
    LET upTo[n \in 0..Len(vectors)] ==
            IF n = 0 THEN <<>>
            ELSE IF vectors[n].id \in ids THEN upTo[n - 1]
            ELSE Append(upTo[n - 1], vectors[n])
    IN  upTo[Len(vectors)]

\* remove_ids and del: the entries of ids and their vectors.
Remove(ids) ==
    /\ index' = Without(index, ids)
    /\ meta' = Keep(meta, DOMAIN meta \ ids)

Sweep ==
    /\ Unlocked /\ Expired(meta) # {}
    /\ Remove(Expired(meta))
    /\ UNCHANGED <<nextId, disk, revocation, process, embedding, flushing, expired, stores>>

\* invalidate reaches the entries of the scope that are in memory by now.
Invalidate(s) ==
    LET ids == {id \in DOMAIN meta : meta[id].scope = s}
        gone == {meta[id].store : id \in ids}
    IN  /\ Unlocked /\ ids # {}
        /\ Remove(ids)
        /\ revoked' = revoked \cup gone /\ unflushed' = unflushed \cup gone
        /\ UNCHANGED <<nextId, disk, process, embedding, flushing, expired, stores>>
-------------------------------------------------------------------------------
(* _flush, from the persist thread and from stop(): faiss.index is written    *)
(* in place, then metadata.json is truncated and written.                     *)

FlushIndex ==
    /\ Unlocked
    /\ diskIndex' = [file |-> "good", index |-> index]
    /\ inSync' = FALSE
    /\ flushing' = TRUE
    /\ UNCHANGED <<memory, diskMeta, revocation, process, embedding, expired, stores>>

\* The first write fails: the exception ends the flush.
FlushIndexFails ==
    /\ Unlocked
    /\ diskIndex' = NoIndex
    /\ inSync' = FALSE
    /\ UNCHANGED <<memory, diskMeta, revocation, process, embedding, flushing, expired, stores>>

\* (mutant) the entries are added to those of the file.
FlushMetaMerging ==
    /\ up /\ flushing
    /\ diskMeta' = [file |-> "good", meta |-> meta @@ diskMeta.meta, nextId |-> nextId]
    /\ inSync' = TRUE /\ flushing' = FALSE
    /\ unflushed' = {}
    /\ UNCHANGED <<memory, diskIndex, revoked, process, embedding, expired, stores>>

FlushMeta ==
    /\ up /\ flushing
    /\ \/ /\ diskMeta' = [file |-> "good", meta |-> meta, nextId |-> nextId]
          /\ inSync' = TRUE /\ unflushed' = {}
       \/ /\ diskMeta' = NoMeta
          /\ UNCHANGED <<inSync, unflushed>>
    /\ flushing' = FALSE
    /\ UNCHANGED <<memory, diskIndex, revoked, process, embedding, expired, stores>>

\* The process ends, after the flush of stop() or at any other moment; one
\* that dies inside a flush has replaced the index and may have truncated the
\* metadata.
Die ==
    /\ up
    /\ up' = FALSE /\ flushing' = FALSE /\ embedding' = {}
    /\ index' = <<>> /\ meta' = Empty /\ nextId' = 0 /\ loaded' = {}
    /\ UNCHANGED diskMeta \/ (flushing /\ diskMeta' = NoMeta)
    /\ UNCHANGED <<diskIndex, inSync, revocation, starts, mixed, expired, stores>>

\* _load: both files must exist and parse, entries that have expired are left
\* out, vectors are not.  The next id comes from the metadata alone.  What was
\* invalidated after that metadata was written is back.
Loads == diskIndex.file = "good" /\ diskMeta.file = "good"

MaxOf(S) == CHOOSE m \in S : \A n \in S : n <= m

\* (mutant) the next id is not restored.
StartFromZero ==
    /\ ~up /\ starts < MaxStarts
    /\ up' = TRUE /\ starts' = starts + 1
    /\ \/ /\ Loads
          /\ meta' = Keep(diskMeta.meta, DOMAIN diskMeta.meta \ Expired(diskMeta.meta))
          /\ index' = diskIndex.index
          /\ loaded' = IdsOf(diskIndex.index)
          /\ mixed' = (mixed \/ ~inSync)
       \/ /\ ~Loads
          /\ UNCHANGED <<index, meta, loaded, mixed>>
    /\ revoked' = revoked \ unflushed /\ unflushed' = {}
    /\ UNCHANGED <<nextId, disk, embedding, flushing, expired, stores>>

Start ==
    /\ ~up /\ starts < MaxStarts
    /\ up' = TRUE /\ starts' = starts + 1
    /\ \/ /\ Loads
          /\ LET restored == DOMAIN diskMeta.meta \ Expired(diskMeta.meta)
             IN  /\ meta' = Keep(diskMeta.meta, restored)
                 /\ nextId' = MaxOf({diskMeta.nextId} \cup {id + 1 : id \in restored \cup {0}})
          /\ index' = diskIndex.index
          /\ loaded' = IdsOf(diskIndex.index)
          /\ mixed' = (mixed \/ ~inSync)
       \/ /\ ~Loads
          /\ UNCHANGED <<index, meta, nextId, loaded, mixed>>
    /\ revoked' = revoked \ unflushed /\ unflushed' = {}
    /\ UNCHANGED <<disk, embedding, flushing, expired, stores>>

Finished == ~up /\ starts = MaxStarts /\ UNCHANGED cacheVars

Next ==
    \/ \E q \in Asked : StoreCall(q[1], q[2])
    \/ \E e \in embedding : Insert(e)
    \/ \E n \in 1..MaxStores : Expire(n)
    \/ Sweep
    \/ \E s \in Scopes : Invalidate(s)
    \/ FlushIndex \/ FlushIndexFails \/ FlushMeta
    \/ Die \/ Start \/ Finished

Spec == Init /\ [][Next]_cacheVars

\* The sweep thread wakes up again and again, and a flush ends.
FairSpec == Spec /\ SF_cacheVars(Sweep) /\ WF_cacheVars(FlushMeta)
-------------------------------------------------------------------------------
\* A hit answers the prompt that was asked: the vector that matched and the
\* entry that is served belong to the same store.  Only a process that has
\* loaded the files of two different flushes can break this.
HitAnswersPrompt ==
    mixed \/ \A s \in Scopes, p \in Prompts : \A e \in Hits(s, p) : e.prompt = p

\* The index and the dictionary agree, through stores, sweeps, invalidations
\* and restarts: ids are never reused, each entry has its vector, and a vector
\* without an entry was already without one on disk.
IndexMatchesEntries ==
    mixed \/
        /\ \A i, j \in DOMAIN index : index[i].id = index[j].id => i = j
        /\ \A i \in DOMAIN index :
              /\ index[i].id < nextId
              /\ index[i].id \in DOMAIN meta => meta[index[i].id].prompt = index[i].prompt
              /\ index[i].id \in DOMAIN meta \cup loaded
        /\ DOMAIN meta \subseteq IdsOf(index)

\* What invalidate has removed is never served again: not by a later flush, load
\* or sweep, and with no vector or entry left behind, unless the process ended
\* before metadata.json was written without it.  A store that was still
\* embedding is not reached and comes after it.
InvalidatedStaysOut ==
    \A id \in DOMAIN meta : meta[id].store \notin revoked

\* An expired entry does not stay: it is swept, unless the process ends first.
ExpiredSwept ==
    \A n \in 1..MaxStores :
        n \in expired ~> (~up \/ \A id \in DOMAIN meta : meta[id].store # n)

\* CacheEntry: "One semantic cache entry stored alongside its FAISS vector".
\* After a crash between the two writes of a flush, the entry served is not
\* the one stored alongside the vector that matched.
EntryAlongsideItsVector ==
    \A s \in Scopes, p \in Prompts : \A e \in Hits(s, p) : e.prompt = p
===============================================================================
