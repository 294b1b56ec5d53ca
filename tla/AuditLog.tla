------------------------------- MODULE AuditLog -------------------------------
(***************************************************************************)
(* policy_engine/audit_log.py: the event loop puts records into a bounded  *)
(* queue and never waits, a writer thread appends them to a JSONL file,    *)
(* stop() hands the writer a sentinel and waits for it twice with a        *)
(* timeout.  The process may die at any moment and be started again on the *)
(* same file.  Records are numbered in the order of the enqueue calls; a   *)
(* line that an append could not finish (a full disk, a host that went     *)
(* down) stays in the file without its newline, perhaps cut inside a       *)
(* character of several bytes.  GET /audit/records reads the file at any   *)
(* moment.                                                                 *)
(***************************************************************************)
EXTENDS Integers, FiniteSets, SequencesExt

CONSTANTS
    Capacity,       \* _QUEUE_CAPACITY
    MaxRecords,     \* bound: enqueue calls over all processes
    MaxStarts       \* bound: processes

ASSUME CapacityAssumption == Capacity \in Nat \ {0}
ASSUME BoundsAssumption == MaxRecords \in Nat /\ MaxStarts \in Nat \ {0}

VARIABLES
    pc,         \* the event loop: "serving", inside stop(), or the process is "down"
    queue,      \* _queue
    writer,     \* the writer thread: "get", "append" or "ended"
    hand,       \* the item the writer has taken
    droppedCount,   \* _dropped_count
    file,       \* the JSONL file: its fragments in order
    seen,       \* history: the number of enqueue calls
    fate,       \* history: what has become of each record, see Fates
    starts      \* history: the number of processes so far

auditVars == <<pc, queue, writer, hand, droppedCount, file, seen, fate, starts>>

Records == 1..MaxRecords
SENTINEL == 0
Nothing == -1

\* "pending" covers the queue and the writer's hand; "dropped" is counted,
\* "failed" only logged, "lost" went with the process.
Fates == {"new", "pending", "written", "dropped", "failed", "lost"}

\* What a write has left of a record: its line, all but the newline, or less,
\* which may end inside a character: ensure_ascii=False writes UTF-8.
Unfinished == {"bare", "torn", "cut"}
Fragment == [rec : Records, part : {"line"} \cup Unfinished]

TypeOK ==
    /\ pc \in {"serving", "put", "join", "stopped", "down"}
    /\ queue \in Seq(Records \cup {SENTINEL})
    /\ writer \in {"get", "append", "ended"}
    /\ hand \in Records \cup {Nothing}
    /\ droppedCount \in 0..MaxRecords
    /\ file \in Seq(Fragment)
    /\ seen \in 0..MaxRecords
    /\ fate \in [Records -> Fates]
    /\ starts \in 1..MaxStarts
-------------------------------------------------------------------------------
Init ==
    /\ pc = "serving"
    /\ queue = <<>>
    /\ writer = "get"
    /\ hand = Nothing
    /\ droppedCount = 0
    /\ file = <<>>
    /\ seen = 0
    /\ fate = [r \in Records |-> "new"]
    /\ starts = 1

Full == Len(queue) = Capacity
Becomes(r, f) == fate' = [fate EXCEPT ![r] = f]

\* (mutant) a full queue makes room by dropping its oldest record, uncounted.
EnqueueOverwrites ==
    /\ pc = "serving" /\ seen < MaxRecords
    /\ seen' = seen + 1
    /\ queue' = Append(IF Full THEN Tail(queue) ELSE queue, seen')
    /\ Becomes(seen', "pending")
    /\ UNCHANGED <<pc, writer, hand, droppedCount, file, starts>>

\* enqueue, from enqueue_decision and enqueue_outcome: put_nowait.
Enqueue ==
    /\ pc = "serving" /\ seen < MaxRecords
    /\ seen' = seen + 1
    /\ \/ /\ ~Full
          /\ queue' = Append(queue, seen')
          /\ Becomes(seen', "pending")
          /\ UNCHANGED droppedCount
       \/ /\ Full
          /\ droppedCount' = droppedCount + 1
          /\ Becomes(seen', "dropped")
          /\ UNCHANGED queue
    /\ UNCHANGED <<pc, writer, hand, file, starts>>

\* (mutant) the writer takes the newest item first.
WriterGetNewest ==
    /\ pc # "down" /\ writer = "get" /\ queue # <<>>
    /\ queue' = Front(queue)
    /\ IF Last(queue) = SENTINEL
       THEN writer' = "ended" /\ UNCHANGED hand
       ELSE writer' = "append" /\ hand' = Last(queue)
    /\ UNCHANGED <<pc, droppedCount, file, seen, fate, starts>>

\* _writer_loop: take the head of the queue; the sentinel ends the thread.
WriterGet ==
    /\ pc # "down" /\ writer = "get" /\ queue # <<>>
    /\ queue' = Tail(queue)
    /\ IF Head(queue) = SENTINEL
       THEN writer' = "ended" /\ UNCHANGED hand
       ELSE writer' = "append" /\ hand' = Head(queue)
    /\ UNCHANGED <<pc, droppedCount, file, seen, fate, starts>>

\* What an append leaves in the file: the line, part of it, or nothing.
Written(r) == file' = Append(file, [rec |-> r, part |-> "line"])
Torn(r) == \E part \in Unfinished : file' = Append(file, [rec |-> r, part |-> part])

\* _append_sync, whose errors are logged and never leave the writer.
WriterAppend ==
    /\ pc # "down" /\ writer = "append"
    /\ \/ Written(hand) /\ Becomes(hand, "written")
       \/ (Torn(hand) \/ UNCHANGED file) /\ Becomes(hand, "failed")
    /\ writer' = "get"
    /\ hand' = Nothing
    /\ UNCHANGED <<pc, queue, droppedCount, seen, starts>>
-------------------------------------------------------------------------------
(* stop(): the event loop blocks in it.  All requests have been answered      *)
(* before, so that nothing is enqueued any more.                              *)

Stop ==
    /\ pc = "serving"
    /\ pc' = "put"
    /\ UNCHANGED <<queue, writer, hand, droppedCount, file, seen, fate, starts>>

\* (mutant) the sentinel overtakes the records.
PutSentinelFirst ==
    /\ pc = "put" /\ ~Full
    /\ queue' = <<SENTINEL>> \o queue
    /\ pc' = "join"
    /\ UNCHANGED <<writer, hand, droppedCount, file, seen, fate, starts>>

PutSentinel ==
    /\ pc = "put" /\ ~Full
    /\ queue' = Append(queue, SENTINEL)
    /\ pc' = "join"
    /\ UNCHANGED <<writer, hand, droppedCount, file, seen, fate, starts>>

\* (mutant) put without a timeout.
PutTimeoutNever == FALSE /\ UNCHANGED auditVars

\* The queue stays full until put's timeout: no sentinel, but join is called.
PutTimeout ==
    /\ pc = "put" /\ Full
    /\ pc' = "join"
    /\ UNCHANGED <<queue, writer, hand, droppedCount, file, seen, fate, starts>>

\* join returns when the writer has ended or when its timeout expires.
JoinReturns ==
    /\ pc = "join"
    /\ pc' = "stopped"
    /\ UNCHANGED <<queue, writer, hand, droppedCount, file, seen, fate, starts>>
-------------------------------------------------------------------------------
\* The process ends, after stop() or at any other moment, and takes the daemon
\* thread, its queue and what its append had not finished with it.
Die ==
    /\ pc # "down"
    /\ pc' = "down"
    /\ queue' = <<>>
    /\ hand' = Nothing
    /\ writer' = "ended"
    /\ LET gone == {r \in Records : fate[r] = "pending"}
       IN  \/ /\ fate' = [r \in Records |-> IF r \in gone THEN "lost" ELSE fate[r]]
              /\ UNCHANGED file \/ (writer = "append" /\ Torn(hand))
           \/ /\ writer = "append" /\ Written(hand)
              /\ fate' = [r \in Records |->
                    CASE r = hand -> "written"
                      [] r \in gone \ {hand} -> "lost"
                      [] OTHER -> fate[r]]
    /\ UNCHANGED <<droppedCount, seen, starts>>

\* __init__ and start() of the next process.
Start ==
    /\ pc = "down" /\ starts < MaxStarts
    /\ pc' = "serving" /\ writer' = "get"
    /\ queue' = <<>> /\ hand' = Nothing /\ droppedCount' = 0
    /\ starts' = starts + 1
    /\ UNCHANGED <<file, seen, fate>>

\* The last process of the model is gone.
Finished == pc = "down" /\ starts = MaxStarts /\ UNCHANGED auditVars

StopStep == PutSentinel \/ PutTimeout \/ JoinReturns

Next ==
    \/ Enqueue \/ WriterGet \/ WriterAppend
    \/ Stop \/ StopStep
    \/ Die \/ Start \/ Finished

Spec == Init /\ [][Next]_auditVars

\* The timeouts of stop() expire; the disk may hang, so that nothing is
\* assumed of the writer.
FairSpec == Spec /\ WF_auditVars(StopStep)
-------------------------------------------------------------------------------
(* GET /audit/records                                                         *)

\* The filters of a request: none, or one type of record; decisions and outcomes
\* take turns.
Filters == {Records, {r \in Records : r % 2 = 1}}

\* The fragments whose line parses: nothing unfinished precedes them in it, and
\* what they lack is at most the last newline.
Parses(i) ==
    /\ i = 1 \/ file[i - 1].part = "line"
    /\ file[i].part \in {"line", "bare"}
    /\ file[i].part = "bare" => i = Len(file)

\* No line was cut inside a character: neither the end of the file nor the line
\* written behind it would complete the character.
Decodes == \A i \in DOMAIN file : file[i].part # "cut"

\* The records of the fragments of f at these places, in the order of f.
RecordsAt(f, places) ==
    LET upTo[n \in 0..Len(f)] ==
            IF n = 0 THEN <<>>
            ELSE IF n \in places THEN Append(upTo[n - 1], f[n].rec)
            ELSE upTo[n - 1]
    IN  upTo[Len(f)]

FoundAt(filter) == {i \in DOMAIN file : Parses(i) /\ file[i].rec \in filter}

\* (mutant) the newest record is listed first.
ListedNewestFirst(filter) == Reverse(RecordsAt(file, FoundAt(filter)))

\* The records a request finds when it reads the file to its end; a line that
\* does not parse is skipped.
Listed(filter) == RecordsAt(file, FoundAt(filter))

\* records[offset : offset + limit]
Page(filter, offset, limit) ==
    LET found == Listed(filter)
    IN  SubSeq(found, offset + 1, Min({offset + limit, Len(found)}))

\* What GET /audit/records may answer: an OSError gives an empty page, but the
\* UnicodeDecodeError that a cut character raises is caught nowhere.
Replies(filter, offset, limit) ==
    {[status |-> 200, records |-> <<>>],
     IF Decodes THEN [status |-> 200, records |-> Page(filter, offset, limit)]
                ELSE [status |-> 500, records |-> <<>>]}
-------------------------------------------------------------------------------
\* No record vanishes silently while the process lives: each one is in the
\* queue or in the writer's hand exactly once, in the file, counted as
\* dropped, or logged as failed; only a process that ended may lose records.
EveryRecordAccounted ==
    /\ \A r \in Records :
          /\ fate[r] = "new" <=> r > seen
          /\ fate[r] = "written" <=> \E i \in DOMAIN file : file[i] = [rec |-> r, part |-> "line"]
          /\ fate[r] = "pending" <=>
                (r = hand) # (\E i \in DOMAIN queue : queue[i] = r)
    /\ pc # "down" /\ starts = 1
          => droppedCount = Cardinality({r \in Records : fate[r] = "dropped"})

\* The lines that parse, whether or not a reader gets as far as them, are a
\* ledger of the enqueue calls: only appended to, by any process, and in the
\* order of the calls, so that a decision precedes its request's outcome.
LedgerOfCalls ==
    INSTANCE Ledger WITH
        offered <- seen,
        log <- RecordsAt(file, {i \in DOMAIN file : Parses(i) /\ file[i].part = "line"})
LedgerSpec == LedgerOfCalls!Spec

\* A reader that pages through the log neither misses nor repeats a record, as
\* far as it gets an answer: once a full page was served, every later answer for
\* it is the same page, or empty or an error, and it is the same page whenever
\* the file can be read and decoded.  Its last record can go only while its
\* newline is missing, when the next append makes it a part of its own line.
\* But one line cut inside a character ends all reading: no process ever serves
\* a record of that file again.
FullPageStable ==
    [][\A filter \in Filters, offset \in 0..MaxRecords, limit \in 1..MaxRecords :
          /\ \A reply \in Replies(filter, offset, limit) :
                LET page == reply.records
                IN  Len(page) = limit /\ Last(file) # [rec |-> Last(page), part |-> "bare"]
                        => /\ \A later \in Replies(filter, offset, limit)' :
                                 later.records \in {page, <<>>}
                           /\ Decodes' => reply \in Replies(filter, offset, limit)'
          /\ ~Decodes => \A later \in Replies(filter, offset, limit)' : later.records = <<>>
      ]_auditVars

\* When stop() has returned and the writer has ended, everything that was
\* enqueued has reached an append: the sentinel overtakes nothing.
CleanStopDrains ==
    pc = "stopped" /\ writer = "ended"
        => queue = <<>> /\ \A r \in Records : fate[r] # "pending"

\* stop() returns, whatever the writer and its disk do.
StopReturns == pc = "put" ~> pc \in {"stopped", "down"}
===============================================================================
