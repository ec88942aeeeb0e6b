---------------------------- MODULE CollectorWriter ---------------------------
(***************************************************************************)
(* shared/ingestion.py: rows between the workers of the windows and        *)
(* QuestDB.  Workers read frames and put their rows into a bounded queue;  *)
(* one writer (ingest_quest_db) takes them out, collects a batch and sends *)
(* it; run notices that a task has ended, cancels the others, and starts   *)
(* them again later.  The two queues and writers are alike; this is one,   *)
(* and the other is a task that may end.                                   *)
(*                                                                         *)
(* The writer gives up the event loop only in wait_for: all it does after  *)
(* it, a request and the request repeated by the finally clause included,  *)
(* is one step.  Every row of a queue is of its writer's event and nobody  *)
(* puts None.                                                              *)
(***************************************************************************)
EXTENDS Integers, Sequences, FiniteSets

CONSTANTS
    Workers,        \* market_data_worker tasks
    Capacity,       \* of the queue, 50_000
    BatchSize,      \* batch_size, 1_000
    MaxChanges,     \* bound: rows of a frame
    MaxRows,        \* bound: rows a worker reads
    MaxFails        \* bound: requests that fail, tasks that end

ASSUME WriterAssumption ==
    /\ Capacity \in Nat \ {0} /\ BatchSize \in Nat \ {0}
    /\ MaxChanges \in Nat \ {0} /\ MaxRows \in Nat /\ MaxFails \in Nat

Rows == Workers \X (1 .. MaxRows)       \* of each worker in its order

VARIABLES
    read,           \* rows a worker has read off its connection
    putting,        \* rows of the frame it is at, the first one being put
    queue,
    writer,         \* "created", "up" or "over"
    batch,          \* batch_rows
    overdue,        \* flush_interval is over since last_flush
    phase,          \* "up", or "paused" between a failure and the restart
    table,          \* QuestDB, in the order of arrival
    failed,         \* history: rows that were part of a request that failed
    faults          \* how many requests and tasks failed

writerVars == <<read, putting, queue, writer, batch, overdue, phase, table, failed, faults>>

WriterInit ==
    /\ read = [w \in Workers |-> 0] /\ putting = [w \in Workers |-> <<>>]
    /\ queue = <<>>
    /\ writer = "created" /\ batch = <<>> /\ overdue = FALSE
    /\ phase = "up"
    /\ table = <<>> /\ failed = {} /\ faults = 0

Fault == faults < MaxFails /\ faults' = faults + 1

-----------------------------------------------------------------------------
(* The workers.  A frame is read only when the one before it has been put. *)
ReadFrame(w) ==
    /\ putting[w] = <<>>
    /\ \E n \in 1 .. MaxChanges :
          /\ read[w] + n <= MaxRows
          /\ read' = [read EXCEPT ![w] = @ + n]
          /\ putting' = [putting EXCEPT ![w] = [i \in 1 .. n |-> <<w, read[w] + i>>]]
    /\ UNCHANGED <<queue, writer, batch, overdue, phase, table, failed, faults>>

(* Queue.put, which waits while the queue is full.                         *)
Put(w) ==
    /\ putting[w] # <<>>
    /\ Len(queue) < Capacity
    /\ queue' = Append(queue, Head(putting[w]))
    /\ putting' = [putting EXCEPT ![w] = Tail(@)]
    /\ UNCHANGED <<read, writer, batch, overdue, phase, table, failed, faults>>

-----------------------------------------------------------------------------
(* A request for one table is stored as a whole or not at all; an error    *)
(* does not tell which.                                                    *)
Answer == {[ok |-> TRUE, stored |-> TRUE], [ok |-> FALSE, stored |-> TRUE],
           [ok |-> FALSE, stored |-> FALSE]}

Stored(rows, a) == IF a.stored THEN rows ELSE <<>>

InSeq(s) == {s[i] : i \in DOMAIN s}

Connect ==
    /\ writer = "created"
    /\ \/ writer' = "up" /\ overdue' = FALSE /\ UNCHANGED faults
       \/ writer' = "over" /\ UNCHANGED overdue /\ Fault
    /\ UNCHANGED <<read, putting, queue, batch, phase, table, failed>>

Elapse ==
    /\ writer = "up" /\ ~overdue
    /\ overdue' = TRUE
    /\ UNCHANGED <<read, putting, queue, writer, batch, phase, table, failed, faults>>

(* Faulty variant: the batch is not reset behind a request.                *)
FlushSucceeds_Keeps(rows) ==
    /\ table' = table \o rows
    /\ batch' = rows /\ overdue' = FALSE
    /\ UNCHANGED <<writer, failed, faults>>

FlushSucceeds(rows) ==
    /\ table' = table \o rows
    /\ batch' = <<>> /\ overdue' = FALSE
    /\ UNCHANGED <<writer, failed, faults>>

(* The exception passes the finally clause, which sends the batch again;   *)
(* whatever comes of that, the writer is over.                             *)
FlushFails(rows) ==
    /\ \E first, second \in Answer :
          /\ ~first.ok
          /\ table' = table \o Stored(rows, first) \o Stored(rows, second)
    /\ writer' = "over" /\ batch' = <<>>
    /\ failed' = failed \cup InSeq(rows)
    /\ Fault
    /\ UNCHANGED overdue

(* The second half of the loop, with the batch after the first.            *)
FlushIfDue(rows) ==
    IF rows # <<>> /\ (Len(rows) >= BatchSize \/ overdue)
    THEN FlushSucceeds(rows) \/ FlushFails(rows)
    ELSE batch' = rows /\ UNCHANGED <<writer, overdue, table, failed, faults>>

Get ==
    /\ writer = "up" /\ queue # <<>>
    /\ queue' = Tail(queue)
    /\ FlushIfDue(Append(batch, Head(queue)))
    /\ UNCHANGED <<read, putting, phase>>

(* Faulty variant: a wait that timed out goes straight to the next one.    *)
TimesOut_Continues ==
    /\ writer = "up"
    /\ UNCHANGED writerVars

(* wait_for gives up after 0.1 s; a row that comes at that moment stays.   *)
TimesOut ==
    /\ writer = "up"
    /\ FlushIfDue(batch)
    /\ UNCHANGED <<read, putting, queue, phase>>

-----------------------------------------------------------------------------
(* run cancels a writer that is pending: it ends in wait_for and sends     *)
(* what it has, once.                                                      *)
CancelWriter ==
    /\ writer' = "over" /\ batch' = <<>>
    /\ \/ batch = <<>> /\ UNCHANGED <<table, failed>>
       \/ batch # <<>> /\ table' = table \o batch /\ UNCHANGED failed
       \/ /\ batch # <<>>
          /\ \E a \in Answer : ~a.ok /\ table' = table \o Stored(batch, a)
          /\ failed' = failed \cup InSeq(batch)

(* The writer has ended: FIRST_COMPLETED.                                  *)
WriterEnded ==
    /\ phase = "up" /\ writer = "over"
    /\ phase' = "paused"
    /\ UNCHANGED <<read, putting, queue, writer, batch, overdue, table, failed, faults>>

(* The other writer or the manager has ended.                              *)
OtherEnded ==
    /\ phase = "up" /\ writer # "over"
    /\ phase' = "paused"
    /\ CancelWriter
    /\ Fault
    /\ UNCHANGED <<read, putting, queue, overdue>>

RestartWriter ==
    /\ phase = "paused"
    /\ phase' = "up" /\ writer' = "created"
    /\ UNCHANGED <<read, putting, queue, batch, overdue, table, failed, faults>>

WriterNext ==
    \/ \E w \in Workers : ReadFrame(w) \/ Put(w)
    \/ Connect \/ Elapse \/ Get \/ TimesOut
    \/ WriterEnded \/ OtherEnded \/ RestartWriter

WriterSpec == WriterInit /\ [][WriterNext]_writerVars

(* asyncio runs what is ready; nothing makes an exchange send or a request *)
(* fail.                                                                   *)
FairSpec ==
    /\ WriterSpec
    /\ \A w \in Workers : WF_writerVars(Put(w))
    /\ WF_writerVars(Connect) /\ WF_writerVars(Elapse)
    /\ WF_writerVars(Get) /\ WF_writerVars(TimesOut)
    /\ WF_writerVars(WriterEnded) /\ WF_writerVars(RestartWriter)

-----------------------------------------------------------------------------
Line      == table \o batch \o queue
Times(r)  == Cardinality({i \in DOMAIN Line : Line[i] = r})
WasPut(r) == r[2] <= read[r[1]] - Len(putting[r[1]])

(* Writers come and go, and the workers go on putting: a row that was put  *)
(* is in the table, the batch or the queue, once, and behind the rows of   *)
(* its worker that came before it, unless it was part of a request that    *)
(* failed.  Then it may be lost, or stored twice by the finally clause, and*)
(* such a failure concerns one batch.                                      *)
OnceInOrder ==
    /\ \A r \in Rows :
          IF r \in failed
          THEN Times(r) <= 2 /\ r \notin InSeq(batch) \cup InSeq(queue)
          ELSE Times(r) = IF WasPut(r) THEN 1 ELSE 0
    /\ \A i, j \in DOMAIN Line :
          /\ i < j /\ Line[i][1] = Line[j][1]
          /\ Line[i] \notin failed /\ Line[j] \notin failed
          => Line[i][2] < Line[j][2]
    /\ Cardinality(failed) <= BatchSize * faults

(* A row that a worker has read reaches the table, however full the queue  *)
(* was and whatever task ended on the way, unless its request failed.      *)
Arrives ==
    \A r \in Rows : r[2] <= read[r[1]] ~> r \in InSeq(table) \cup failed
=============================================================================
