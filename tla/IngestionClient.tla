-------------------------- MODULE IngestionClient ---------------------------
(***************************************************************************)
(* The task that writes rows to QuestDB: IngestionClient::run collects     *)
(* rows from the ingestion channel, IngestionController::ingest pushes a   *)
(* batch row by row into the buffer of QuestDBClient and sends that buffer *)
(* as one request.  A failed request keeps the buffer for the next batch;  *)
(* a row that is refused half-way ends its batch and stays in the buffer   *)
(* as a partial row.                                                       *)
(*                                                                         *)
(* The channel never closes: main keeps a sender until the process ends.   *)
(***************************************************************************)
EXTENDS Channels

CONSTANTS
    MaxRows,        \* bound: rows sent, which are numbered
    BadRows,        \* rows of which QuestDB's buffer refuses a column
    Capacity,       \* capacity of the channel (10000 in main.rs)
    max_batch_size  \* (1000)

ASSUME IngestAssumption ==
    /\ MaxRows \in Nat
    /\ BadRows \subseteq 1 .. MaxRows
    /\ Capacity \in Nat \ {0}
    /\ max_batch_size \in Nat \ {0}

Rows == 1 .. MaxRows

VARIABLES
    sent,           \* how many rows the indexer has offered
    rx,             \* the channel
    pc,             \* "top" of the loop, in "select", in "ingest", "stopped"
    buffer,         \* IngestionClient.buffer
    batch,          \* ingested_batch, without the rows already pushed
    ilp,            \* QuestDBClient.buffer: its complete rows
    partial,        \* ... and whether there is an incomplete one behind them
    table,          \* QuestDB: the rows in the order they were stored
    cancelled,      \* the shutdown token
    accepted,       \* history: the rows the channel took
    resent,         \* history: a request was stored but reported as failed
    refused         \* history: a batch was given up

clientVars == <<pc, buffer, batch>>
dbVars     == <<ilp, partial, table>>
histVars   == <<accepted, resent, refused>>
vars       == <<sent, rx, clientVars, dbVars, cancelled, histVars>>

Init ==
    /\ sent = 0
    /\ rx = <<>>
    /\ pc = "top"
    /\ buffer = <<>> /\ batch = <<>>
    /\ ilp = <<>> /\ partial = FALSE /\ table = <<>>
    /\ cancelled = FALSE
    /\ accepted = <<>> /\ resent = FALSE /\ refused = FALSE

-----------------------------------------------------------------------------
(* The surroundings: try_send in the indexer, and TaskSupervisor::shutdown.*)

Send ==
    /\ sent < MaxRows
    /\ sent' = sent + 1
    /\ rx' = TrySend(rx, Capacity, sent + 1)
    /\ accepted' = IF HasRoom(rx, Capacity) THEN Append(accepted, sent + 1) ELSE accepted
    /\ UNCHANGED <<clientVars, dbVars, cancelled, resent, refused>>

Cancel ==
    /\ ~cancelled
    /\ cancelled' = TRUE
    /\ UNCHANGED <<sent, rx, clientVars, dbVars, histVars>>

-----------------------------------------------------------------------------
(* run.                                                                    *)

(* The check at the top of the loop: a cancelled token ends the task as it *)
(* stands, with whatever is in the buffer.                                 *)
Top ==
    /\ pc = "top"
    /\ pc' = IF cancelled THEN "stopped" ELSE "select"
    /\ UNCHANGED <<sent, rx, buffer, batch, dbVars, cancelled, histVars>>

(* Faulty variant: the rows are copied and not taken.                      *)
TakeBatch_Copy(rows) == pc' = "ingest" /\ batch' = rows /\ buffer' = rows

(* flush: the buffer is swapped against an empty one.                      *)
TakeBatch(rows) == pc' = "ingest" /\ batch' = rows /\ buffer' = <<>>

(* A row more in the buffer, which is flushed when it is full.             *)
Collect(rows) ==
    IF Len(rows) >= max_batch_size
    THEN TakeBatch(rows)
    ELSE pc' = "top" /\ buffer' = rows /\ batch' = <<>>

Recv ==
    /\ pc = "select"
    /\ rx # <<>>
    /\ rx' = Tail(rx)
    /\ Collect(Append(buffer, Head(rx)))
    /\ UNCHANGED <<sent, dbVars, cancelled, histVars>>

(* Faulty variant: the ticker flushes full buffers only.                   *)
Tick_OnlyFull ==
    /\ pc = "select"
    /\ rx = <<>>
    /\ Collect(buffer)
    /\ UNCHANGED <<sent, rx, dbVars, cancelled, histVars>>

(* The ticker of 20 s.  The select is biased: it comes up only with the    *)
(* channel empty.                                                          *)
Tick ==
    /\ pc = "select"
    /\ rx = <<>>
    /\ IF buffer = <<>> THEN pc' = "top" /\ UNCHANGED <<buffer, batch>>
                        ELSE TakeBatch(buffer)
    /\ UNCHANGED <<sent, rx, dbVars, cancelled, histVars>>

(* The token is cancelled while the task waits for it: a last flush, and   *)
(* then the top of the loop would break as this arm does.                  *)
Cancelled ==
    /\ pc = "select"
    /\ rx = <<>>
    /\ cancelled
    /\ IF buffer = <<>> THEN pc' = "stopped" /\ UNCHANGED <<buffer, batch>>
                        ELSE TakeBatch(buffer)
    /\ UNCHANGED <<sent, rx, dbVars, cancelled, histVars>>

-----------------------------------------------------------------------------
(* ingest, push and flush of QuestDBClient.                                *)

(* Faulty variant: a new row takes the place of a partial one.             *)
Accepts_Replaces(row) == row \notin BadRows

(* After a partial row the buffer refuses to begin another: the Err of     *)
(* `table` is discarded, the one of the first column is not.               *)
Accepts(row) == ~partial /\ row \notin BadRows

Push ==
    /\ pc = "ingest"
    /\ batch # <<>>
    /\ Accepts(Head(batch))
    /\ ilp' = Append(ilp, Head(batch))
    /\ partial' = FALSE
    /\ batch' = Tail(batch)
    /\ UNCHANGED <<sent, rx, pc, buffer, table, cancelled, histVars>>

(* A row is refused: ingest returns the Err, flush logs it, and the rest   *)
(* of the batch goes with it.                                              *)
PushFails ==
    /\ pc = "ingest"
    /\ batch # <<>>
    /\ ~Accepts(Head(batch))
    /\ partial' = TRUE
    /\ batch' = <<>>
    /\ refused' = TRUE
    /\ pc' = "top"
    /\ UNCHANGED <<sent, rx, buffer, ilp, table, cancelled, accepted, resent>>

(* The request is answered: Sender::flush clears the buffer.               *)
Flush ==
    /\ pc = "ingest"
    /\ batch = <<>>
    /\ table' = table \o ilp
    /\ ilp' = <<>>
    /\ pc' = "top"
    /\ UNCHANGED <<sent, rx, buffer, batch, partial, cancelled, histVars>>

(* Faulty variant: the buffer is cleared whatever came back.               *)
FlushFails_Clears ==
    /\ pc = "ingest"
    /\ batch = <<>>
    /\ UNCHANGED <<table, resent>>
    /\ ilp' = <<>>
    /\ pc' = "top"
    /\ UNCHANGED <<sent, rx, buffer, batch, partial, cancelled, accepted, refused>>

(* The request fails, before or after QuestDB stored it.  The buffer stays *)
(* as it is, and nothing tries again before another batch does.            *)
FlushFails ==
    /\ pc = "ingest"
    /\ batch = <<>>
    /\ \/ UNCHANGED <<table, resent>>
       \/ table' = table \o ilp /\ resent' = TRUE
    /\ pc' = "top"
    /\ UNCHANGED <<sent, rx, buffer, batch, ilp, partial, cancelled, accepted, refused>>

Next ==
    \/ Send \/ Cancel
    \/ Top \/ Recv \/ Tick \/ Cancelled
    \/ Push \/ PushFails \/ Flush \/ FlushFails

Spec == Init /\ [][Next]_vars

(* The runtime polls the task, its ticker ticks, and a request ends, if    *)
(* only by its timeout.  Nothing says that one ever succeeds.              *)
FairSpec ==
    /\ Spec
    /\ WF_vars(Top)
    /\ WF_vars(Recv)
    /\ WF_vars(Tick)
    /\ WF_vars(Push)
    /\ WF_vars(PushFails)
    /\ WF_vars(Flush \/ FlushFails)

-----------------------------------------------------------------------------
TypeOK ==
    /\ sent \in 0 .. MaxRows
    /\ rx \in Seq(Rows) /\ Len(rx) <= Capacity
    /\ pc \in {"top", "select", "ingest", "stopped"}
    /\ buffer \in Seq(Rows) /\ Len(buffer) < max_batch_size
    /\ batch \in Seq(Rows) /\ (pc # "ingest" => batch = <<>>)
    /\ ilp \in Seq(Rows)
    /\ partial \in BOOLEAN
    /\ table \in Seq(Rows)
    /\ cancelled \in BOOLEAN
    /\ accepted \in Seq(Rows)
    /\ resent \in BOOLEAN
    /\ refused \in BOOLEAN

(* What the database has, followed by what is on its way.                  *)
UnderWay == ((table \o ilp) \o (batch \o buffer)) \o rx

(* Between the channel and the table no row is lost, repeated or moved     *)
(* past another, through any number of failed requests, as long as no row  *)
(* was refused and no request was stored behind an error.                  *)
ExactlyOnce == ~refused /\ ~resent => UnderWay = accepted

(* Whatever failed, a row that push accepted into the buffer keeps its     *)
(* place there until a request has stored it, with an error or without.    *)
PushedIsKept ==
    [][\A n \in 1 .. Len(ilp) :
          \/ n <= Len(ilp') /\ ilp'[n] = ilp[n]
          \/ \E m \in 1 .. Len(table') : table'[m] = ilp[n]]_vars

(* A row refused half-way is the end of all storing: the partial row never *)
(* leaves the buffer, every later batch is refused at its first row, and   *)
(* nothing reaches the database until the process is restarted.            *)
PartialRowIsFinal ==
    [][partial => partial' /\ table' = table /\ ilp' = ilp]_vars

(* A row does not wait for a full batch: neither the biased select nor a   *)
(* failed request keeps it in the client.  It gets into the table or into  *)
(* the buffer that the next request sends, unless a batch is refused or    *)
(* the task told to stop.                                                  *)
In(n, q) == \E i \in 1 .. Len(q) : q[i] = n

Forwarded ==
    \A n \in Rows :
        In(n, rx) ~> (In(n, table) \/ In(n, ilp) \/ refused \/ cancelled)
=============================================================================
