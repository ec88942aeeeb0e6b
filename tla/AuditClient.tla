---------------------------- MODULE AuditClient -----------------------------
(***************************************************************************)
(* The task that writes audit events to Postgres: AuditClient::run collects*)
(* events and inserts them one by one.  Without a connection it keeps its  *)
(* buffer for the next time; an insert that fails in the middle takes the  *)
(* rest of the buffer with it, because `drain` empties it when dropped.    *)
(*                                                                         *)
(* The channel never closes: main keeps a sender until the process ends.   *)
(***************************************************************************)
EXTENDS Channels

CONSTANTS
    MaxEvents,      \* bound: events sent, which are numbered
    Capacity,       \* capacity of the channel (1024 in main.rs)
    FlushAt         \* the buffer length that makes recv flush (10000)

ASSUME AuditAssumption ==
    /\ MaxEvents \in Nat
    /\ Capacity \in Nat \ {0}
    /\ FlushAt \in Nat \ {0}

Events == 1 .. MaxEvents

VARIABLES
    sent,           \* how many events were offered
    rx,             \* the channel
    pc,             \* "top" of the loop, in "select", in "flush", in "drain",
                    \* "stopped"
    buffer,         \* AuditClient.buffer
    table,          \* Postgres: pipeline_audit, in the order of the inserts
    cancelled,      \* the shutdown token
    accepted,       \* history: the events the channel took
    torn            \* history: an insert failed

vars == <<sent, rx, pc, buffer, table, cancelled, accepted, torn>>

Init ==
    /\ sent = 0
    /\ rx = <<>> /\ buffer = <<>> /\ table = <<>>
    /\ pc = "top"
    /\ cancelled = FALSE
    /\ accepted = <<>> /\ torn = FALSE

-----------------------------------------------------------------------------
Send ==
    /\ sent < MaxEvents
    /\ sent' = sent + 1
    /\ rx' = TrySend(rx, Capacity, sent + 1)
    /\ accepted' = IF HasRoom(rx, Capacity) THEN Append(accepted, sent + 1) ELSE accepted
    /\ UNCHANGED <<pc, buffer, table, cancelled, torn>>

Cancel ==
    /\ ~cancelled
    /\ cancelled' = TRUE
    /\ UNCHANGED <<sent, rx, pc, buffer, table, accepted, torn>>

(* The check at the top of the loop: no flush.                             *)
Top ==
    /\ pc = "top"
    /\ pc' = IF cancelled THEN "stopped" ELSE "select"
    /\ UNCHANGED <<sent, rx, buffer, table, cancelled, accepted, torn>>

Recv ==
    /\ pc = "select"
    /\ rx # <<>>
    /\ rx' = Tail(rx)
    /\ buffer' = Append(buffer, Head(rx))
    /\ pc' = IF Len(buffer') >= FlushAt THEN "flush" ELSE "top"
    /\ UNCHANGED <<sent, table, cancelled, accepted, torn>>

(* Faulty variant: the ticker leaves small buffers alone.                  *)
Tick_OnlyFull ==
    /\ pc = "select"
    /\ pc' = IF Len(buffer) < FlushAt THEN "top" ELSE "flush"
    /\ UNCHANGED <<sent, rx, buffer, table, cancelled, accepted, torn>>

(* The ticker of 10 s.                                                     *)
Tick ==
    /\ pc = "select"
    /\ pc' = IF buffer = <<>> THEN "top" ELSE "flush"
    /\ UNCHANGED <<sent, rx, buffer, table, cancelled, accepted, torn>>

(* The token is cancelled while the task waits: a last flush.  The top of  *)
(* the loop then breaks as this arm does.                                  *)
Cancelled ==
    /\ pc = "select"
    /\ cancelled
    /\ pc' = IF buffer = <<>> THEN "top" ELSE "flush"
    /\ UNCHANGED <<sent, rx, buffer, table, cancelled, accepted, torn>>

-----------------------------------------------------------------------------
(* flush.                                                                  *)

(* A connection from the pool and a prepared statement, or an early Err.   *)
Acquire ==
    /\ pc = "flush"
    /\ pc' \in {"drain", "top"}
    /\ UNCHANGED <<sent, rx, buffer, table, cancelled, accepted, torn>>

(* Faulty variant: an event leaves the buffer after the loop, not in it.   *)
Insert_Iter ==
    /\ pc = "drain"
    /\ table' = table \o buffer
    /\ pc' = "top"
    /\ UNCHANGED <<sent, rx, buffer, cancelled, accepted, torn>>

Insert ==
    /\ pc = "drain"
    /\ table' = Append(table, Head(buffer))
    /\ buffer' = Tail(buffer)
    /\ pc' = IF Tail(buffer) = <<>> THEN "top" ELSE "drain"
    /\ UNCHANGED <<sent, rx, cancelled, accepted, torn>>

(* Faulty variant: the buffer keeps what was not inserted, and the event   *)
(* that was being inserted.                                                *)
InsertFails_Keeps ==
    /\ pc = "drain"
    /\ table' \in {table, Append(table, Head(buffer))}
    /\ torn' = TRUE
    /\ pc' = "top"
    /\ UNCHANGED <<sent, rx, buffer, cancelled, accepted>>

(* execute returns an Err, whether or not the insert took place.           *)
InsertFails ==
    /\ pc = "drain"
    /\ table' \in {table, Append(table, Head(buffer))}
    /\ buffer' = <<>>
    /\ torn' = TRUE
    /\ pc' = "top"
    /\ UNCHANGED <<sent, rx, cancelled, accepted>>

Next == \/ Send \/ Cancel
        \/ Top \/ Recv \/ Tick \/ Cancelled
        \/ Acquire \/ Insert \/ InsertFails

Spec == Init /\ [][Next]_vars

(* The runtime polls the task; its ticker comes up and the channel is read *)
(* although the other is ready too (select picks at random); Postgres      *)
(* answers, and not every request for a connection fails.                  *)
FairSpec ==
    /\ Spec
    /\ WF_vars(Top)
    /\ SF_vars(Recv)
    /\ SF_vars(Tick)
    /\ SF_vars(Acquire /\ pc' = "drain")
    /\ WF_vars(Acquire)
    /\ WF_vars(Insert \/ InsertFails)

-----------------------------------------------------------------------------
TypeOK ==
    /\ sent \in 0 .. MaxEvents
    /\ rx \in Seq(Events) /\ Len(rx) <= Capacity
    /\ pc \in {"top", "select", "flush", "drain", "stopped"}
    /\ buffer \in Seq(Events)
    /\ pc \in {"flush", "drain"} => buffer # <<>>
    /\ table \in Seq(Events)
    /\ cancelled \in BOOLEAN
    /\ accepted \in Seq(Events)
    /\ torn \in BOOLEAN

(* Between the channel and Postgres no event is lost, repeated or moved    *)
(* past another, through any number of missing connections, as long as no  *)
(* insert failed half-way.                                                 *)
ExactlyOnce == ~torn => (table \o buffer) \o rx = accepted

(* Whatever fails, no event is inserted twice and none before an earlier   *)
(* one: what the failed insert might have left is never tried again.       *)
AtMostOnceInOrder ==
    \A i, j \in 1 .. Len(table) : i < j => table[i] < table[j]

(* Every event the channel took is inserted, however long Postgres is out  *)
(* of reach, unless an insert fails or the task is told to stop.           *)
Recorded ==
    \A n \in Events :
        (\E i \in 1 .. Len(accepted) : accepted[i] = n)
            ~> ((\E i \in 1 .. Len(table) : table[i] = n) \/ torn \/ cancelled)
=============================================================================
