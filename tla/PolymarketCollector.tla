------------------------ MODULE PolymarketCollector ------------------------
(***************************************************************************)
(* BasePolymarketCollector of shared/ingestion.py: run keeps two database  *)
(* writers and a manager alive; the manager polls every few seconds and    *)
(* keeps one market_data_worker per epoch, the next one started            *)
(* PRE_WARM_TIME before its window begins; a worker reconnects until its   *)
(* epoch is over.                                                          *)
(*                                                                         *)
(* All of it is one asyncio event loop: between two awaits a task is alone,*)
(* and while one does not await, the others and their timers stand still.  *)
(* Time is counted in whole units.  The HTTP service, the websocket and    *)
(* aiohttp are external.                                                   *)
(***************************************************************************)
EXTENDS Integers, Sequences

CONSTANTS
    Interval,       \* rotation_interval
    Offset,         \* utc_offset of the 4h collector, 0 in the others
    Grace,          \* how long a worker goes on after its window
    PRE_WARM_TIME,
    Poll,           \* the manager's sleep
    RestartDelay,   \* run's sleep before it starts again
    FetchMax,       \* the longest that fetch_mapped_tokens takes
    MaxTime,        \* bound: time
    MaxFail         \* bound: failures of a writer

VARIABLES
    now,
    run,            \* "up", or "paused" after a failure
    failedAt,       \* when a writer failed last
    fails,          \* failures so far
    mgr,            \* the manager: where it is, what it read, when it goes on
    active,         \* active_tasks: the workers the manager knows
    workers,        \* every worker created, in order
    upSince,        \* history: when the present manager started
    missed          \* history: epochs for which no tokens were found once

vars == <<now, run, failedAt, fails, mgr, active, workers, upSince, missed>>

ASSUME TimeAssumption ==
    /\ Interval \in Nat \ {0}
    /\ Offset \in Nat /\ Grace \in Nat /\ PRE_WARM_TIME \in Nat /\ Poll \in Nat
    /\ RestartDelay \in Nat /\ FetchMax \in Nat
    /\ MaxTime \in Nat /\ MaxFail \in Nat

(* get_floored_epoch: the start of the window t is in, or of a later one.  *)
FlooredEpoch(t, offset) == t - ((t + Offset) % Interval) + offset * Interval

Expiry(w) == w.epoch + Interval + Grace

(* A worker is connecting or streaming; an orphan when its session was     *)
(* closed; spinning when it asks a closed session for a connection, which  *)
(* raises without an await, again and again; or done.                      *)
Live == {"connecting", "streaming"}
Worker == [epoch : Int, at : Live \cup {"orphan", "spinning", "done"}]

MoveTo(i, a) == workers' = [workers EXCEPT ![i].at = a]

(* The event loop is taken by a worker that does not await.                *)
Blocked == \E i \in DOMAIN workers : workers[i].at = "spinning"

Init ==
    /\ now \in Interval .. 2 * Interval - 1
    /\ run = "up"
    /\ failedAt = 0
    /\ fails = 0
    /\ mgr = [at |-> "sleep", seen |-> now, cur |-> 0, next |-> 0, due |-> now]
    /\ active = {}
    /\ workers = <<>>
    /\ upSince = now
    /\ missed = {}

-----------------------------------------------------------------------------
(* manager.  ids are the workers in active_tasks, ws all of them, as they  *)
(* are at that point of the loop.                                          *)

Has(e, ids, ws) == \E i \in ids : ws[i].epoch = e

Fetch(m, which) == mgr' = [m EXCEPT !.at = which, !.due = now + FetchMax]

(* del active_tasks[e] for the workers that are done; sleep.               *)
CleanUp(m, ids, ws) ==
    /\ active' = {i \in ids : ws[i].at # "done"}
    /\ mgr' = [m EXCEPT !.at = "sleep", !.due = now + Poll]

(* Faulty variant: the next epoch is fetched when it is there.             *)
PreWarmDue_Late(m) == m.seen >= m.next
PreWarmDue(m) == m.seen > m.next - PRE_WARM_TIME

(* Faulty variant: the manager does not look whether it has a worker.      *)
PreWarm_Again(m, ids, ws) ==
    IF PreWarmDue(m) THEN active' = ids /\ Fetch(m, "fetchNext")
                     ELSE CleanUp(m, ids, ws)

(* The second half of the loop: time and epochs are those read at the head,*)
(* however long the fetch of the current epoch took.                       *)
PreWarm(m, ids, ws) ==
    IF PreWarmDue(m) /\ ~Has(m.next, ids, ws)
    THEN active' = ids /\ Fetch(m, "fetchNext")
    ELSE CleanUp(m, ids, ws)

(* The head of the loop.                                                   *)
ManagerWakes ==
    LET m == [mgr EXCEPT !.seen = now, !.cur = FlooredEpoch(now, 0),
                         !.next = FlooredEpoch(now, 1)]
    IN
    /\ mgr.at = "sleep"
    /\ now >= mgr.due
    /\ IF Has(m.cur, active, workers) THEN PreWarm(m, active, workers)
                                      ELSE UNCHANGED active /\ Fetch(m, "fetchCur")
    /\ UNCHANGED <<now, run, failedAt, fails, workers, upSince, missed>>

(* fetch_mapped_tokens returns for epoch e: with the tokens of a topic at  *)
(* least, and a worker is created, or with none.  The lists of tasks after *)
(* it are those of the manager and of the loop.                            *)
Created(e, found) ==
    IF found THEN Append(workers, [epoch |-> e, at |-> "connecting"]) ELSE workers
Known(found) == IF found THEN active \cup {Len(workers) + 1} ELSE active
Fetched(e, found) ==
    /\ workers' = Created(e, found)
    /\ missed' = IF found THEN missed ELSE missed \cup {e}
    /\ UNCHANGED <<now, run, failedAt, fails, upSince>>

CurrentFetched(found) ==
    /\ mgr.at = "fetchCur"
    /\ Fetched(mgr.cur, found)
    /\ PreWarm(mgr, Known(found), Created(mgr.cur, found))

NextFetched(found) ==
    /\ mgr.at = "fetchNext"
    /\ Fetched(mgr.next, found)
    /\ CleanUp(mgr, Known(found), Created(mgr.next, found))

-----------------------------------------------------------------------------
(* market_data_worker.                                                     *)

others == <<now, run, failedAt, fails, mgr, active, upSince, missed>>

(* ws_connect and the subscription succeed.                                *)
Connects(i) ==
    /\ workers[i].at = "connecting"
    /\ now < Expiry(workers[i])
    /\ MoveTo(i, "streaming")
    /\ UNCHANGED others

(* The connection ends, or is silent for too long: connect again.          *)
LosesConnection(i) ==
    /\ workers[i].at = "streaming"
    /\ MoveTo(i, "connecting")
    /\ UNCHANGED others

(* The epoch is over at one of the two loop heads; a worker may be late to *)
(* reach one, waiting for a frame, a full queue or its sleep.              *)
Expires(i) ==
    /\ workers[i].at \in Live
    /\ now >= Expiry(workers[i])
    /\ MoveTo(i, "done")
    /\ UNCHANGED others

(* An orphan is past the error of its lost connection and its sleep: the   *)
(* closed session raises RuntimeError before anything is awaited, the last *)
(* except clause logs it without a sleep, and the loop goes round again.   *)
OrphanWakes(i) ==
    /\ workers[i].at = "orphan"
    /\ MoveTo(i, IF now < Expiry(workers[i]) THEN "spinning" ELSE "done")
    /\ UNCHANGED others

(* Only the end of the epoch ends it.                                      *)
SpinEnds(i) ==
    /\ workers[i].at = "spinning"
    /\ now >= Expiry(workers[i])
    /\ MoveTo(i, "done")
    /\ UNCHANGED others

-----------------------------------------------------------------------------
(* run.                                                                    *)

(* The session is closed with its manager; its workers are not cancelled.  *)
Abandoned(w) == IF w.at \in Live THEN [w EXCEPT !.at = "orphan"] ELSE w

(* A writer fails: run cancels the other writer and the manager, which     *)
(* closes the session on its way out.                                      *)
WriterFails ==
    /\ run = "up"
    /\ fails < MaxFail
    /\ fails' = fails + 1
    /\ failedAt' = now
    /\ run' = "paused"
    /\ mgr' = [mgr EXCEPT !.at = "gone"]
    /\ active' = {}
    /\ workers' = [i \in DOMAIN workers |-> Abandoned(workers[i])]
    /\ UNCHANGED <<now, upSince, missed>>

(* When sleep(5) is over.                                                  *)
RestartAt == failedAt + RestartDelay

(* run goes round: new writers, and a manager that knows no worker.        *)
Restart ==
    /\ run = "paused"
    /\ now >= RestartAt
    /\ run' = "up"
    /\ mgr' = [mgr EXCEPT !.at = "sleep", !.due = now]
    /\ upSince' = now
    /\ UNCHANGED <<now, failedAt, fails, active, workers, missed>>

-----------------------------------------------------------------------------
(* What the event loop runs before time goes on: timers that are due, and  *)
(* nothing at all while a worker spins.                                    *)
Due ==
    \/ \E i \in DOMAIN workers : workers[i].at = "spinning" /\ now >= Expiry(workers[i])
    \/ ~Blocked /\ run = "paused" /\ now >= RestartAt
    \/ ~Blocked /\ mgr.at # "gone" /\ now >= mgr.due

Tick ==
    /\ now < MaxTime
    /\ ~Due
    /\ now' = now + 1
    /\ UNCHANGED <<run, failedAt, fails, mgr, active, workers, upSince, missed>>

LoopStep ==
    \/ ManagerWakes
    \/ \E found \in BOOLEAN : CurrentFetched(found) \/ NextFetched(found)
    \/ \E i \in DOMAIN workers : \/ Connects(i)
                                 \/ LosesConnection(i)
                                 \/ Expires(i)
                                 \/ OrphanWakes(i)
    \/ WriterFails
    \/ Restart

Next ==
    \/ ~Blocked /\ LoopStep
    \/ \E i \in DOMAIN workers : SpinEnds(i)
    \/ Tick

Spec == Init /\ [][Next]_vars

-----------------------------------------------------------------------------
Manager == [at : {"sleep", "fetchCur", "fetchNext", "gone"},
            seen : Int, cur : Int, next : Int, due : Int]

(* Times are integers, and workers is a list that active_tasks points into.*)
TypeOK ==
    /\ now \in Int /\ failedAt \in Int
    /\ run \in {"up", "paused"}
    /\ mgr \in Manager
    /\ workers \in Seq(Worker)
    /\ active \subseteq DOMAIN workers

(* No two workers stream one epoch, or ever will: their rows would be      *)
(* stored twice.  It holds although a new manager knows nothing of the     *)
(* workers of the old one, because theirs is a session that was closed.    *)
OneStreamPerEpoch ==
    \A i, j \in DOMAIN workers :
        i # j /\ workers[i].at \in Live /\ workers[j].at \in Live
            => workers[i].epoch # workers[j].epoch

(* While no writer failed, the window that now is in has a worker in       *)
(* active_tasks, streaming or connecting, at its first moment and at every *)
(* later one, if its tokens were found at the first attempt, though the    *)
(* manager looks only every Poll, with a clock it read before a fetch.  The*)
(* market's windows begin Offset before the multiples of Interval.         *)
Covered ==
    \A e \in now - Interval + 1 .. now :
        (e + Offset) % Interval = 0 /\ e \notin missed
        /\ fails = 0 /\ now > upSince + 2 * FetchMax
            => \E i \in active : workers[i].epoch = e /\ workers[i].at \in Live

(* "Unexpected failure, restarting in 5s": behind a failure, run has its   *)
(* writers and its manager again when RestartDelay is over.                *)
RestartsOnTime == run = "paused" => now <= failedAt + RestartDelay
=============================================================================
