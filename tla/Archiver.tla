------------------------------- MODULE Archiver -------------------------------
(***************************************************************************)
(* archiver.py: the nightly export of QuestDB's completed days to Parquet  *)
(* files, and its bookkeeping in Postgres.  A run starts with the process  *)
(* and at 00:05 of every day; days pass, rows expire and calls fail while  *)
(* it goes on, and the process may end anywhere and be started again.      *)
(*                                                                         *)
(* A table is its own registry id, a file is named by its table and date.  *)
(* Row counts are left out: nothing reads them.  Of QuestDB it is assumed  *)
(* that a day that is over gets no more rows, and that COPY shows a file   *)
(* when it is complete.                                                    *)
(***************************************************************************)
EXTENDS Integers, Sequences, FiniteSets

CONSTANTS
    Tables,         \* of the registry, all of them BRONZE
    Snapshot,       \* the _price table of a _tbt table, for those there are
    Ttl,            \* days a table's rows are kept (migrations/questdb)
    Hourly,         \* tables PARTITION BY HOUR, the _tbt ones; others BY DAY
    Overwrites,     \* COPY replaces a file; otherwise it says it exists
    Window,         \* days that get_archived_dates looks back, 14
    LastDay,        \* bound: days that pass
    MaxFaults       \* bound: calls that fail and ends of the process

ASSUME ArchiverAssumption ==
    /\ Snapshot \in [DOMAIN Snapshot -> Tables] /\ DOMAIN Snapshot \subseteq Tables
    /\ Ttl \in [Tables -> Nat \ {0}] /\ Hourly \subseteq Tables
    /\ Overwrites \in BOOLEAN
    /\ Window \in Nat /\ LastDay \in Nat \ {0} /\ MaxFaults \in Nat

Days  == 1 .. LastDay
Files == Tables \X Days
Row   == [registry : Tables, date : Days, file : Files]

VARIABLES
    day,            \* today, in UTC
    stored,         \* QuestDB: the days a table has rows of
    trimmed,        \* QuestDB: days that have lost hours
    files,          \* /archive_staging
    whole,          \* those of the files that hold every row of their day
    rows,           \* Postgres: archives
    pc,             \* where the process is
    ranOn,          \* the day on which the scheduler has last started a run
    left,           \* the run: tables that are still to come
    table, missing, date, data,
                    \* the run: table, its missing dates, the date, file_data
    runDay, calm, seen, strayed,
                    \* history: the day the run began, no call of this table
                    \* failed, runs that saw a table through, files left by
                    \* a call or a run that failed
    faults          \* how many so far

runVars == <<left, table, missing, date, data>>
ghosts  == <<runDay, calm, seen, strayed>>
world   == <<day, stored, trimmed>>
staging == <<files, whole>>

vars    == <<world, staging, rows, pc, ranOn, runVars, ghosts, faults>>

Init ==
    /\ day = 1 /\ stored = [t \in Tables |-> {1}] /\ trimmed = [t \in Tables |-> {}]
    /\ files = {} /\ whole = {} /\ rows = {}
    /\ pc = "down" /\ ranOn = 0
    /\ left = {} /\ table \in Tables /\ missing = {} /\ date = 1 /\ data = <<>>
    /\ runDay = 0 /\ calm = TRUE /\ seen = {} /\ strayed = {}
    /\ faults = 0

Fault == faults < MaxFaults /\ faults' = faults + 1
Fine  == UNCHANGED faults

InData == {data[i] : i \in DOMAIN data}

-----------------------------------------------------------------------------
(* QuestDB and the time.                                                   *)
NewDay ==
    /\ day < LastDay
    /\ day' = day + 1
    /\ stored' = [t \in Tables |-> stored[t] \cup {day + 1}]
    /\ UNCHANGED <<trimmed, staging, rows, pc, ranOn, runVars, ghosts, faults>>

(* TTL, which drops a partition when its last row is old enough.  The      *)
(* hours of day d go one by one in the course of day d + Ttl.              *)
Trim ==
    \E t \in Hourly : \E d \in stored[t] :
        /\ day >= d + Ttl[t]
        /\ trimmed' = [trimmed EXCEPT ![t] = @ \cup {d}]
        /\ UNCHANGED <<day, stored, staging, rows, pc, ranOn, runVars, ghosts, faults>>

(* After that day nothing of d is left, or need be: TTL works some time    *)
(* after it could.                                                         *)
Expire ==
    \E t \in Tables : \E d \in stored[t] :
        /\ day > d + Ttl[t]
        /\ stored' = [stored EXCEPT ![t] = @ \ {d}]
        /\ UNCHANGED <<day, trimmed, staging, rows, pc, ranOn, runVars, ghosts, faults>>

-----------------------------------------------------------------------------
(* run_smart_backfill, when the process starts and every night.  The       *)
(* scheduler starts no run while one is going on.                          *)
StartRun ==
    /\ \/ pc = "down" /\ UNCHANGED ranOn
       \/ pc = "idle" /\ ranOn < day /\ ranOn' = day
    /\ pc' = "registry"
    /\ runDay' = day
    /\ UNCHANGED <<world, staging, rows, runVars, calm, seen, strayed, faults>>

(* A run is over, and its variables with it.                               *)
Over ==
    /\ data' = <<>> /\ left' = {} /\ missing' = {} /\ date' = 1
    /\ calm' = TRUE /\ runDay' = 0
    /\ UNCHANGED <<table, seen>>

(* An exception that only run_smart_backfill catches.                      *)
Abort ==
    /\ pc' = "idle"
    /\ strayed' = strayed \cup InData
    /\ Over
    /\ Fault
    /\ UNCHANGED <<world, staging, ranOn>>

(* connect and get_bronze_tables.                                          *)
ReadRegistry ==
    /\ pc = "registry"
    /\ \/ /\ left' = Tables
          /\ pc' = "tables"
          /\ Fine
          /\ UNCHANGED <<world, staging, rows, ranOn, table, missing, date, data, ghosts>>
       \/ Abort /\ UNCHANGED rows

(* A date of Postgres is a datetime.date, one of QuestDB a string, and the *)
(* two are never equal.                                                    *)
AsDate(d)   == <<"date", d>>
AsString(d) == <<"str", d>>

GetArchivedDates(t) ==
    {AsDate(r.date) : r \in {x \in rows : x.registry = t /\ x.date >= day - Window}}

(* Faulty variant: the last completed day is taken for an open one.        *)
GetQuestdbPartitions_DayLate(t) == {AsString(d) : d \in {x \in stored[t] : x < day - 1}}

GetQuestdbPartitions(t) == {AsString(d) : d \in {x \in stored[t] : x < day}}

(* The head of the loop over the tables.  A query that fails gives the     *)
(* empty set.                                                              *)
NextTable ==
    /\ pc = "tables"
    /\ \E t \in left :
          /\ table' = t
          /\ left' = left \ {t}
          /\ \/ missing' = GetQuestdbPartitions(t) \ GetArchivedDates(t) /\ calm' = TRUE /\ Fine
             \/ missing' = {} /\ calm' = FALSE /\ Fault
             \/ missing' = GetQuestdbPartitions(t) /\ calm' = TRUE /\ Fault
    /\ pc' = "dates"
    /\ UNCHANGED <<world, staging, rows, ranOn, date, data, runDay, seen, strayed>>

EndRun ==
    /\ pc = "tables" /\ left = {}
    /\ pc' = "idle"
    /\ Over
    /\ UNCHANGED <<world, staging, rows, ranOn, strayed, faults>>

(* The head of the loop over the sorted dates.                             *)
NextDate ==
    /\ pc = "dates"
    /\ \E x \in missing :
          /\ \A y \in missing : x[2] <= y[2]
          /\ date' = x[2]
          /\ missing' = missing \ {x}
    /\ pc' = "copy"
    /\ UNCHANGED <<world, staging, rows, ranOn, left, table, data, ghosts, faults>>

EndTable ==
    /\ pc = "dates" /\ missing = {}
    /\ pc' = "tables"
    /\ seen' = IF calm /\ day = runDay THEN seen \cup {<<table, day>>} ELSE seen
    /\ calm' = TRUE
    /\ UNCHANGED <<world, staging, rows, ranOn, runVars, runDay, strayed, faults>>

-----------------------------------------------------------------------------
(* execute_copy_command for a table, file and date: the file is written,   *)
(* or is there already, or neither, or it is written and the call fails    *)
(* all the same, its reply being lost.                                     *)
Export(t) ==
    /\ Overwrites \/ <<t, date>> \notin files
    /\ files' = files \cup {<<t, date>>}
    /\ whole' = IF date \in stored[t] \ trimmed[t] THEN whole \cup {<<t, date>>}
                                                   ELSE whole \ {<<t, date>>}

Copied(t)     == Export(t) /\ Fine /\ UNCHANGED strayed
Exists(t)     == ~Overwrites /\ <<t, date>> \in files /\ Fine /\ UNCHANGED <<staging, strayed>>
Refused(t)    == Fault /\ UNCHANGED <<staging, strayed>>
Unanswered(t) == Export(t) /\ Fault /\ strayed' = strayed \cup {<<t, date>>}

(* archive_partition.  A file that exists is a success with nothing to     *)
(* record, and a failure that is logged also goes on with the next date.   *)
CopyTable ==
    /\ pc = "copy"
    /\ \/ /\ Copied(table)
          /\ data' = <<<<table, date>>>>
          /\ pc' = IF table \in DOMAIN Snapshot THEN "snapshot" ELSE "mark"
          /\ UNCHANGED calm
       \/ Exists(table) /\ pc' = "dates" /\ UNCHANGED <<data, calm>>
       \/ (Refused(table) \/ Unanswered(table)) /\ pc' = "dates" /\ calm' = FALSE /\ UNCHANGED data
    /\ UNCHANGED <<world, rows, ranOn, left, table, missing, date, runDay, seen>>

(* Faulty variant: the name is added before the file is there.             *)
CopySnapshot_NameFirst ==
    /\ pc = "snapshot"
    /\ data' = Append(data, <<Snapshot[table], date>>)
    /\ \/ Copied(Snapshot[table]) \/ Exists(Snapshot[table])
       \/ Refused(Snapshot[table]) \/ Unanswered(Snapshot[table])
    /\ pc' = "mark"
    /\ UNCHANGED <<world, rows, ranOn, left, table, missing, date, runDay, calm, seen>>

(* The snapshot table of a _tbt table; its failure is only logged.         *)
CopySnapshot ==
    /\ pc = "snapshot"
    /\ \/ Copied(Snapshot[table]) /\ data' = Append(data, <<Snapshot[table], date>>)
       \/ /\ Exists(Snapshot[table]) \/ Refused(Snapshot[table]) \/ Unanswered(Snapshot[table])
          /\ UNCHANGED data
    /\ pc' = "mark"
    /\ UNCHANGED <<world, rows, ranOn, left, table, missing, date, runDay, calm, seen>>

(* mark_as_archived: a committed INSERT for each file, ON CONFLICT DO      *)
(* NOTHING on registry, date and file.  One that fails ends the run, and   *)
(* may have been committed.                                                *)
MarkAsArchived ==
    LET recorded == rows \cup {[registry |-> table, date |-> date, file |-> Head(data)]} IN
    /\ pc = "mark"
    /\ \/ /\ rows' = recorded
          /\ data' = Tail(data)
          /\ pc' = IF Len(data) = 1 THEN "dates" ELSE "mark"
          /\ Fine
          /\ UNCHANGED <<world, staging, ranOn, left, table, missing, date, ghosts>>
       \/ Abort /\ rows' \in {rows, recorded}

(* The process ends and is restarted by its container.  QuestDB goes on    *)
(* with a COPY it was asked for.                                           *)
Crash ==
    /\ pc # "down"
    /\ pc' = "down"
    /\ \/ UNCHANGED staging /\ strayed' = strayed \cup InData
       \/ \E t \in Tables :
             /\ \/ pc = "copy" /\ t = table
                \/ pc = "snapshot" /\ t = Snapshot[table]
             /\ Export(t)
             /\ strayed' = strayed \cup InData \cup {<<t, date>>}
    /\ ranOn' = 0
    /\ Over
    /\ Fault
    /\ UNCHANGED <<world, rows>>

Next ==
    \/ NewDay \/ Trim \/ Expire
    \/ StartRun \/ ReadRegistry \/ NextTable \/ EndRun \/ NextDate \/ EndTable
    \/ CopyTable \/ CopySnapshot \/ MarkAsArchived
    \/ Crash

Spec == Init /\ [][Next]_vars

-----------------------------------------------------------------------------
(* Postgres and /archive_staging agree, for every order of the tables, of  *)
(* failures and of restarts: what is listed has been exported, and a file  *)
(* that is not listed is being recorded right now, or was left behind by a *)
(* COPY that was reported as failed or by a run that ended early.          *)
FilesAndRowsMatch ==
    /\ \A r \in rows : r.file \in files /\ r.file[2] = r.date
    /\ \A f \in files : f \in InData \/ f \in strayed \/ \E r \in rows : r.file = f

(* Day d of table t has lost nothing yet on day `now`, whenever TTL works. *)
SurelyWhole(t, d, now) == IF t \in Hourly THEN now < d + Ttl[t] ELSE now <= d + Ttl[t]

(* No day is lost as long as one run sees its table through while the day  *)
(* has all its rows: such a run leaves a file with all of them, of every   *)
(* completed day.  Where COPY overwrites, a run that comes after TTL has   *)
(* begun may put what remains of the day in its place.                     *)
SeenIsExported ==
    \A s \in seen : \A d \in Days :
        d < s[2] /\ SurelyWhole(s[1], d, s[2]) =>
            /\ <<s[1], d>> \in files
            /\ <<s[1], d>> \in whole \/ (Overwrites /\ ~SurelyWhole(s[1], d, day))

(* "`archives`: one row per archived output file and partition date"       *)
(* (docs/postgres-metadata-and-archiver.md:23), at rest after a run that   *)
(* saw every table through without a failure.                              *)
OneRowPerFile ==
    pc = "idle" /\ (\A t \in Tables : <<t, day>> \in seen) =>
        \A f \in files : Cardinality({r \in rows : r.file = f}) = 1
=============================================================================
