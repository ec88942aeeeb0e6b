---------------------------- MODULE ArchiverProofs ----------------------------
(***************************************************************************)
(* The archiver for any tables, days, times to live and number of faults.  *)
(* The inductive invariant says what a run has in its hands: the files of  *)
(* file_data are there and belong to the date at work, every completed day *)
(* of the table that has all its rows is exported, still to come, or just  *)
(* being copied, and no file of such a day was made of a part of it.       *)
(***************************************************************************)
EXTENDS Archiver, SequenceTheorems, TLAPS

Ranges ==
    /\ day \in Days
    /\ stored \in [Tables -> SUBSET Days]
    /\ trimmed \in [Tables -> SUBSET Days]
    /\ files \subseteq Files
    /\ whole \subseteq files
    /\ rows \subseteq Row
    /\ pc \in {"down", "idle", "registry", "tables", "dates", "copy", "snapshot", "mark"}
    /\ left \subseteq Tables
    /\ table \in Tables
    /\ missing \subseteq {AsString(d) : d \in Days}
    /\ date \in Days
    /\ data \in Seq(Files)
    /\ runDay \in Nat
    /\ calm \in BOOLEAN
    /\ seen \subseteq Tables \X Days
    /\ strayed \subseteq files

(* A run has files in its hands only between the export and the record.    *)
HandsOn ==
    /\ pc \notin {"snapshot", "mark"} => data = <<>>
    /\ pc \in {"snapshot", "mark"} => data # <<>>
    /\ pc = "snapshot" => table \in DOMAIN Snapshot
    /\ \A f \in InData : f \in files /\ f[2] = date

(* A run exports days that are over.                                       *)
Completed ==
    /\ \A x \in missing : x[2] <= day
    /\ pc \in {"copy", "snapshot"} => date <= day

(* What no TTL can have touched yet is still there.                        *)
Kept ==
    /\ \A t \in Tables : \A d \in Days : d <= day /\ SurelyWhole(t, d, day) =>
          d \in stored[t] /\ d \notin trimmed[t]
    /\ \A t \in Tables : \A d \in trimmed[t] : d <= day

(* A file of a day that surely is whole was made of all of it.             *)
WholeFiles == \A t \in Tables : \A d \in Days :
    <<t, d>> \in files /\ SurelyWhole(t, d, day) => <<t, d>> \in whole

(* While a run sees its table through.                                     *)
Through ==
    /\ runDay <= day
    /\ pc \in {"dates", "copy", "snapshot", "mark"} /\ calm /\ day = runDay =>
          \A d \in Days : d < day /\ SurelyWhole(table, d, day) =>
              \/ <<table, d>> \in files
              \/ AsString(d) \in missing
              \/ pc = "copy" /\ date = d

IInv ==
    /\ Ranges /\ HandsOn /\ Completed /\ FilesAndRowsMatch
    /\ Kept /\ WholeFiles /\ Through /\ SeenIsExported

(* As the day goes on, fewer days are surely whole.                        *)
LEMMA WholeBefore ==
    ASSUME NEW t \in Tables, NEW d \in Days, NEW now \in Nat, SurelyWhole(t, d, now + 1)
    PROVE  SurelyWhole(t, d, now)
BY ArchiverAssumption DEF SurelyWhole, Days

-----------------------------------------------------------------------------
(* What is in file_data.                                                   *)
ItemsOf(s) == {s[i] : i \in DOMAIN s}

LEMMA SingleFacts ==
    ASSUME NEW S, NEW e \in S
    PROVE  /\ ItemsOf(<<e>>) = {e}
           /\ <<e>> \in Seq(S) /\ <<e>> # <<>>
BY DEF ItemsOf

LEMMA AppendFacts ==
    ASSUME NEW S, NEW s \in Seq(S), NEW e \in S
    PROVE  /\ ItemsOf(Append(s, e)) = ItemsOf(s) \cup {e}
           /\ Append(s, e) \in Seq(S) /\ Append(s, e) # <<>>
<1> DEFINE r == Append(s, e)
           n == Len(s)
<1>1. /\ DOMAIN s = 1 .. n /\ DOMAIN r = 1 .. n + 1 /\ n \in Nat
      /\ \A i \in 1 .. n : r[i] = s[i]
      /\ r[n + 1] = e
      /\ r \in Seq(S) /\ Len(r) = n + 1
  OBVIOUS
<1> HIDE DEF r, n
<1>2. /\ \A i \in DOMAIN s : i \in DOMAIN r /\ r[i] = s[i]
      /\ n + 1 \in DOMAIN r
      /\ \A i \in DOMAIN r : i \in DOMAIN s \/ i = n + 1
  BY <1>1
<1>3. ItemsOf(r) \subseteq ItemsOf(s) \cup {e}
  <2> SUFFICES ASSUME NEW i \in DOMAIN r PROVE r[i] \in ItemsOf(s) \cup {e}
    BY DEF ItemsOf
  <2>1. CASE i \in DOMAIN s
    BY <1>2, <2>1 DEF ItemsOf
  <2>2. CASE i = n + 1
    BY <1>1, <2>2
  <2>3. QED
    BY <1>2, <2>1, <2>2
<1>4. ItemsOf(s) \subseteq ItemsOf(r)
  BY <1>2 DEF ItemsOf
<1>5. e \in ItemsOf(r)
  BY <1>1, <1>2 DEF ItemsOf
<1>6. r # <<>>
  BY <1>1
<1>7. QED
  BY <1>1, <1>3, <1>4, <1>5, <1>6 DEF r

LEMMA TailFacts ==
    ASSUME NEW S, NEW s \in Seq(S), s # <<>>
    PROVE  /\ Head(s) \in S /\ Tail(s) \in Seq(S)
           /\ ItemsOf(s) = {Head(s)} \cup ItemsOf(Tail(s))
           /\ Len(s) = 1 <=> Tail(s) = <<>>
<1> DEFINE t == Tail(s)
<1>1. /\ Head(s) = s[1] /\ Head(s) \in S /\ t \in Seq(S)
      /\ Len(s) \in Nat \ {0} /\ Len(t) = Len(s) - 1
      /\ DOMAIN s = 1 .. Len(s) /\ DOMAIN t = 1 .. Len(s) - 1
      /\ \A i \in 1 .. Len(s) - 1 : t[i] = s[i + 1]
  BY HeadTailProperties, EmptySeq
<1> HIDE DEF t
<1>2. \A i \in DOMAIN s : i = 1 \/ (i - 1 \in DOMAIN t /\ s[i] = t[i - 1])
  BY <1>1
<1>3. \A i \in DOMAIN t : i + 1 \in DOMAIN s /\ t[i] = s[i + 1]
  BY <1>1
<1>4. 1 \in DOMAIN s
  BY <1>1
<1>5. ItemsOf(s) = {Head(s)} \cup ItemsOf(t)
  <2>1. \A i \in DOMAIN s : s[i] = Head(s) \/ s[i] \in ItemsOf(t)
    BY <1>1, <1>2 DEF ItemsOf
  <2>2. \A i \in DOMAIN t : t[i] \in ItemsOf(s)
    BY <1>3 DEF ItemsOf
  <2>3. Head(s) \in ItemsOf(s)
    BY <1>1, <1>4 DEF ItemsOf
  <2>4. QED
    BY <2>1, <2>2, <2>3 DEF ItemsOf
<1>6. Len(s) = 1 <=> t = <<>>
  BY <1>1, EmptySeq
<1>7. QED
  BY <1>1, <1>5, <1>6 DEF t

LEMMA InitInv == Init => IInv
<1> SUFFICES ASSUME Init PROVE IInv
  OBVIOUS
<1>1. Days = 1 .. LastDay /\ 1 \in Days /\ LastDay \in Nat \ {0}
  BY ArchiverAssumption DEF Days
<1>2. InData = {} /\ <<>> \in Seq(Files)
  BY DEF Init, InData
<1>3. Ranges
  BY <1>1, <1>2 DEF Init, Ranges
<1>4. HandsOn
  BY <1>2 DEF Init, HandsOn
<1>5. FilesAndRowsMatch /\ SeenIsExported /\ WholeFiles
  BY DEF Init, FilesAndRowsMatch, SeenIsExported, WholeFiles
<1>6. Kept
  <2> SUFFICES ASSUME NEW t \in Tables, NEW d \in Days, d <= day
               PROVE  d \in stored[t] /\ d \notin trimmed[t]
    BY DEF Kept, Init
  <2>1. d = 1
    BY <1>1 DEF Init
  <2>2. QED
    BY <2>1 DEF Init
<1>7. Through /\ Completed
  BY DEF Init, Through, Completed
<1>8. QED
  BY <1>3, <1>4, <1>5, <1>6, <1>7 DEF IInv

(* FilesAndRowsMatch and SeenIsExported survive a step that does not touch *)
(* what they speak of.                                                     *)
LEMMA MatchKept ==
    ASSUME FilesAndRowsMatch, UNCHANGED <<files, rows, data, strayed>>
    PROVE  FilesAndRowsMatch'
BY DEF FilesAndRowsMatch, InData

LEMMA SeenKept ==
    ASSUME SeenIsExported, UNCHANGED <<staging, seen, day>>
    PROVE  SeenIsExported'
BY DEF SeenIsExported, staging

LEMMA WholeKept ==
    ASSUME WholeFiles, UNCHANGED <<staging, day>>
    PROVE  WholeFiles'
BY DEF WholeFiles, staging

LEMMA WorldNext ==
    ASSUME IInv, NewDay \/ Trim \/ Expire
    PROVE  IInv'
<1> USE DEF IInv
<1>0. /\ Days = 1 .. LastDay /\ LastDay \in Nat /\ \A t \in Tables : Ttl[t] \in Nat
      /\ day \in Nat /\ runDay \in Nat /\ Days \subseteq Nat
  BY ArchiverAssumption DEF Days, Ranges
<1>1. /\ UNCHANGED <<staging, rows, pc, ranOn, runVars, ghosts, faults>>
      /\ InData' = InData
  BY DEF NewDay, Trim, Expire, InData, runVars
<1>2. HandsOn' /\ FilesAndRowsMatch' /\ Completed'
  <2>1. day <= day'
    BY <1>0 DEF NewDay, Trim, Expire
  <2>2. day' \in Nat
    BY <1>0 DEF NewDay, Trim, Expire
  <2>3. missing \subseteq {AsString(d) : d \in Days}
    BY DEF Ranges
  <2>4. \A x \in missing : x[2] \in Nat
    BY <1>0, <2>3 DEF AsString
  <2>5. Completed'
    BY <1>0, <1>1, <2>1, <2>2, <2>4 DEF Completed, Ranges, runVars
  <2>6. QED
    BY <1>1, <2>5, MatchKept DEF HandsOn, runVars, ghosts, staging
<1>3. CASE NewDay
  <2>1. /\ day' = day + 1 /\ day' \in Days /\ UNCHANGED trimmed
        /\ stored' = [t \in Tables |-> stored[t] \cup {day + 1}]
    BY <1>0, <1>3 DEF NewDay
  <2>2. Ranges'
    BY <1>1, <2>1 DEF Ranges, runVars, ghosts, staging
  <2>3. Kept'
    <3>0. \A t \in Tables : \A d \in trimmed'[t] : d <= day'
      BY <1>0, <2>1 DEF Kept, Ranges
    <3> SUFFICES ASSUME NEW t \in Tables, NEW d \in Days, d <= day + 1, SurelyWhole(t, d, day + 1)
                 PROVE  d \in stored'[t] /\ d \notin trimmed'[t]
      BY <2>1, <3>0 DEF Kept, SurelyWhole
    <3>1. CASE d <= day
      <4>1. SurelyWhole(t, d, day)
        BY <1>0, WholeBefore
      <4>2. d \in stored[t] /\ d \notin trimmed[t]
        BY <3>1, <4>1 DEF Kept
      <4>3. QED
        BY <2>1, <4>2
    <3>2. CASE d = day + 1
      BY <1>0, <2>1, <3>2 DEF Kept
    <3>3. QED
      BY <1>0, <3>1, <3>2
  <2>4. Through'
    BY <1>0, <1>1, <2>1 DEF Through, ghosts
  <2>5. WholeFiles'
    <3> SUFFICES ASSUME NEW t \in Tables, NEW d \in Days,
                        <<t, d>> \in files, SurelyWhole(t, d, day + 1)
                 PROVE  <<t, d>> \in whole
      BY <1>1, <2>1 DEF WholeFiles, staging, SurelyWhole
    <3>1. SurelyWhole(t, d, day)
      BY <1>0, WholeBefore
    <3>2. QED
      BY <3>1 DEF WholeFiles
  <2>6. SeenIsExported'
    <3> SUFFICES ASSUME NEW s \in seen, NEW d \in Days, d < s[2], SurelyWhole(s[1], d, s[2])
                 PROVE  /\ <<s[1], d>> \in files
                        /\ <<s[1], d>> \in whole \/ (Overwrites /\ ~SurelyWhole(s[1], d, day + 1))
      BY <1>1, <2>1 DEF SeenIsExported, staging, ghosts, SurelyWhole
    <3>1. /\ <<s[1], d>> \in files
          /\ <<s[1], d>> \in whole \/ (Overwrites /\ ~SurelyWhole(s[1], d, day))
      BY DEF SeenIsExported
    <3>2. s[1] \in Tables
      BY DEF Ranges
    <3>3. SurelyWhole(s[1], d, day + 1) => SurelyWhole(s[1], d, day)
      BY <1>0, <3>2, WholeBefore
    <3>4. QED
      BY <3>1, <3>3
  <2>7. QED
    BY <1>2, <2>2, <2>3, <2>4, <2>5, <2>6
<1>4. CASE Trim
  <2>1. PICK t \in Hourly : \E d \in stored[t] :
            /\ day >= d + Ttl[t]
            /\ trimmed' = [trimmed EXCEPT ![t] = @ \cup {d}]
    BY <1>4 DEF Trim
  <2>2. UNCHANGED <<day, stored>> /\ t \in Tables
    BY <1>4, ArchiverAssumption DEF Trim
  <2>3. Ranges'
    BY <1>1, <2>1, <2>2 DEF Ranges, runVars, ghosts, staging
  <2>4. Kept'
    BY <1>0, <2>1, <2>2 DEF Kept, Ranges, SurelyWhole
  <2>5. Through'
    BY <1>1, <2>2 DEF Through, runVars, ghosts, staging
  <2>6. WholeFiles' /\ SeenIsExported'
    BY <1>1, <2>2, WholeKept, SeenKept DEF ghosts
  <2>7. QED
    BY <1>2, <2>3, <2>4, <2>5, <2>6
<1>5. CASE Expire
  <2>1. PICK t \in Tables : \E d \in stored[t] :
            /\ day > d + Ttl[t]
            /\ stored' = [stored EXCEPT ![t] = @ \ {d}]
    BY <1>5 DEF Expire
  <2>2. UNCHANGED <<day, trimmed>>
    BY <1>5 DEF Expire
  <2>3. Ranges'
    BY <1>1, <2>1, <2>2 DEF Ranges, runVars, ghosts, staging
  <2>4. Kept'
    BY <1>0, <2>1, <2>2 DEF Kept, Ranges, SurelyWhole
  <2>5. Through'
    BY <1>1, <2>2 DEF Through, runVars, ghosts, staging
  <2>6. WholeFiles' /\ SeenIsExported'
    BY <1>1, <2>2, WholeKept, SeenKept DEF ghosts
  <2>7. QED
    BY <1>2, <2>3, <2>4, <2>5, <2>6
<1>6. QED
  BY <1>3, <1>4, <1>5

(* A file written, with its reply or without.                              *)
LEMMA ExportNext ==
    ASSUME IInv, NEW t \in Tables, Export(t), pc \in {"copy", "snapshot"},
           UNCHANGED <<world, seen>>
    PROVE  /\ files' = files \cup {<<t, date>>} /\ <<t, date>> \in Files
           /\ whole' \subseteq files'
           /\ WholeFiles' /\ SeenIsExported'
<1> USE DEF IInv
<1> DEFINE f == <<t, date>>
<1>1. /\ files' = files \cup {f}
      /\ whole' = IF date \in stored[t] \ trimmed[t] THEN whole \cup {f} ELSE whole \ {f}
      /\ UNCHANGED <<day, stored, trimmed, seen>>
      /\ ~Overwrites => f \notin files
  BY DEF Export, world
<1>2. f \in Files /\ whole \subseteq files /\ date \in Days
  BY DEF Ranges, Files
<1>3. date <= day /\ SurelyWhole(t, date, day) => f \in whole'
  BY <1>1, <1>2 DEF Kept
<1>4. \A u \in Tables : \A d \in Days : <<u, d>> # f =>
         (<<u, d>> \in whole' <=> <<u, d>> \in whole)
  BY <1>1
<1>5. SurelyWhole(t, date, day) => f \in whole'
  BY <1>3 DEF Completed
<1> HIDE DEF f
<1>6. WholeFiles'
  <2> SUFFICES ASSUME NEW u \in Tables, NEW d \in Days,
                      <<u, d>> \in files', SurelyWhole(u, d, day)
               PROVE  <<u, d>> \in whole'
    BY <1>1 DEF WholeFiles, SurelyWhole
  <2>1. CASE <<u, d>> = f
    <3>1. u = t /\ d = date
      BY <2>1 DEF f
    <3>2. QED
      BY <1>5, <2>1, <3>1
  <2>2. CASE <<u, d>> # f
    BY <1>1, <1>4, <2>2 DEF WholeFiles
  <2>3. QED
    BY <2>1, <2>2
<1>7. SeenIsExported'
  <2> SUFFICES ASSUME NEW s \in seen, NEW d \in Days, d < s[2], SurelyWhole(s[1], d, s[2])
               PROVE  /\ <<s[1], d>> \in files'
                      /\ <<s[1], d>> \in whole' \/ (Overwrites /\ ~SurelyWhole(s[1], d, day))
    BY <1>1 DEF SeenIsExported, SurelyWhole
  <2>1. /\ <<s[1], d>> \in files
        /\ <<s[1], d>> \in whole \/ (Overwrites /\ ~SurelyWhole(s[1], d, day))
    BY DEF SeenIsExported
  <2>2. CASE <<s[1], d>> = f
    <3>1. s[1] = t /\ d = date
      BY <2>2 DEF f
    <3>2. Overwrites
      BY <1>1, <2>1, <2>2
    <3>3. QED
      BY <1>1, <1>5, <2>1, <2>2, <3>1, <3>2
  <2>3. CASE <<s[1], d>> # f
    <3>1. s[1] \in Tables
      BY DEF Ranges
    <3>2. QED
      BY <1>1, <1>4, <2>1, <2>3, <3>1
  <2>4. QED
    BY <2>2, <2>3
<1>8. QED
  BY <1>1, <1>2, <1>6, <1>7 DEF f

(* The variables of a run that is over say nothing any more.               *)
LEMMA OverNext ==
    ASSUME IInv, Over, pc' \in {"idle", "down"}, UNCHANGED world,
           files' \subseteq Files, whole' \subseteq files', strayed' \subseteq files',
           rows' \subseteq Row,
           FilesAndRowsMatch', WholeFiles', SeenIsExported'
    PROVE  IInv'
<1> USE DEF IInv
<1>1. /\ data' = <<>> /\ left' = {} /\ missing' = {} /\ date' = 1 /\ calm' = TRUE
      /\ runDay' = 0 /\ UNCHANGED <<table, seen>>
  BY DEF Over
<1>2. InData' = {}
  BY <1>1 DEF InData
<1>3. 1 \in Days /\ day \in Nat
  BY ArchiverAssumption DEF Days, Ranges
<1>4. <<>> \in Seq(Files)
  OBVIOUS
<1>5. Ranges'
  BY <1>1, <1>3, <1>4 DEF Ranges, world
<1>6. HandsOn'
  BY <1>1, <1>2 DEF HandsOn
<1>7. Kept' /\ Through' /\ Completed'
  BY <1>1, <1>3 DEF Kept, Through, Completed, world
<1>8. QED
  BY <1>5, <1>6, <1>7

(* What is in hand when a run ends early strays.                           *)
LEMMA CutShortMatch ==
    ASSUME IInv, Over, files \subseteq files', rows \subseteq rows',
           \A r \in rows' : r \in rows \/ (r.file \in files /\ r.file[2] = r.date),
           \A f \in files' : f \in files \/ f \in strayed',
           strayed \cup InData \subseteq strayed'
    PROVE  FilesAndRowsMatch'
BY DEF IInv, FilesAndRowsMatch

(* An exception, with the last INSERT committed or not.                    *)
LEMMA AbortNext ==
    ASSUME IInv, Abort,
           \/ rows' = rows
           \/ /\ data # <<>>
              /\ rows' = rows \cup {[registry |-> table, date |-> date, file |-> Head(data)]}
    PROVE  IInv'
<1> USE DEF IInv
<1>1. /\ UNCHANGED <<world, staging, seen>> /\ Over
      /\ strayed' = strayed \cup InData /\ pc' = "idle"
  BY DEF Abort, Over
<1>2. InData \subseteq files /\ strayed \subseteq files /\ rows \subseteq Row /\ files \subseteq Files
      /\ whole \subseteq files
  BY DEF Ranges, HandsOn
<1>3. ASSUME data # <<>>
      PROVE  LET r == [registry |-> table, date |-> date, file |-> Head(data)]
             IN  r \in Row /\ r.file \in files /\ r.file[2] = r.date
  <2>1. data \in Seq(Files)
    BY DEF Ranges
  <2>2. Head(data) \in ItemsOf(data) /\ Head(data) \in Files
    BY <1>3, <2>1, TailFacts
  <2>3. Head(data) \in files /\ Head(data)[2] = date
    BY <2>2 DEF HandsOn, InData, ItemsOf
  <2>4. QED
    BY <2>2, <2>3 DEF Row, Ranges
<1>4. /\ rows \subseteq rows' /\ rows' \subseteq Row
      /\ \A r \in rows' : r \in rows \/ (r.file \in files /\ r.file[2] = r.date)
  BY <1>2, <1>3
<1>5. FilesAndRowsMatch'
  BY <1>1, <1>2, <1>4, CutShortMatch DEF staging
<1>6. WholeFiles' /\ SeenIsExported'
  BY <1>1, WholeKept, SeenKept DEF world
<1>7. /\ files' \subseteq Files /\ whole' \subseteq files' /\ strayed' \subseteq files'
      /\ rows' \subseteq Row
  BY <1>1, <1>2, <1>4 DEF staging
<1>8. QED
  BY <1>1, <1>5, <1>6, <1>7, OverNext

LEMMA CrashNext ==
    ASSUME IInv, Crash
    PROVE  IInv'
<1> USE DEF IInv
<1>1. Over /\ pc' = "down" /\ UNCHANGED <<world, rows, seen>>
  BY DEF Crash, Over
<1>2. InData \subseteq files /\ strayed \subseteq files /\ rows \subseteq Row /\ files \subseteq Files
      /\ whole \subseteq files
  BY DEF Ranges, HandsOn
<1>3. CASE UNCHANGED staging /\ strayed' = strayed \cup InData
  <2>1. FilesAndRowsMatch'
    BY <1>1, <1>2, <1>3, CutShortMatch DEF staging
  <2>2. WholeFiles' /\ SeenIsExported'
    BY <1>1, <1>3, WholeKept, SeenKept DEF world
  <2>3. /\ files' \subseteq Files /\ whole' \subseteq files' /\ strayed' \subseteq files'
        /\ rows' \subseteq Row
    BY <1>1, <1>2, <1>3 DEF staging
  <2>4. QED
    BY <1>1, <2>1, <2>2, <2>3, OverNext
<1>4. CASE \E t \in Tables : Export(t) /\ pc \in {"copy", "snapshot"} /\ strayed' = strayed \cup InData \cup {<<t, date>>}
  <2>1. PICK t \in Tables : Export(t) /\ pc \in {"copy", "snapshot"} /\ strayed' = strayed \cup InData \cup {<<t, date>>}
    BY <1>4
  <2>2. /\ files' = files \cup {<<t, date>>} /\ <<t, date>> \in Files
        /\ whole' \subseteq files' /\ WholeFiles' /\ SeenIsExported'
    BY <1>1, <2>1, ExportNext
  <2>3. FilesAndRowsMatch'
    BY <1>1, <1>2, <2>1, <2>2, CutShortMatch
  <2>4. /\ files' \subseteq Files /\ strayed' \subseteq files' /\ rows' \subseteq Row
    BY <1>1, <1>2, <2>1, <2>2
  <2>5. QED
    BY <1>1, <2>2, <2>3, <2>4, OverNext
<1>5. QED
  BY <1>3, <1>4 DEF Crash

(* The steps of a run between one export and the next.                     *)
LEMMA LoopNext ==
    ASSUME IInv, StartRun \/ EndRun \/ NextTable \/ NextDate \/ EndTable
    PROVE  IInv'
<1> USE DEF IInv
<1>0. /\ UNCHANGED <<world, staging, rows, data, strayed>> /\ InData' = InData
      /\ data = <<>> /\ InData = {}
      /\ \A t \in Tables : Ttl[t] \in Nat
      /\ day \in Nat /\ Days \subseteq Nat
  <2>1. UNCHANGED <<world, staging, rows, data, strayed>> /\ data = <<>>
    BY DEF StartRun, EndRun, NextTable, NextDate, EndTable, Over, runVars, ghosts, HandsOn
  <2>2. QED
    BY <2>1, ArchiverAssumption DEF InData, Ranges, Days
<1>1. Kept' /\ FilesAndRowsMatch' /\ WholeFiles'
  BY <1>0, MatchKept, WholeKept DEF Kept, world, staging
<1>2. CASE StartRun
  <2>1. pc' = "registry" /\ runDay' = day /\ UNCHANGED <<left, table, missing, date, calm, seen>>
    BY <1>2 DEF StartRun, runVars
  <2>2. Ranges' /\ HandsOn' /\ Through' /\ Completed'
    BY <1>0, <2>1 DEF Ranges, HandsOn, Through, Completed, world, staging
  <2>3. QED
    BY <1>0, <1>1, <2>1, <2>2, SeenKept DEF world
<1>3. CASE EndRun
  <2>1. Over /\ pc' = "idle" /\ UNCHANGED seen
    BY <1>3 DEF EndRun, Over
  <2>2. SeenIsExported'
    BY <1>0, <2>1, SeenKept DEF world
  <2>3. /\ files' \subseteq Files /\ whole' \subseteq files' /\ strayed' \subseteq files'
        /\ rows' \subseteq Row
    BY <1>0 DEF Ranges, staging
  <2>4. QED
    BY <1>0, <1>1, <2>1, <2>2, <2>3, OverNext
<1>4. CASE NextTable
  <2>1. PICK t \in left :
           /\ table' = t /\ left' = left \ {t}
           /\ \/ missing' = GetQuestdbPartitions(t) \ GetArchivedDates(t) /\ calm' = TRUE
              \/ missing' = {} /\ calm' = FALSE
              \/ missing' = GetQuestdbPartitions(t) /\ calm' = TRUE
    BY <1>4 DEF NextTable
  <2>2. pc' = "dates" /\ UNCHANGED <<date, runDay, seen>>
    BY <1>4 DEF NextTable
  <2>3. /\ GetQuestdbPartitions(t) \ GetArchivedDates(t) = GetQuestdbPartitions(t)
        /\ GetQuestdbPartitions(t) \subseteq {AsString(d) : d \in Days}
    <3>1. \A d, e : AsString(d) # AsDate(e)
      BY DEF AsString, AsDate
    <3>2. QED
      BY <3>1 DEF GetQuestdbPartitions, GetArchivedDates, Ranges
  <2>4. Ranges' /\ HandsOn' /\ Completed'
    <3>1. Ranges' /\ HandsOn'
      BY <1>0, <2>1, <2>2, <2>3 DEF Ranges, HandsOn, world, staging
    <3>2. \A x \in GetQuestdbPartitions(t) : x[2] <= day
      <4>1. t \in Tables /\ stored \in [Tables -> SUBSET Days] /\ day \in Days
        BY <1>0 DEF Ranges
      <4>2. stored[t] \subseteq Nat /\ day \in Nat
        BY <4>1, ArchiverAssumption DEF Days
      <4>3. \A d \in stored[t] : d < day => d <= day
        BY <4>2
      <4>4. \A d : AsString(d)[2] = d
        BY DEF AsString
      <4>5. QED
        BY <4>3, <4>4 DEF GetQuestdbPartitions
    <3>3. Completed'
      BY <1>0, <2>1, <2>2, <3>2 DEF Completed, world
    <3>4. QED
      BY <3>1, <3>3
  <2>5. Through'
    <3>1. ASSUME calm', NEW d \in Days, d < day, SurelyWhole(t, d, day)
          PROVE  AsString(d) \in missing'
      <4>0. t \in Tables /\ Ttl[t] \in Nat /\ d \in Nat /\ day \in Nat
        BY ArchiverAssumption DEF Ranges, Days
      <4>1a. d \in stored[t]
        BY <3>1, <4>0 DEF Kept
      <4>1b. missing' = GetQuestdbPartitions(t)
        BY <2>1, <2>3, <3>1
      <4>1. d \in stored[t] /\ missing' = GetQuestdbPartitions(t)
        BY <4>1a, <4>1b
      <4>2. QED
        BY <3>1, <4>1 DEF GetQuestdbPartitions
    <3>2. table' = t /\ pc' = "dates" /\ UNCHANGED <<day, runDay>>
      BY <1>0, <2>1, <2>2 DEF world
    <3>3. QED
      BY <3>1, <3>2 DEF Through, SurelyWhole
  <2>6. QED
    BY <1>0, <1>1, <2>2, <2>4, <2>5, SeenKept DEF world
<1>5. CASE NextDate
  <2>1. PICK x \in missing : date' = x[2] /\ missing' = missing \ {x}
    BY <1>5 DEF NextDate
  <2>2. pc = "dates" /\ pc' = "copy" /\ UNCHANGED <<left, table, runDay, calm, seen>>
    BY <1>5 DEF NextDate, ghosts
  <2>3. PICK e \in Days : x = AsString(e)
    BY DEF Ranges
  <2>4. date' = e
    BY <2>1, <2>3 DEF AsString
  <2>5. Ranges' /\ HandsOn' /\ Completed'
    BY <1>0, <2>1, <2>2, <2>4 DEF Ranges, HandsOn, Completed, world, staging
  <2>6. Through'
    <3>1. \A d \in Days : AsString(d) \in missing => AsString(d) \in missing' \/ d = date'
      BY <2>1, <2>3, <2>4 DEF AsString
    <3>2. QED
      BY <1>0, <2>2, <3>1 DEF Through, world, staging
  <2>7. QED
    BY <1>0, <1>1, <2>2, <2>5, <2>6, SeenKept DEF world
<1>6. CASE EndTable
  <2>1. /\ pc = "dates" /\ missing = {} /\ pc' = "tables" /\ calm' = TRUE
        /\ seen' = IF calm /\ day = runDay THEN seen \cup {<<table, day>>} ELSE seen
        /\ UNCHANGED <<left, table, missing, date, runDay>>
    BY <1>6 DEF EndTable, runVars
  <2>2. Ranges' /\ HandsOn' /\ Through' /\ Completed'
    BY <1>0, <2>1 DEF Ranges, HandsOn, Through, Completed, world, staging
  <2>3. SeenIsExported'
    <3>1. CASE calm /\ day = runDay
      <4>1. \A d \in Days : d < day /\ SurelyWhole(table, d, day) => <<table, d>> \in files
        BY <2>1, <3>1 DEF Through
      <4>2. \A d \in Days : d < day /\ SurelyWhole(table, d, day) =>
               <<table, d>> \in files /\ <<table, d>> \in whole
        BY <4>1 DEF WholeFiles, Ranges
      <4>3. seen' = seen \cup {<<table, day>>} /\ UNCHANGED <<day, files, whole>>
        BY <1>0, <2>1, <3>1 DEF world, staging
      <4>4. QED
        BY <4>2, <4>3 DEF SeenIsExported, SurelyWhole
    <3>2. CASE ~(calm /\ day = runDay)
      BY <1>0, <2>1, <3>2, SeenKept DEF world
    <3>3. QED
      BY <3>1, <3>2
  <2>4. QED
    BY <1>0, <1>1, <2>2, <2>3
<1>7. QED
  BY <1>2, <1>3, <1>4, <1>5, <1>6

LEMMA CopyNext ==
    ASSUME IInv, CopyTable \/ CopySnapshot
    PROVE  IInv'
<1> USE DEF IInv
<1> DEFINE t == IF pc = "copy" THEN table ELSE Snapshot[table]
           f == <<t, date>>
<1>1. /\ UNCHANGED <<world, rows, left, table, missing, date, runDay, seen>>
      /\ InData = ItemsOf(data) /\ InData' = ItemsOf(data')
      /\ pc \in {"copy", "snapshot"} /\ pc' \in {"dates", "snapshot", "mark"}
  BY DEF CopyTable, CopySnapshot, InData, ItemsOf
<1>2. t \in Tables /\ f \in Files /\ f[2] = date
  BY <1>1, ArchiverAssumption DEF Ranges, HandsOn, Files
<1>3. \/ /\ Copied(t) /\ data' \in Seq(Files) /\ data' # <<>> /\ InData' = InData \cup {f}
         /\ UNCHANGED calm
         /\ \/ pc = "copy" /\ pc' = IF table \in DOMAIN Snapshot THEN "snapshot" ELSE "mark"
            \/ pc = "snapshot" /\ pc' = "mark"
      \/ /\ Exists(t) \/ Refused(t) \/ Unanswered(t)
         /\ UNCHANGED data /\ InData' = InData
         /\ \/ pc = "copy" /\ pc' = "dates" /\ (Exists(t) \/ calm' = FALSE) /\ calm' \in {calm, FALSE}
            \/ pc = "snapshot" /\ pc' = "mark" /\ UNCHANGED calm
  <2>1. CASE CopyTable
    <3>1. t = table /\ pc = "copy" /\ data = <<>>
      BY <2>1 DEF CopyTable, HandsOn
    <3>2. CASE /\ Copied(table) /\ data' = <<f>> /\ UNCHANGED calm
               /\ pc' = IF table \in DOMAIN Snapshot THEN "snapshot" ELSE "mark"
      <4>1. UNCHANGED calm /\ pc' = IF table \in DOMAIN Snapshot THEN "snapshot" ELSE "mark"
        BY <3>2
      <4> HIDE DEF f
      <4>2. ItemsOf(<<f>>) = {f} /\ <<f>> \in Seq(Files) /\ <<f>> # <<>>
        BY <1>2, SingleFacts
      <4>3. InData = {}
        BY <1>1, <3>1 DEF ItemsOf
      <4>4. QED
        BY <1>1, <3>1, <3>2, <4>1, <4>2, <4>3
    <3>3. CASE Exists(table) /\ pc' = "dates" /\ UNCHANGED <<data, calm>>
      BY <1>1, <3>1, <3>3 DEF Ranges
    <3>4. CASE (Refused(table) \/ Unanswered(table)) /\ pc' = "dates" /\ calm' = FALSE /\ UNCHANGED data
      BY <1>1, <3>1, <3>4
    <3>5. QED
      BY <2>1, <3>1, <3>2, <3>3, <3>4 DEF CopyTable
  <2>2. CASE CopySnapshot
    <3>1. t = Snapshot[table] /\ pc = "snapshot" /\ pc' = "mark" /\ UNCHANGED calm
      BY <2>2 DEF CopySnapshot
    <3>2. CASE Copied(Snapshot[table]) /\ data' = Append(data, f)
      <4> HIDE DEF f
      <4>1. data \in Seq(Files)
        BY DEF Ranges
      <4>2. /\ ItemsOf(Append(data, f)) = ItemsOf(data) \cup {f}
            /\ Append(data, f) \in Seq(Files) /\ Append(data, f) # <<>>
        BY <1>2, <4>1, AppendFacts
      <4>3. QED
        BY <1>1, <3>1, <3>2, <4>2
    <3>3. CASE /\ Exists(Snapshot[table]) \/ Refused(Snapshot[table]) \/ Unanswered(Snapshot[table])
               /\ UNCHANGED data
      BY <1>1, <3>1, <3>3
    <3>4. QED
      BY <2>2, <3>1, <3>2, <3>3 DEF CopySnapshot
  <2>3. QED
    BY <2>1, <2>2
<1>4. /\ files \subseteq files' /\ files' \subseteq Files /\ whole' \subseteq files'
      /\ WholeFiles' /\ SeenIsExported' /\ strayed' \subseteq files' /\ strayed \subseteq strayed'
      /\ Copied(t) => f \in files' /\ files' = files \cup {f}
      /\ Exists(t) => f \in files' /\ UNCHANGED <<files, strayed>>
      /\ Refused(t) => UNCHANGED <<files, strayed>>
      /\ Unanswered(t) => files' = files \cup {f} /\ f \in strayed'
  <2>1. strayed \subseteq files /\ files \subseteq Files /\ whole \subseteq files
    BY DEF Ranges
  <2>2. CASE Export(t) /\ (UNCHANGED strayed \/ strayed' = strayed \cup {f})
    <3>1. /\ files' = files \cup {f} /\ whole' \subseteq files'
          /\ WholeFiles' /\ SeenIsExported'
      BY <1>1, <1>2, <2>2, ExportNext
    <3> HIDE DEF f, t
    <3>2. Exists(t) => f \in files' /\ UNCHANGED <<files, strayed>>
      BY <3>1 DEF Exists, staging
    <3>3. Refused(t) => UNCHANGED <<files, strayed>>
      BY DEF Refused, staging
    <3>4. Unanswered(t) => files' = files \cup {f} /\ f \in strayed'
      BY <3>1 DEF Unanswered, f
    <3>5. /\ files \subseteq files' /\ files' \subseteq Files /\ strayed \subseteq strayed'
          /\ strayed' \subseteq files' /\ f \in files'
      BY <1>2, <2>1, <2>2, <3>1
    <3>6. QED
      BY <3>1, <3>2, <3>3, <3>4, <3>5
  <2>3. CASE UNCHANGED <<staging, strayed>>
    <3>1. WholeFiles' /\ SeenIsExported'
      BY <1>1, <2>3, WholeKept, SeenKept DEF world
    <3>2. Copied(t) => f \in files' /\ files' = files \cup {f}
      BY DEF Copied, Export
    <3>3. Unanswered(t) => files' = files \cup {f} /\ f \in strayed'
      BY DEF Unanswered, Export
    <3>4. Exists(t) => f \in files'
      BY <2>3 DEF Exists, staging
    <3> HIDE DEF f, t
    <3>5. QED
      BY <2>1, <2>3, <3>1, <3>2, <3>3, <3>4 DEF staging
  <2>4. QED
    BY <1>3, <2>2, <2>3 DEF Copied, Exists, Refused, Unanswered
<1>5. Kept'
  BY <1>1 DEF Kept, world
<1>6. Completed'
  BY <1>1 DEF Completed, world
<1>7. Through'
  <2>1. /\ pc' # "copy" /\ UNCHANGED <<day, runDay, table, missing, date>>
        /\ pc = "copy" /\ calm' => f \in files'
        /\ calm' => calm
    <3>1. calm \in BOOLEAN
      BY DEF Ranges
    <3>2. pc' # "copy" /\ UNCHANGED <<day, runDay, table, missing, date>>
      BY <1>1 DEF world
    <3> HIDE DEF f, t
    <3>3. pc = "copy" /\ calm' => f \in files'
      BY <1>3, <1>4
    <3>4. calm' => calm
      BY <1>3, <3>1
    <3>5. QED
      BY <3>2, <3>3, <3>4
  <2>2. ASSUME calm', day = runDay, NEW d \in Days, d < day, SurelyWhole(table, d, day)
        PROVE  <<table, d>> \in files' \/ AsString(d) \in missing
    <3>1. \/ <<table, d>> \in files
          \/ AsString(d) \in missing
          \/ pc = "copy" /\ date = d
      BY <1>1, <2>1, <2>2 DEF Through
    <3>2. pc = "copy" /\ date = d => <<table, d>> \in files'
      BY <2>1, <2>2
    <3>3. QED
      BY <1>4, <3>1, <3>2
  <2>3. QED
    BY <2>1, <2>2 DEF Through, SurelyWhole
<1> HIDE DEF f, t
<1>8. HandsOn'
  <2>1. CASE InData' = InData \cup {f} /\ f \in files' /\ data' # <<>>
    BY <1>1, <1>2, <1>3, <1>4, <2>1 DEF HandsOn
  <2>2. CASE InData' = InData /\ UNCHANGED data
    BY <1>1, <1>3, <1>4, <2>2 DEF HandsOn
  <2>3. QED
    BY <1>3, <1>4, <2>1, <2>2
<1>9. Ranges'
  <2>1. data' \in Seq(Files) /\ calm' \in BOOLEAN
    BY <1>3 DEF Ranges
  <2>2. QED
    BY <1>1, <1>4, <2>1 DEF Ranges, world
<1>10. FilesAndRowsMatch'
  <2>1. ASSUME NEW e \in files'
        PROVE  e \in InData' \/ e \in strayed' \/ \E r \in rows : r.file = e
    <3>1. CASE e \in files
      BY <1>3, <1>4, <3>1 DEF FilesAndRowsMatch
    <3>2. CASE e \notin files
      BY <1>3, <1>4, <2>1, <3>2
    <3>3. QED
      BY <3>1, <3>2
  <2>2. QED
    BY <1>1, <1>4, <2>1 DEF FilesAndRowsMatch
<1>11. QED
  BY <1>4, <1>5, <1>6, <1>7, <1>8, <1>9, <1>10

(* One file recorded.                                                      *)
Record ==
    /\ pc = "mark"
    /\ rows' = rows \cup {[registry |-> table, date |-> date, file |-> Head(data)]}
    /\ data' = Tail(data)
    /\ pc' = IF Len(data) = 1 THEN "dates" ELSE "mark"
    /\ UNCHANGED <<world, staging, ranOn, left, table, missing, date, ghosts>>

LEMMA RecordNext ==
    ASSUME IInv, Record
    PROVE  IInv'
<1> USE DEF IInv
<1> DEFINE h == Head(data)
<1>1. /\ h \in Files /\ Tail(data) \in Seq(Files)
      /\ InData = ItemsOf(data) /\ InData' = ItemsOf(Tail(data))
      /\ InData = {h} \cup InData'
      /\ Len(data) = 1 <=> Tail(data) = <<>>
      /\ data # <<>>
  <2>1. data \in Seq(Files) /\ data # <<>>
    BY DEF Record, Ranges, HandsOn
  <2>2. InData = ItemsOf(data) /\ InData' = ItemsOf(Tail(data))
    BY DEF Record, InData, ItemsOf
  <2>3. QED
    BY <2>1, <2>2, TailFacts
<1> HIDE DEF h
<1>2. /\ rows' = rows \cup {[registry |-> table, date |-> date, file |-> h]}
      /\ data' = Tail(data) /\ pc = "mark"
      /\ pc' = IF Len(data) = 1 THEN "dates" ELSE "mark"
      /\ UNCHANGED <<world, staging, left, table, missing, date, runDay, calm, seen, strayed>>
  BY DEF Record, ghosts, h
<1>3. [registry |-> table, date |-> date, file |-> h] \in Row
  BY <1>1 DEF Ranges, Row
<1>4. Ranges'
  BY <1>1, <1>2, <1>3 DEF Ranges, world, staging
<1>5. HandsOn'
  BY <1>1, <1>2 DEF HandsOn, staging
<1>6. h \in files /\ h[2] = date
  BY <1>1 DEF HandsOn
<1>7. FilesAndRowsMatch'
  <2>1. \A r \in rows' : r.file \in files' /\ r.file[2] = r.date
    BY <1>2, <1>6 DEF FilesAndRowsMatch, staging
  <2>2. \E r \in rows' : r.file = h
    <3> DEFINE new == [registry |-> table, date |-> date, file |-> h]
    <3>1. new.file = h
      OBVIOUS
    <3> HIDE DEF new
    <3>2. new \in rows'
      BY <1>2 DEF new
    <3>3. QED
      BY <3>1, <3>2
  <2>3. \A f \in files' : f \in InData' \/ f \in strayed' \/ \E r \in rows' : r.file = f
    BY <1>1, <1>2, <2>2 DEF FilesAndRowsMatch, staging
  <2>4. QED
    BY <2>1, <2>3 DEF FilesAndRowsMatch
<1>8. Kept' /\ Through' /\ Completed'
  BY <1>2 DEF Kept, Through, Completed, world, staging
<1>9. WholeFiles' /\ SeenIsExported'
  BY <1>2, WholeKept, SeenKept DEF world
<1>10. QED
  BY <1>4, <1>5, <1>7, <1>8, <1>9

LEMMA NextInv ==
    ASSUME IInv, [Next]_vars
    PROVE  IInv'
<1>1. CASE ReadRegistry
  <2>1. CASE Abort /\ UNCHANGED rows
    BY <2>1, AbortNext
  <2>2. CASE /\ left' = Tables /\ pc' = "tables" /\ pc = "registry"
             /\ UNCHANGED <<world, staging, rows, table, missing, date, data, ghosts>>
    <3>1. FilesAndRowsMatch' /\ WholeFiles' /\ SeenIsExported'
      BY <2>2, MatchKept, WholeKept, SeenKept DEF IInv, world, staging, ghosts
    <3>2. Ranges' /\ HandsOn' /\ Through' /\ Kept' /\ Completed'
      BY <2>2 DEF IInv, Ranges, HandsOn, Through, Kept, Completed, InData, world, staging, ghosts
    <3>3. QED
      BY <3>1, <3>2 DEF IInv
  <2>3. QED
    BY <1>1, <2>1, <2>2 DEF ReadRegistry
<1>2. CASE MarkAsArchived
  <2>1. pc = "mark" /\ data # <<>>
    BY <1>2 DEF MarkAsArchived, IInv, HandsOn
  <2>2. \/ Record
        \/ Abort /\ rows' \in {rows, rows \cup {[registry |-> table, date |-> date, file |-> Head(data)]}}
    BY <1>2 DEF MarkAsArchived, Record
  <2>3. QED
    BY <2>1, <2>2, RecordNext, AbortNext
<1>3. CASE UNCHANGED vars
  <2>1. FilesAndRowsMatch' /\ WholeFiles' /\ SeenIsExported'
    BY <1>3, MatchKept, WholeKept, SeenKept DEF IInv, vars, world, staging, runVars, ghosts
  <2>2. Ranges' /\ HandsOn' /\ Through' /\ Kept' /\ Completed'
    BY <1>3 DEF IInv, Ranges, HandsOn, Through, Kept, Completed, InData, vars, world, staging,
                runVars, ghosts
  <2>3. QED
    BY <2>1, <2>2 DEF IInv
<1>4. QED
  BY <1>1, <1>2, <1>3, WorldNext, CrashNext, LoopNext, CopyNext DEF Next

LEMMA Invariant == Spec => []IInv
BY InitInv, NextInv, PTL DEF Spec

(* Postgres lists only what has been exported, under its date, and a file  *)
(* it does not list is in the hands of a run, or was left by a COPY that   *)
(* was reported as failed or by a run that ended early.                    *)
THEOREM RowsMatchFiles == Spec => []FilesAndRowsMatch
<1>1. IInv => FilesAndRowsMatch
  BY DEF IInv
<1>2. QED
  BY Invariant, <1>1, PTL

(* A run that saw a table through on one day has left the whole of every   *)
(* completed day of it that TTL could not have touched by then.            *)
THEOREM SeenThroughIsExported == Spec => []SeenIsExported
<1>1. IInv => SeenIsExported
  BY DEF IInv
<1>2. QED
  BY Invariant, <1>1, PTL
=============================================================================
