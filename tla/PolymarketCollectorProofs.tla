--------------------- MODULE PolymarketCollectorProofs ----------------------
(***************************************************************************)
(* shared/ingestion.py for every interval, delay, queue, batch and number  *)
(* of failures.  PolymarketCollector: one stream per epoch, and a worker   *)
(* for each window from end to end.                                        *)
(* CollectorWriter: each row once and in order.                            *)
(***************************************************************************)
EXTENDS PolymarketCollector, CollectorWriter, SequenceTheorems, FiniteSetTheorems, TLAPS

(* active_tasks is a true picture: it holds every worker that lives, one   *)
(* per epoch, and not the one whose tokens are being fetched.              *)
Complete(ids, ws) == \A i \in DOMAIN ws : ws[i].at \in Live => i \in ids
OnePerEpoch(ids, ws) == \A i, j \in ids : ws[i].epoch = ws[j].epoch => i = j

Registered ==
    /\ Complete(active, workers)
    /\ OnePerEpoch(active, workers)
    /\ mgr.at = "fetchCur" => ~Has(mgr.cur, active, workers)
    /\ mgr.at = "fetchNext" => ~Has(mgr.next, active, workers)

(* While run pauses there is no manager.                                   *)
Paused == run = "paused" => mgr.at = "gone"

IInv == TypeOK /\ Registered /\ Paused

LEMMA FlooredIsInt ==
  ASSUME NEW t \in Int, NEW o \in {0, 1} PROVE FlooredEpoch(t, o) \in Int
  <1> DEFINE r == (t + Offset) % Interval
  <1>1. r \in Int BY TimeAssumption
  <1> HIDE DEF r
  <1>2. t - r + o * Interval \in Int
    <2>1. CASE o = 0 BY <2>1, <1>1, TimeAssumption
    <2>2. CASE o = 1 BY <2>2, <1>1, TimeAssumption
    <2> QED BY <2>1, <2>2
  <1> QED BY <1>2 DEF FlooredEpoch, r

LEMMA InitIInv == Init => IInv
  <1> SUFFICES ASSUME Init PROVE IInv
    OBVIOUS
  <1>1. TypeOK
    <2>1. now \in Int BY TimeAssumption DEF Init
    <2>2. mgr \in Manager BY <2>1 DEF Init, Manager
    <2>3. workers \in Seq(Worker) /\ active \subseteq DOMAIN workers BY DEF Init
    <2> QED BY <2>1, <2>2, <2>3 DEF Init, TypeOK
  <1>2. Registered BY DEF Init, Registered, Complete, OnePerEpoch
  <1>3. Paused BY DEF Init, Paused
  <1> QED BY <1>1, <1>2, <1>3 DEF IInv

(* Both ends of the manager's loop keep the picture true: PreWarm fetches  *)
(* an epoch that is not there, CleanUp forgets only what is done.          *)
LEMMA LoopKeeps ==
  ASSUME NEW m \in Manager,
         NEW ws \in Seq(Worker), NEW ids \in SUBSET DOMAIN ws,
         now \in Int, Complete(ids, ws), OnePerEpoch(ids, ws),
         PreWarm(m, ids, ws) \/ CleanUp(m, ids, ws)
  PROVE  /\ mgr' \in Manager
         /\ mgr'.at \in {"sleep", "fetchNext"}
         /\ active' \subseteq DOMAIN ws
         /\ Complete(active', ws)
         /\ OnePerEpoch(active', ws)
         /\ mgr'.at = "fetchNext" => ~Has(mgr'.next, active', ws)
  <1>1. now + Poll \in Int /\ now + FetchMax \in Int BY TimeAssumption
  <1>2. CASE CleanUp(m, ids, ws)
    <2>1. mgr' = [m EXCEPT !.at = "sleep", !.due = now + Poll] BY <1>2 DEF CleanUp
    <2>2. mgr' \in Manager /\ mgr'.at = "sleep" BY <1>1, <2>1 DEF Manager
    <2>3. active' = {i \in ids : ws[i].at # "done"} BY <1>2 DEF CleanUp
    <2>4. active' \subseteq DOMAIN ws /\ Complete(active', ws) /\ OnePerEpoch(active', ws)
      BY <2>3 DEF Complete, OnePerEpoch, Live
    <2> QED BY <2>2, <2>4
  <1>3. CASE active' = ids /\ Fetch(m, "fetchNext") /\ ~Has(m.next, ids, ws)
    <2>1. mgr' = [m EXCEPT !.at = "fetchNext", !.due = now + FetchMax] BY <1>3 DEF Fetch
    <2>2. mgr' \in Manager /\ mgr'.at = "fetchNext" /\ mgr'.next = m.next
      BY <1>1, <2>1 DEF Manager
    <2> QED BY <1>3, <2>2
  <1> QED BY <1>2, <1>3 DEF PreWarm

(* A fetch adds a worker for an epoch that had none.                       *)
LEMMA FetchKeeps ==
  ASSUME IInv, NEW e \in Int, NEW found \in BOOLEAN, ~Has(e, active, workers)
  PROVE  /\ Created(e, found) \in Seq(Worker)
         /\ Known(found) \subseteq DOMAIN Created(e, found)
         /\ Complete(Known(found), Created(e, found))
         /\ OnePerEpoch(Known(found), Created(e, found))
  <1> DEFINE w == [epoch |-> e, at |-> "connecting"]
  <1>1. w \in Worker BY DEF Worker, Live
  <1>2. CASE ~found
    BY <1>2 DEF IInv, TypeOK, Registered, Created, Known
  <1>3. CASE found
    <2>1. Created(e, found) = Append(workers, w) /\ Known(found) = active \cup {Len(workers) + 1}
      BY <1>3 DEF Created, Known
    <2>2. DOMAIN workers = 1 .. Len(workers) /\ Len(workers) \in Nat BY DEF IInv, TypeOK
    <2>3. /\ Append(workers, w) \in Seq(Worker)
          /\ DOMAIN Append(workers, w) = 1 .. Len(workers) + 1
          /\ \A i \in DOMAIN workers : Append(workers, w)[i] = workers[i]
          /\ Append(workers, w)[Len(workers) + 1] = w
      BY <1>1 DEF IInv, TypeOK
    <2>4. active \subseteq 1 .. Len(workers) BY <2>2 DEF IInv, TypeOK
    <2>5. Complete(Known(found), Created(e, found))
      BY <2>1, <2>2, <2>3 DEF IInv, Registered, Complete
    <2>6. ASSUME NEW i \in Known(found), NEW j \in Known(found),
                 Created(e, found)[i].epoch = Created(e, found)[j].epoch
          PROVE  i = j
      <3>1. CASE i \in active /\ j \in active
        BY <3>1, <2>1, <2>2, <2>3, <2>4, <2>6 DEF IInv, Registered, OnePerEpoch
      <3>2. CASE i \in active /\ j = Len(workers) + 1
        BY <3>2, <2>1, <2>2, <2>3, <2>4, <2>6 DEF Has
      <3>3. CASE j \in active /\ i = Len(workers) + 1
        BY <3>3, <2>1, <2>2, <2>3, <2>4, <2>6 DEF Has
      <3> QED BY <2>1, <3>1, <3>2, <3>3
    <2>7. Known(found) \subseteq DOMAIN Created(e, found)
      <3> DEFINE n == Len(workers)
      <3>1. n \in Nat /\ active \subseteq 1 .. n /\ Known(found) = active \cup {n + 1}
        BY <2>1, <2>2, <2>4
      <3> HIDE DEF n
      <3>2. Known(found) \subseteq 1 .. n + 1 BY <3>1
      <3> QED BY <2>1, <2>3, <3>2 DEF n
    <2>8. Created(e, found) \in Seq(Worker) BY <2>1, <2>3
    <2> QED BY <2>5, <2>6, <2>7, <2>8 DEF OnePerEpoch
  <1> QED BY <1>2, <1>3

LEMMA ManagerKeeps ==
  ASSUME IInv, run = "up",
         ManagerWakes \/ \E found \in BOOLEAN : CurrentFetched(found) \/ NextFetched(found)
  PROVE  IInv'
  <1> USE DEF IInv
  <1>1. CASE ManagerWakes
    <2> DEFINE m == [mgr EXCEPT !.seen = now, !.cur = FlooredEpoch(now, 0),
                                !.next = FlooredEpoch(now, 1)]
    <2>1. m \in Manager
      <3>1. FlooredEpoch(now, 0) \in Int /\ FlooredEpoch(now, 1) \in Int
        BY FlooredIsInt DEF TypeOK
      <3> QED BY <3>1 DEF TypeOK, Manager
    <2>2. UNCHANGED <<now, run, failedAt, workers>> BY <1>1 DEF ManagerWakes
    <2>3. CASE PreWarm(m, active, workers)
      BY <2>1, <2>2, <2>3, LoopKeeps DEF TypeOK, Registered, Paused
    <2>4. CASE ~Has(m.cur, active, workers) /\ UNCHANGED active /\ Fetch(m, "fetchCur")
      <3>1. /\ mgr' \in Manager
            /\ mgr'.at = "fetchCur" /\ mgr'.cur = m.cur
        <4>1. now + FetchMax \in Int BY TimeAssumption DEF TypeOK
        <4>2. mgr' = [m EXCEPT !.at = "fetchCur", !.due = now + FetchMax] BY <2>4 DEF Fetch
        <4> HIDE DEF m
        <4> QED BY <2>1, <4>1, <4>2 DEF Manager
      <3> QED
        BY <2>2, <2>4, <3>1 DEF TypeOK, Registered, Has, Paused
    <2> QED BY <1>1, <2>3, <2>4 DEF ManagerWakes
  <1>2. ASSUME NEW found \in BOOLEAN, NEW e \in Int, ~Has(e, active, workers),
               Fetched(e, found),
               \/ PreWarm(mgr, Known(found), Created(e, found))
               \/ CleanUp(mgr, Known(found), Created(e, found))
        PROVE  IInv'
    <2>1. /\ Created(e, found) \in Seq(Worker)
          /\ Known(found) \subseteq DOMAIN Created(e, found)
          /\ Complete(Known(found), Created(e, found))
          /\ OnePerEpoch(Known(found), Created(e, found))
      BY <1>2, FetchKeeps
    <2>2. workers' = Created(e, found) /\ UNCHANGED <<now, run, failedAt>>
      BY <1>2 DEF Fetched
    <2>3. mgr \in Manager /\ now \in Int
      BY DEF TypeOK
    <2>4. /\ mgr' \in Manager
          /\ mgr'.at \in {"sleep", "fetchNext"}
          /\ active' \subseteq DOMAIN workers'
          /\ Complete(active', workers')
          /\ OnePerEpoch(active', workers')
          /\ mgr'.at = "fetchNext" => ~Has(mgr'.next, active', workers')
      <3> HIDE DEF IInv
      <3> QED BY <1>2, <2>1, <2>2, <2>3, LoopKeeps
    <2> QED BY <2>1, <2>2, <2>4 DEF TypeOK, Registered, Paused
  <1>3. ASSUME NEW found \in BOOLEAN, CurrentFetched(found) PROVE IInv'
    <2>1. mgr.cur \in Int /\ ~Has(mgr.cur, active, workers)
      BY <1>3 DEF CurrentFetched, TypeOK, Manager, Registered
    <2>2. /\ Fetched(mgr.cur, found)
          /\ PreWarm(mgr, Known(found), Created(mgr.cur, found))
      BY <1>3 DEF CurrentFetched
    <2> HIDE DEF IInv
    <2> QED BY <1>2, <2>1, <2>2
  <1>4. ASSUME NEW found \in BOOLEAN, NextFetched(found) PROVE IInv'
    <2>1. mgr.next \in Int /\ ~Has(mgr.next, active, workers)
      BY <1>4 DEF NextFetched, TypeOK, Manager, Registered
    <2>2. /\ Fetched(mgr.next, found)
          /\ CleanUp(mgr, Known(found), Created(mgr.next, found))
      BY <1>4 DEF NextFetched
    <2> HIDE DEF IInv
    <2> QED BY <1>2, <2>1, <2>2
  <1> QED BY <1>1, <1>3, <1>4

(* A worker only changes where it is: it does not come back to life, and   *)
(* its epoch stays.                                                        *)
LEMMA WorkersKeep ==
  ASSUME IInv, NEW i \in DOMAIN workers,
         \/ ~Blocked /\ (Connects(i) \/ LosesConnection(i) \/ Expires(i) \/ OrphanWakes(i))
         \/ SpinEnds(i)
  PROVE  IInv'
  <1> USE DEF IInv, MoveTo, others
  <1>1. PICK a : /\ a \in Live \cup {"spinning", "done"}
                 /\ MoveTo(i, a)
                 /\ a \in Live => workers[i].at \in Live
                 /\ workers[i].at \in {"spinning", "done"} => a = "done" /\ now >= Expiry(workers[i])
    BY DEF Connects, LosesConnection, Expires, OrphanWakes, SpinEnds, Live, Blocked
  <1>2. UNCHANGED others
    BY DEF Connects, LosesConnection, Expires, OrphanWakes, SpinEnds
  <1> DEFINE w == [workers[i] EXCEPT !.at = a]
  <1>3. workers \in Seq(Worker) /\ workers[i] \in Worker BY DEF TypeOK
  <1>4. w \in Worker /\ w.epoch = workers[i].epoch /\ w.at = a
    BY <1>1, <1>3 DEF Worker, Live
  <1>5. workers' = [workers EXCEPT ![i] = w] BY <1>1, <1>3 DEF Worker
  <1> HIDE DEF w
  <1>6. workers' \in Seq(Worker) /\ DOMAIN workers' = DOMAIN workers
    BY <1>3, <1>4, <1>5
  <1>7. \A j \in DOMAIN workers : /\ workers'[j].epoch = workers[j].epoch
                                 /\ workers'[j].at = IF j = i THEN a ELSE workers[j].at
    BY <1>3, <1>4, <1>5
  <1>8. TypeOK' BY <1>2, <1>6 DEF TypeOK
  <1>9. Registered'
    BY <1>1, <1>2, <1>6, <1>7 DEF TypeOK, Registered, Complete, OnePerEpoch, Has
  <1> QED BY <1>2, <1>8, <1>9 DEF Paused

(* A failed writer leaves no worker alive that a manager could not know.   *)
LEMMA RunKeeps == ASSUME IInv, WriterFails \/ Restart PROVE IInv'
  <1> USE DEF IInv
  <1>1. CASE WriterFails
    <2>1. /\ workers' = [i \in DOMAIN workers |-> Abandoned(workers[i])]
          /\ active' = {} /\ run' = "paused" /\ failedAt' = now /\ now' = now
          /\ mgr' = [mgr EXCEPT !.at = "gone"]
      BY <1>1 DEF WriterFails
    <2>2. \A w \in Worker : Abandoned(w) \in Worker /\ Abandoned(w).at \notin Live
      BY DEF Abandoned, Worker, Live
    <2>3. workers' \in Seq(Worker) /\ DOMAIN workers' = DOMAIN workers
      BY <2>1, <2>2 DEF TypeOK
    <2>4. \A i \in DOMAIN workers' : workers'[i].at \notin Live
      BY <2>1, <2>2 DEF TypeOK
    <2>5. mgr' \in Manager /\ mgr'.at = "gone" BY <2>1 DEF TypeOK, Manager
    <2>6. TypeOK' BY <2>1, <2>3, <2>5 DEF TypeOK
    <2>7. Registered' BY <2>1, <2>4, <2>5 DEF Registered, Complete, OnePerEpoch
    <2> QED BY <2>5, <2>6, <2>7 DEF Paused
  <1>2. CASE Restart
    <2>1. /\ mgr' = [mgr EXCEPT !.at = "sleep", !.due = now]
          /\ run' = "up" /\ UNCHANGED <<now, failedAt, active, workers>>
      BY <1>2 DEF Restart
    <2>2. mgr' \in Manager /\ mgr'.at = "sleep" BY <2>1 DEF TypeOK, Manager
    <2> QED BY <2>1, <2>2 DEF TypeOK, Registered, Paused
  <1> QED BY <1>1, <1>2

(* Time only passes.                                                       *)
LEMMA TickKeeps == ASSUME IInv, Tick PROVE IInv'
  <1> USE DEF IInv
  <1>1. now' = now + 1 /\ ~Due /\ UNCHANGED <<run, failedAt, mgr, active, workers>>
    BY DEF Tick
  <1> QED BY <1>1 DEF TypeOK, Registered, Paused, Has

(* The manager's steps happen while run waits for it.                      *)
LEMMA Inductive == Spec => []IInv
  <1>1. ASSUME IInv, [Next]_vars PROVE IInv'
    <2>1. CASE ~Blocked /\ LoopStep
      <3>1. CASE ManagerWakes \/ \E found \in BOOLEAN : CurrentFetched(found) \/ NextFetched(found)
        <4>1. mgr.at # "gone" BY <3>1 DEF ManagerWakes, CurrentFetched, NextFetched
        <4>2. run = "up" BY <1>1, <4>1 DEF IInv, Paused, TypeOK
        <4> QED BY <1>1, <3>1, <4>2, ManagerKeeps
      <3>2. CASE \E i \in DOMAIN workers : \/ Connects(i) \/ LosesConnection(i)
                                           \/ Expires(i) \/ OrphanWakes(i)
        BY <1>1, <2>1, <3>2, WorkersKeep
      <3>3. CASE WriterFails \/ Restart BY <1>1, <3>3, RunKeeps
      <3> QED BY <2>1, <3>1, <3>2, <3>3 DEF LoopStep
    <2>2. CASE \E i \in DOMAIN workers : SpinEnds(i) BY <1>1, <2>2, WorkersKeep
    <2>3. CASE Tick BY <1>1, <2>3, TickKeeps
    <2>4. CASE UNCHANGED vars
      BY <1>1, <2>4 DEF IInv, TypeOK, Registered, Paused, Has, vars
    <2> QED BY <1>1, <2>1, <2>2, <2>3, <2>4 DEF Next
  <1> QED BY InitIInv, <1>1, PTL DEF Spec

(* The manager's variables, the list of workers and active_tasks stay in   *)
(* their ranges: no id of active_tasks dangles.                            *)
THEOREM CollectorTyped == Spec => []TypeOK
  <1>1. IInv => TypeOK BY DEF IInv
  <1> QED BY Inductive, <1>1, PTL

(* Whatever the manager reads late, however often a writer fails and       *)
(* whenever workers reconnect, no epoch is streamed twice at a time.       *)
THEOREM NoEpochTwice == Spec => []OneStreamPerEpoch
  <1>1. IInv => OneStreamPerEpoch
    BY DEF IInv, Registered, Complete, OnePerEpoch, OneStreamPerEpoch
  <1> QED BY Inductive, <1>1, PTL

-----------------------------------------------------------------------------
(* Covered needs that the fetches and the sleep leave time before a window *)
(* begins.  With Poll = 10 and PRE_WARM_TIME = 45 the code has it as long  *)
(* as fetching the tokens takes 11 seconds at most.                        *)
LeadTime == /\ 3 * FetchMax + Poll < PRE_WARM_TIME
            /\ 4 * FetchMax + Poll <= Interval

(* Where windows begin.                                                    *)
Boundary(e) == (e + Offset) % Interval = 0

LEMMA ModUnique ==
  ASSUME NEW n \in Nat \ {0}, NEW x \in Int, NEW r \in 0 .. n - 1, NEW q \in Int, x = n * q + r
  PROVE  x % n = r
  OBVIOUS

LEMMA ModIs ==
  ASSUME NEW n \in Nat \ {0}, NEW x \in Int
  PROVE  x % n \in 0 .. n - 1 /\ x \div n \in Int /\ x = n * (x \div n) + (x % n)
  OBVIOUS

LEMMA FloorUnique ==
  ASSUME NEW t \in Int, NEW k \in Int, Boundary(k), k <= t, t < k + Interval
  PROVE  FlooredEpoch(t, 0) = k
  <1> DEFINE q == (k + Offset) \div Interval
  <1>0. Interval \in Nat \ {0} /\ Offset \in Nat BY TimeAssumption
  <1>1. q \in Int /\ k + Offset = Interval * q
    BY <1>0, ModIs DEF Boundary
  <1> HIDE DEF q
  <1>2. t + Offset = Interval * q + (t - k) /\ t - k \in 0 .. Interval - 1
    BY <1>0, <1>1
  <1>3. (t + Offset) % Interval = t - k
    <2> DEFINE x == t + Offset
               r == t - k
    <2>1. x \in Int /\ r \in 0 .. Interval - 1 /\ x = Interval * q + r
      BY <1>0, <1>2
    <2> HIDE DEF x, r
    <2>2. x % Interval = r BY <1>0, <1>1, <2>1, ModUnique
    <2> QED BY <2>2 DEF x, r
  <1>4. FlooredEpoch(t, 0) = t - (t - k) + 0 * Interval
    BY <1>3 DEF FlooredEpoch
  <1> QED BY <1>0, <1>4

LEMMA FloorFacts ==
  ASSUME NEW t \in Int
  PROVE  /\ FlooredEpoch(t, 0) \in Int /\ Boundary(FlooredEpoch(t, 0))
         /\ FlooredEpoch(t, 0) <= t /\ t < FlooredEpoch(t, 0) + Interval
         /\ FlooredEpoch(t, 1) = FlooredEpoch(t, 0) + Interval
  <1> DEFINE q == (t + Offset) \div Interval
             r == (t + Offset) % Interval
             c == FlooredEpoch(t, 0)
  <1>0. Interval \in Nat \ {0} /\ Offset \in Nat BY TimeAssumption
  <1>1. q \in Int /\ r \in 0 .. Interval - 1 /\ t + Offset = Interval * q + r
    <2> DEFINE x == t + Offset
    <2>1. x \in Int BY <1>0
    <2> HIDE DEF x
    <2>2. x % Interval \in 0 .. Interval - 1 /\ x \div Interval \in Int
          /\ x = Interval * (x \div Interval) + (x % Interval)
      BY <1>0, <2>1, ModIs
    <2> QED BY <2>2 DEF x
  <1>2. c = t - r + 0 * Interval /\ FlooredEpoch(t, 1) = t - r + 1 * Interval
    BY DEF FlooredEpoch
  <1> HIDE DEF q, r, c
  <1>3. c = t - r /\ FlooredEpoch(t, 1) = c + Interval /\ c \in Int
    BY <1>0, <1>1, <1>2
  <1>4. c + Offset = Interval * q + 0 /\ 0 \in 0 .. Interval - 1
    BY <1>0, <1>1, <1>3
  <1>5. (c + Offset) % Interval = 0
    <2> DEFINE x == c + Offset
    <2>1. x \in Int /\ x = Interval * q + 0 BY <1>0, <1>3, <1>4
    <2> HIDE DEF x
    <2>2. x % Interval = 0 BY <1>0, <1>1, <1>4, <2>1, ModUnique
    <2> QED BY <2>2 DEF x
  <1>6. c <= t /\ t < c + Interval BY <1>0, <1>1, <1>3
  <1> QED BY <1>3, <1>5, <1>6 DEF Boundary, c

LEMMA BoundaryNext ==
  ASSUME NEW k \in Int, Boundary(k)
  PROVE  Boundary(k + Interval)
  <1> DEFINE q == (k + Offset) \div Interval
  <1>0. Interval \in Nat \ {0} /\ Offset \in Nat BY TimeAssumption
  <1>1. q \in Int /\ k + Offset = Interval * q
    BY <1>0, ModIs DEF Boundary
  <1> HIDE DEF q
  <1>2. k + Interval + Offset = Interval * (q + 1) + 0 /\ 0 \in 0 .. Interval - 1 /\ q + 1 \in Int
    BY <1>0, <1>1
  <1>3. (k + Interval + Offset) % Interval = 0
    <2> DEFINE p == q + 1
    <2>1. p \in Int /\ k + Interval + Offset = Interval * p + 0 /\ k + Interval + Offset \in Int
      BY <1>0, <1>2
    <2> HIDE DEF p
    <2> QED BY <1>0, <1>2, <2>1, ModUnique
  <1> QED BY <1>3 DEF Boundary

(* From one wake to the next the window stays, or is the next one.         *)
LEMMA FloorStep ==
  ASSUME NEW s \in Int, NEW t \in Int, s <= t, t <= s + Interval
  PROVE  LET n == FlooredEpoch(s, 1)
         IN  \/ t < n /\ FlooredEpoch(t, 0) = FlooredEpoch(s, 0) /\ FlooredEpoch(t, 1) = n
             \/ n <= t /\ s < n /\ FlooredEpoch(t, 0) = n /\ FlooredEpoch(t, 1) = n + Interval
  <1> DEFINE c == FlooredEpoch(s, 0)
             n == FlooredEpoch(s, 1)
  <1>0. Interval \in Nat \ {0} BY TimeAssumption
  <1>1. c \in Int /\ Boundary(c) /\ c <= s /\ s < c + Interval /\ n = c + Interval
    BY FloorFacts
  <1>2. n \in Int /\ Boundary(n)
    BY <1>0, <1>1, BoundaryNext
  <1>3. FlooredEpoch(t, 1) = FlooredEpoch(t, 0) + Interval BY FloorFacts
  <1> HIDE DEF c, n
  <1>4. CASE t < n
    <2>1. FlooredEpoch(t, 0) = c BY <1>0, <1>1, <1>4, FloorUnique
    <2> QED BY <1>1, <1>3, <1>4, <2>1 DEF c, n
  <1>5. CASE ~(t < n)
    <2>1. n <= t /\ s < n /\ t < n + Interval BY <1>0, <1>1, <1>2, <1>5
    <2>2. FlooredEpoch(t, 0) = n BY <1>2, <2>1, FloorUnique
    <2> QED BY <1>3, <2>1, <2>2 DEF n
  <1> QED BY <1>4, <1>5

-----------------------------------------------------------------------------
(* An epoch that the manager need not care for any more: its tokens were   *)
(* not found, or it has its worker, or its window is over.                 *)
HandledIn(e, mis, ids, ws) == e \in mis \/ Has(e, ids, ws) \/ e + Interval <= now
Handled(e) == HandledIn(e, missed, active, workers)

(* While no writer has failed.                                             *)
AliveIn(ws) == \A i \in DOMAIN ws : \/ ws[i].at \in Live
                                    \/ ws[i].at = "done" /\ now >= Expiry(ws[i])
Alive == run = "up" /\ mgr.at # "gone" /\ AliveIn(workers)

(* The manager has not looked yet.                                         *)
Fresh == mgr.at = "sleep" /\ mgr.due = upSince /\ now = upSince

(* What the manager knows of the windows since it woke at `seen`, and how  *)
(* long ago that can be.                                                   *)
Looked(m) == /\ upSince <= m.seen /\ m.seen <= now
           /\ m.cur = FlooredEpoch(m.seen, 0) /\ m.next = FlooredEpoch(m.seen, 1)

CurInTime == Handled(mgr.cur) \/ (mgr.at = "fetchCur" /\ mgr.seen = upSince)

NextInTime(m, mis, ids, ws) ==
  \/ HandledIn(m.next, mis, ids, ws)
  \/ m.seen = upSince
  \/ m.seen + 2 * FetchMax < m.next

Waits ==
  /\ now <= mgr.due
  /\ mgr.at = "sleep" => mgr.due <= mgr.seen + 2 * FetchMax + Poll
  /\ mgr.at = "sleep" /\ ~PreWarmDue(mgr) => mgr.due <= mgr.seen + FetchMax + Poll
  /\ mgr.at = "fetchCur" => mgr.due <= mgr.seen + FetchMax
  /\ mgr.at = "fetchNext" => mgr.due <= mgr.seen + 2 * FetchMax /\ PreWarmDue(mgr)

Lead == /\ Looked(mgr) /\ Waits /\ CurInTime
        /\ mgr.at = "sleep" /\ PreWarmDue(mgr) => Handled(mgr.next)
        /\ NextInTime(mgr, missed, active, workers)

CInv == /\ fails \in Nat /\ upSince \in Int
        /\ fails = 0 => Alive /\ (Fresh \/ Lead)

LEMMA Numbers ==
  /\ Interval \in Nat \ {0} /\ Grace \in Nat /\ PRE_WARM_TIME \in Nat
  /\ Poll \in Nat /\ FetchMax \in Nat
  BY TimeAssumption

LEMMA InitCInv == Init => CInv
  <1> SUFFICES ASSUME Init PROVE CInv OBVIOUS
  <1>1. now \in Int BY TimeAssumption DEF Init
  <1>2. AliveIn(workers) BY DEF Init, AliveIn
  <1> QED BY <1>1, <1>2 DEF Init, CInv, Alive, Fresh

(* An epoch once handled is handled for good.                              *)
LEMMA HandledStays ==
  ASSUME now \in Int, now' \in Int, now <= now', missed \subseteq missed',
         \A i \in active : i \in active' /\ workers'[i].epoch = workers[i].epoch,
         NEW e \in Int, Handled(e)
  PROVE  Handled(e)'
  <1>1. CASE e \in missed BY <1>1 DEF Handled, HandledIn
  <1>2. CASE Has(e, active, workers) BY <1>2 DEF Handled, HandledIn, Has
  <1>3. CASE e + Interval <= now
    <2>1. e + Interval <= now' BY <1>3, Numbers
    <2> QED BY <2>1 DEF Handled, HandledIn
  <1> QED BY <1>1, <1>2, <1>3 DEF Handled, HandledIn

LEMMA CleanUpHandles ==
  ASSUME now \in Int, now' = now, NEW ws \in Seq(Worker), NEW ids \in SUBSET DOMAIN ws,
         NEW mis, AliveIn(ws), workers' = ws, missed' = mis,
         active' = {i \in ids : ws[i].at # "done"},
         NEW e \in Int, HandledIn(e, mis, ids, ws)
  PROVE  Handled(e)'
  <1>1. CASE e \in mis \/ e + Interval <= now BY <1>1 DEF Handled, HandledIn
  <1>2. CASE Has(e, ids, ws)
    <2> PICK i \in ids : ws[i].epoch = e BY <1>2 DEF Has
    <2>1. CASE ws[i].at # "done" BY <2>1 DEF Handled, HandledIn, Has
    <2>2. CASE ws[i].at = "done"
      <3>1. now >= Expiry(ws[i]) BY <2>2 DEF AliveIn, Live
      <3>2. e + Interval <= now BY <3>1, Numbers DEF Expiry
      <3> QED BY <3>2 DEF Handled, HandledIn
    <2> QED BY <2>1, <2>2
  <1> QED BY <1>1, <1>2 DEF HandledIn

(* The second half of the loop, after the present window was looked for.   *)
LEMMA PreWarmLeads ==
  ASSUME now \in Int, upSince \in Int, UNCHANGED <<now, upSince>>,
         NEW m \in Manager, NEW ws \in Seq(Worker), NEW ids \in SUBSET DOMAIN ws, NEW mis,
         AliveIn(ws), workers' = ws, missed' = mis,
         Looked(m), now <= m.seen + FetchMax,
         HandledIn(m.cur, mis, ids, ws), NextInTime(m, mis, ids, ws),
         PreWarm(m, ids, ws)
  PROVE  Lead' /\ mgr'.at # "gone"
  <1>0. m.seen \in Int /\ m.cur \in Int /\ m.next \in Int BY DEF Manager
  <1>1. CASE PreWarmDue(m) /\ ~Has(m.next, ids, ws) /\ active' = ids /\ Fetch(m, "fetchNext")
    <2>1. /\ mgr' = [m EXCEPT !.at = "fetchNext", !.due = now + FetchMax]
          /\ mgr'.at = "fetchNext" /\ mgr'.due = now + FetchMax
          /\ mgr'.seen = m.seen /\ mgr'.cur = m.cur /\ mgr'.next = m.next
      BY <1>1 DEF Fetch, Manager
    <2>2. Looked(mgr)' BY <2>1 DEF Looked, FlooredEpoch
    <2>3. Waits' BY <1>0, <1>1, <2>1, Numbers DEF Waits, PreWarmDue
    <2>4. \A e : HandledIn(e, mis, ids, ws) => Handled(e)'
      BY <1>1 DEF HandledIn, Handled
    <2>5. CurInTime' BY <2>1, <2>4 DEF CurInTime, Handled, HandledIn
    <2>6. NextInTime(mgr, missed, active, workers)'
      BY <1>1, <2>1 DEF NextInTime, HandledIn
    <2> QED BY <2>1, <2>2, <2>3, <2>5, <2>6 DEF Lead
  <1>2. CASE ~(PreWarmDue(m) /\ ~Has(m.next, ids, ws)) /\ CleanUp(m, ids, ws)
    <2>1. /\ mgr' = [m EXCEPT !.at = "sleep", !.due = now + Poll]
          /\ mgr'.at = "sleep" /\ mgr'.due = now + Poll
          /\ mgr'.seen = m.seen /\ mgr'.cur = m.cur /\ mgr'.next = m.next
      BY <1>2 DEF CleanUp, Manager
    <2>2. Looked(mgr)' BY <2>1 DEF Looked, FlooredEpoch
    <2>3. Waits'
      <3>1. now <= now + Poll /\ now + Poll <= m.seen + FetchMax + Poll
            /\ now + Poll <= m.seen + 2 * FetchMax + Poll
        BY <1>0, Numbers
      <3> QED BY <2>1, <3>1 DEF Waits
    <2>4. \A e \in Int : HandledIn(e, mis, ids, ws) => Handled(e)'
      BY <1>2, CleanUpHandles DEF CleanUp
    <2>5. CurInTime' BY <1>0, <2>1, <2>4 DEF CurInTime, Handled, HandledIn
    <2>6. NextInTime(mgr, missed, active, workers)'
      BY <1>0, <2>1, <2>4 DEF NextInTime, Handled
    <2>7. (mgr.at = "sleep" /\ PreWarmDue(mgr) => Handled(mgr.next))'
      <3>1. PreWarmDue(m) => HandledIn(m.next, mis, ids, ws)
        BY <1>2 DEF HandledIn
      <3> QED BY <1>0, <2>1, <2>4, <3>1 DEF PreWarmDue
    <2> QED BY <2>1, <2>2, <2>3, <2>5, <2>6, <2>7 DEF Lead
  <1> QED BY <1>1, <1>2 DEF PreWarm

(* The end of the loop, after the next window was looked for.              *)
LEMMA CleanUpLeads ==
  ASSUME now \in Int, upSince \in Int, UNCHANGED <<now, upSince>>,
         NEW m \in Manager, NEW ws \in Seq(Worker), NEW ids \in SUBSET DOMAIN ws, NEW mis,
         AliveIn(ws), workers' = ws, missed' = mis,
         Looked(m), now <= m.seen + 2 * FetchMax, PreWarmDue(m),
         HandledIn(m.cur, mis, ids, ws), HandledIn(m.next, mis, ids, ws),
         CleanUp(m, ids, ws)
  PROVE  Lead' /\ mgr'.at # "gone"
  <1>0. m.seen \in Int /\ m.cur \in Int /\ m.next \in Int BY DEF Manager
  <1>1. /\ mgr' = [m EXCEPT !.at = "sleep", !.due = now + Poll]
        /\ mgr'.at = "sleep" /\ mgr'.due = now + Poll
        /\ mgr'.seen = m.seen /\ mgr'.cur = m.cur /\ mgr'.next = m.next
    BY DEF CleanUp, Manager
  <1>2. Looked(mgr)' BY <1>1 DEF Looked, FlooredEpoch
  <1>3. Waits' BY <1>0, <1>1, Numbers DEF Waits, PreWarmDue
  <1>4. \A e \in Int : HandledIn(e, mis, ids, ws) => Handled(e)'
    BY CleanUpHandles DEF CleanUp
  <1>5. Handled(mgr.cur)' /\ Handled(mgr.next)' BY <1>0, <1>1, <1>4
  <1>6. CurInTime' BY <1>5 DEF CurInTime
  <1>7. NextInTime(mgr, missed, active, workers)' BY <1>5 DEF NextInTime, Handled
  <1> QED BY <1>1, <1>2, <1>3, <1>5, <1>6, <1>7 DEF Lead

(* When the manager wakes again, the window that has begun meanwhile has   *)
(* been looked for, and the one after it is looked for in time.            *)
LEMMA WakesInTime ==
  ASSUME LeadTime, TypeOK, CInv, fails = 0, Lead, mgr.at = "sleep", now >= mgr.due,
         NEW m \in Manager, m.seen = now,
         m.cur = FlooredEpoch(now, 0), m.next = FlooredEpoch(now, 1)
  PROVE  /\ Looked(m) /\ Handled(m.cur)
         /\ NextInTime(m, missed, active, workers)
  <1> DEFINE s == mgr.seen
             n == mgr.next
  <1>1. /\ now \in Int /\ s \in Int /\ n \in Int /\ mgr.cur \in Int /\ mgr.due \in Int
        /\ upSince \in Int /\ m.next \in Int
    BY DEF TypeOK, Manager, CInv
  <1>2. /\ upSince <= s /\ s <= now /\ now = mgr.due
        /\ mgr.cur = FlooredEpoch(s, 0) /\ n = FlooredEpoch(s, 1)
        /\ now <= s + 2 * FetchMax + Poll
        /\ s > n - PRE_WARM_TIME \/ now <= s + FetchMax + Poll
        /\ Handled(mgr.cur)
        /\ s > n - PRE_WARM_TIME => Handled(n)
    BY <1>1 DEF Lead, Looked, Waits, CurInTime, PreWarmDue
  <1> HIDE DEF s, n
  <1>3. Looked(m) BY <1>1, <1>2 DEF Looked
  <1>4. now <= s + Interval BY <1>1, <1>2, Numbers DEF LeadTime
  <1>5. \/ now < n /\ m.cur = mgr.cur /\ m.next = n
        \/ n <= now /\ s < n /\ m.cur = n /\ m.next = n + Interval
    BY <1>1, <1>2, <1>4, FloorStep
  <1>6. CASE now < n /\ m.cur = mgr.cur /\ m.next = n
    <2>1. CASE s > n - PRE_WARM_TIME
      BY <1>2, <1>3, <1>6, <2>1 DEF NextInTime, Handled
    <2>2. CASE ~(s > n - PRE_WARM_TIME)
      <3>1. now + 2 * FetchMax < n BY <1>1, <1>2, <2>2, Numbers DEF LeadTime
      <3> QED BY <1>2, <1>3, <1>6, <3>1 DEF NextInTime
    <2> QED BY <2>1, <2>2
  <1>7. CASE n <= now /\ s < n /\ m.cur = n /\ m.next = n + Interval
    <2>1. s > n - PRE_WARM_TIME
      <3> SUFFICES ASSUME ~(s > n - PRE_WARM_TIME) PROVE FALSE OBVIOUS
      <3>1. now < n BY <1>1, <1>2, Numbers DEF LeadTime
      <3> QED BY <1>1, <1>7, <3>1
    <2>2. now + 2 * FetchMax < n + Interval BY <1>1, <1>2, <1>7, Numbers DEF LeadTime
    <2> QED BY <1>2, <1>3, <1>7, <2>1, <2>2 DEF NextInTime
  <1> QED BY <1>5, <1>6, <1>7

LEMMA ManagerWakesLeads ==
  ASSUME LeadTime, IInv, CInv, fails = 0, ManagerWakes
  PROVE  CInv'
  <1> DEFINE m == [mgr EXCEPT !.seen = now, !.cur = FlooredEpoch(now, 0),
                              !.next = FlooredEpoch(now, 1)]
  <1>1. /\ now \in Int /\ upSince \in Int /\ fails \in Nat
        /\ mgr \in Manager /\ workers \in Seq(Worker) /\ active \in SUBSET DOMAIN workers
        /\ Alive /\ (Fresh \/ Lead)
    BY DEF IInv, TypeOK, CInv
  <1>2. m \in Manager
    <2>1. FlooredEpoch(now, 0) \in Int /\ FlooredEpoch(now, 1) \in Int
      BY <1>1, FlooredIsInt
    <2> QED BY <1>1, <2>1 DEF Manager
  <1>3. /\ m.seen = now /\ m.cur = FlooredEpoch(now, 0) /\ m.next = FlooredEpoch(now, 1)
        /\ m.at = mgr.at
    BY <1>1 DEF Manager
  <1>4. /\ mgr.at = "sleep" /\ now >= mgr.due
        /\ UNCHANGED <<now, run, failedAt, fails, workers, upSince, missed>>
        /\ IF Has(m.cur, active, workers) THEN PreWarm(m, active, workers)
                                          ELSE UNCHANGED active /\ Fetch(m, "fetchCur")
    BY DEF ManagerWakes
  <1> HIDE DEF m
  <1>5. /\ Looked(m)
        /\ Handled(m.cur) \/ m.seen = upSince
        /\ NextInTime(m, missed, active, workers)
    <2>1. CASE Fresh BY <1>1, <1>3, <2>1 DEF Fresh, Looked, NextInTime
    <2>2. CASE Lead
      BY <1>1, <1>2, <1>3, <1>4, <2>2, WakesInTime DEF IInv
    <2> QED BY <1>1, <2>1, <2>2
  <1>6. CASE Has(m.cur, active, workers)
    <2>1. HandledIn(m.cur, missed, active, workers) BY <1>6 DEF HandledIn
    <2>2. now <= m.seen + FetchMax BY <1>1, <1>3, Numbers
    <2>3. AliveIn(workers) BY <1>1 DEF Alive
    <2>4. Lead' /\ mgr'.at # "gone"
      BY <1>1, <1>2, <1>4, <1>5, <1>6, <2>1, <2>2, <2>3, PreWarmLeads
    <2>5. Alive' BY <1>1, <1>4, <2>4 DEF Alive, AliveIn, Expiry
    <2> QED BY <1>1, <1>4, <2>4, <2>5 DEF CInv
  <1>7. CASE ~Has(m.cur, active, workers)
    <2>1. /\ UNCHANGED active
          /\ mgr'.at = "fetchCur" /\ mgr'.due = now + FetchMax
          /\ mgr'.seen = m.seen /\ mgr'.cur = m.cur /\ mgr'.next = m.next
      BY <1>2, <1>4, <1>7 DEF Fetch, Manager
    <2>2. Looked(mgr)' BY <1>4, <1>5, <2>1 DEF Looked, FlooredEpoch
    <2>3. Waits' BY <1>1, <1>3, <1>4, <2>1, Numbers DEF Waits
    <2>4. CurInTime' BY <1>4, <1>5, <2>1 DEF CurInTime, Handled, HandledIn
    <2>5. NextInTime(mgr, missed, active, workers)'
      BY <1>4, <1>5, <2>1 DEF NextInTime, HandledIn
    <2>6. Alive' BY <1>1, <1>4, <2>1 DEF Alive, AliveIn, Expiry
    <2> QED BY <1>1, <1>4, <2>1, <2>2, <2>3, <2>4, <2>5, <2>6 DEF CInv, Lead
  <1> QED BY <1>6, <1>7

(* After a fetch the epoch is handled, and nothing that was is not.        *)
LEMMA FetchHandles ==
  ASSUME IInv, CInv, fails = 0, NEW e \in Int, NEW found \in BOOLEAN,
         ~Has(e, active, workers), Fetched(e, found)
  PROVE  LET mis == missed'
             ids == Known(found)
             ws  == Created(e, found)
         IN  /\ HandledIn(e, mis, ids, ws)
             /\ \A f \in Int : Handled(f) => HandledIn(f, mis, ids, ws)
             /\ AliveIn(workers) => AliveIn(ws)
  <1> DEFINE mis == missed'
             ids == Known(found)
             ws  == Created(e, found)
             w   == [epoch |-> e, at |-> "connecting"]
  <1>1. workers \in Seq(Worker) /\ active \subseteq 1 .. Len(workers) /\ Len(workers) \in Nat
        /\ DOMAIN workers = 1 .. Len(workers)
    BY DEF IInv, TypeOK
  <1>2. mis = IF found THEN missed ELSE missed \cup {e} BY DEF Fetched
  <1>3. CASE ~found
    <2>1. ids = active /\ ws = workers /\ mis = missed \cup {e}
      BY <1>2, <1>3 DEF Known, Created
    <2> QED BY <2>1 DEF HandledIn, Handled
  <1>4. CASE found
    <2>1. ids = active \cup {Len(workers) + 1} /\ ws = Append(workers, w) /\ mis = missed
      BY <1>2, <1>4 DEF Known, Created
    <2>2. w \in Worker /\ w.epoch = e /\ w.at \in Live BY DEF Worker, Live
    <2> HIDE DEF w
    <2>3. /\ DOMAIN Append(workers, w) = 1 .. Len(workers) + 1
          /\ \A i \in 1 .. Len(workers) : Append(workers, w)[i] = workers[i]
          /\ Append(workers, w)[Len(workers) + 1] = w
      BY <1>1, <2>2
    <2> HIDE DEF ws, ids, mis
    <2>4. Has(e, ids, ws) BY <2>1, <2>2, <2>3 DEF Has
    <2>5. \A f : Has(f, active, workers) => Has(f, ids, ws)
      BY <1>1, <2>1, <2>3 DEF Has
    <2>6. AliveIn(workers) => AliveIn(ws)
      <3> SUFFICES ASSUME AliveIn(workers), NEW i \in DOMAIN ws
                   PROVE  \/ ws[i].at \in Live
                          \/ ws[i].at = "done" /\ now >= Expiry(ws[i])
        BY DEF AliveIn
      <3>1. CASE i \in 1 .. Len(workers) BY <1>1, <2>1, <2>3, <3>1 DEF AliveIn
      <3>2. CASE i = Len(workers) + 1 BY <2>1, <2>2, <2>3, <3>2
      <3> QED BY <1>1, <2>1, <2>3, <3>1, <3>2
    <2>7. HandledIn(e, mis, ids, ws) BY <2>4 DEF HandledIn
    <2>8. \A f \in Int : Handled(f) => HandledIn(f, mis, ids, ws)
      BY <2>1, <2>5 DEF Handled, HandledIn
    <2> QED BY <2>6, <2>7, <2>8 DEF mis, ids, ws
  <1> QED BY <1>3, <1>4

LEMMA FetchLeads ==
  ASSUME IInv, CInv, fails = 0, NEW found \in BOOLEAN,
         CurrentFetched(found) \/ NextFetched(found)
  PROVE  CInv'
  <1>1. /\ now \in Int /\ upSince \in Int /\ fails \in Nat
        /\ mgr \in Manager /\ mgr.cur \in Int /\ mgr.next \in Int /\ mgr.seen \in Int
        /\ Alive /\ Lead /\ AliveIn(workers)
    BY DEF IInv, TypeOK, CInv, Manager, CurrentFetched, NextFetched, Fresh, Alive
  <1>2. Looked(mgr) BY <1>1 DEF Lead
  <1>3. ASSUME NEW ws \in Seq(Worker), AliveIn(ws), workers' = ws, UNCHANGED <<now, run, fails, upSince>>,
               Lead', mgr'.at # "gone"
        PROVE  CInv'
    <2>1. Alive' BY <1>1, <1>3 DEF Alive, AliveIn, Expiry
    <2> QED BY <1>1, <1>3, <2>1 DEF CInv
  <1>4. CASE CurrentFetched(found)
    <2> DEFINE e   == mgr.cur
               ids == Known(found)
               ws  == Created(e, found)
               mis == missed'
    <2>1. /\ mgr.at = "fetchCur" /\ Fetched(e, found) /\ PreWarm(mgr, ids, ws)
          /\ workers' = ws /\ UNCHANGED <<now, run, fails, upSince>>
      BY <1>4 DEF CurrentFetched, Fetched
    <2>2. ~Has(e, active, workers) BY <2>1 DEF IInv, Registered
    <2>3. ws \in Seq(Worker) /\ ids \in SUBSET DOMAIN ws BY <1>1, <2>2, FetchKeeps
    <2>4. HandledIn(e, mis, ids, ws) /\ AliveIn(ws)
          /\ \A f \in Int : Handled(f) => HandledIn(f, mis, ids, ws)
      BY <1>1, <2>1, <2>2, FetchHandles
    <2>5. now <= mgr.seen + FetchMax
      <3>1. mgr.due \in Int BY <1>1 DEF Manager
      <3> QED BY <1>1, <2>1, <3>1, Numbers DEF Lead, Waits
    <2> HIDE DEF ids, ws
    <2>6. NextInTime(mgr, mis, ids, ws)
      BY <1>1, <2>4 DEF Lead, NextInTime, Handled
    <2>7. Lead' /\ mgr'.at # "gone"
      <3> PICK k : k = mis OBVIOUS
      <3>1. HandledIn(e, k, ids, ws) /\ NextInTime(mgr, k, ids, ws) /\ missed' = k
        BY <2>4, <2>6
      <3> HIDE DEF mis
      <3> PICK mm : mm = mgr OBVIOUS
      <3> PICK dd : dd = ids OBVIOUS
      <3> PICK ss : ss = ws OBVIOUS
      <3>2. /\ mm \in Manager /\ ss \in Seq(Worker) /\ dd \in SUBSET DOMAIN ss
            /\ AliveIn(ss) /\ workers' = ss /\ Looked(mm) /\ now <= mm.seen + FetchMax
            /\ HandledIn(mm.cur, k, dd, ss) /\ NextInTime(mm, k, dd, ss)
            /\ PreWarm(mm, dd, ss)
        BY <1>1, <1>2, <2>1, <2>3, <2>4, <2>5, <3>1
      <3> QED BY <1>1, <2>1, <3>1, <3>2, PreWarmLeads
    <2> QED BY <1>3, <2>1, <2>3, <2>4, <2>7
  <1>5. CASE NextFetched(found)
    <2> DEFINE e   == mgr.next
               ids == Known(found)
               ws  == Created(e, found)
               mis == missed'
    <2>1. /\ mgr.at = "fetchNext" /\ Fetched(e, found) /\ CleanUp(mgr, ids, ws)
          /\ workers' = ws /\ UNCHANGED <<now, run, fails, upSince>>
      BY <1>5 DEF NextFetched, Fetched
    <2>2. ~Has(e, active, workers) BY <2>1 DEF IInv, Registered
    <2>3. ws \in Seq(Worker) /\ ids \in SUBSET DOMAIN ws BY <1>1, <2>2, FetchKeeps
    <2>4. HandledIn(e, mis, ids, ws) /\ AliveIn(ws)
          /\ \A f \in Int : Handled(f) => HandledIn(f, mis, ids, ws)
      BY <1>1, <2>1, <2>2, FetchHandles
    <2>5. now <= mgr.seen + 2 * FetchMax /\ PreWarmDue(mgr)
      <3>1. mgr.due \in Int BY <1>1 DEF Manager
      <3> QED BY <1>1, <2>1, <3>1, Numbers DEF Lead, Waits
    <2>6. Handled(mgr.cur) BY <1>1, <2>1 DEF Lead, CurInTime
    <2> HIDE DEF ids, ws
    <2>7. Lead' /\ mgr'.at # "gone"
      <3> PICK k : k = mis OBVIOUS
      <3>1. HandledIn(e, k, ids, ws) /\ HandledIn(mgr.cur, k, ids, ws) /\ missed' = k
        BY <1>1, <2>4, <2>6
      <3> HIDE DEF mis
      <3> PICK mm : mm = mgr OBVIOUS
      <3> PICK dd : dd = ids OBVIOUS
      <3> PICK ss : ss = ws OBVIOUS
      <3>2. /\ mm \in Manager /\ ss \in Seq(Worker) /\ dd \in SUBSET DOMAIN ss
            /\ AliveIn(ss) /\ workers' = ss /\ Looked(mm) /\ now <= mm.seen + 2 * FetchMax
            /\ PreWarmDue(mm)
            /\ HandledIn(mm.cur, k, dd, ss) /\ HandledIn(mm.next, k, dd, ss)
            /\ CleanUp(mm, dd, ss)
        BY <1>1, <1>2, <2>1, <2>3, <2>4, <2>5, <3>1
      <3> QED BY <1>1, <2>1, <3>1, <3>2, CleanUpLeads
    <2> QED BY <1>3, <2>1, <2>3, <2>4, <2>7
  <1> QED BY <1>4, <1>5

(* The workers move, time passes: what was handled stays so.               *)
LEMMA WorkersLead ==
  ASSUME IInv, CInv, fails = 0, NEW i \in DOMAIN workers,
         \/ Connects(i) \/ LosesConnection(i) \/ Expires(i) \/ OrphanWakes(i)
         \/ SpinEnds(i)
  PROVE  CInv'
  <1> USE DEF MoveTo, others
  <1>1. /\ now \in Int /\ upSince \in Int /\ fails \in Nat
        /\ mgr \in Manager /\ mgr.cur \in Int /\ mgr.next \in Int
        /\ workers \in Seq(Worker) /\ active \subseteq DOMAIN workers
        /\ Alive /\ AliveIn(workers) /\ (Fresh \/ Lead)
    BY DEF IInv, TypeOK, CInv, Manager, Alive
  <1>2. PICK a : MoveTo(i, a) /\ (a \in Live \/ (a = "done" /\ now >= Expiry(workers[i])))
    BY <1>1 DEF Connects, LosesConnection, Expires, OrphanWakes, SpinEnds, Live, AliveIn
  <1>3. UNCHANGED others
    BY DEF Connects, LosesConnection, Expires, OrphanWakes, SpinEnds
  <1>4. /\ DOMAIN workers' = DOMAIN workers
        /\ \A j \in DOMAIN workers : /\ workers'[j].epoch = workers[j].epoch
                                     /\ workers'[j].at = IF j = i THEN a ELSE workers[j].at
    <2>1. \A j \in DOMAIN workers : workers[j] \in Worker BY <1>1
    <2> QED BY <1>2, <2>1 DEF Worker
  <1>5. AliveIn(workers)'
    <2>1. \A j \in DOMAIN workers : Expiry(workers'[j]) = Expiry(workers[j])
      BY <1>4 DEF Expiry
    <2>2. now' = now /\ \A j \in DOMAIN workers : Expiry(workers[j])' = Expiry(workers'[j])
      BY <1>3 DEF Expiry
    <2> QED BY <1>1, <1>2, <1>4, <2>1, <2>2 DEF AliveIn
  <1>6. \A e \in Int : Handled(e) <=> Handled(e)'
    BY <1>1, <1>3, <1>4 DEF Handled, HandledIn, Has
  <1>7. Lead => Lead'
    <2> SUFFICES ASSUME Lead PROVE Lead' OBVIOUS
    <2>1. mgr' = mgr /\ now' = now /\ upSince' = upSince BY <1>3
    <2> PICK c \in Int : c = mgr.cur BY <1>1
    <2> PICK n \in Int : n = mgr.next BY <1>1
    <2>2. (Handled(c) => Handled(c)') /\ (Handled(n) => Handled(n)') BY <1>6
    <2>3. Looked(mgr)' /\ Waits'
      BY <2>1 DEF Lead, Looked, Waits, FlooredEpoch, PreWarmDue
    <2>4. CurInTime' BY <2>1, <2>2 DEF Lead, CurInTime, Handled, HandledIn
    <2>5. NextInTime(mgr, missed, active, workers)' BY <2>1, <2>2 DEF Lead, NextInTime, Handled, HandledIn
    <2>6. (mgr.at = "sleep" /\ PreWarmDue(mgr) => Handled(mgr.next))'
      BY <2>1, <2>2 DEF Lead, PreWarmDue, Handled, HandledIn
    <2> QED BY <2>3, <2>4, <2>5, <2>6 DEF Lead
  <1>8. Alive' BY <1>1, <1>3, <1>5 DEF Alive
  <1> QED BY <1>1, <1>3, <1>7, <1>8 DEF CInv, Fresh

LEMMA TickLeads == ASSUME IInv, CInv, fails = 0, Tick PROVE CInv'
  <1>1. /\ now \in Int /\ upSince \in Int /\ fails \in Nat
        /\ mgr \in Manager /\ mgr.cur \in Int /\ mgr.next \in Int /\ mgr.due \in Int
        /\ mgr.seen \in Int /\ workers \in Seq(Worker) /\ active \subseteq DOMAIN workers
        /\ Alive /\ AliveIn(workers) /\ (Fresh \/ Lead)
    BY DEF IInv, TypeOK, CInv, Manager, Alive
  <1>2. now' = now + 1 /\ ~Due
        /\ UNCHANGED <<run, failedAt, fails, mgr, active, workers, upSince, missed>>
    BY DEF Tick
  <1>3. ~Blocked BY <1>1 DEF Blocked, AliveIn, Live
  <1>4. now < mgr.due BY <1>1, <1>2, <1>3 DEF Due, Alive
  <1>5. Lead BY <1>1, <1>4 DEF Fresh
  <1>6. AliveIn(workers)'
    <2> SUFFICES ASSUME NEW i \in DOMAIN workers
                 PROVE  workers[i].at \in Live \/ (workers[i].at = "done" /\ now + 1 >= Expiry(workers[i]))
      BY <1>2 DEF AliveIn, Expiry
    <2>1. workers[i] \in Worker BY <1>1
    <2>2. Expiry(workers[i]) \in Int BY <2>1, Numbers DEF Worker, Expiry
    <2> QED BY <1>1, <2>2 DEF AliveIn
  <1>7. \A e \in Int : Handled(e) => Handled(e)'
    <2>1. now <= now' /\ now' \in Int BY <1>1, <1>2
    <2> QED BY <1>1, <1>2, <2>1, HandledStays
  <1>8. Lead'
    <2>1. mgr' = mgr /\ upSince' = upSince BY <1>2
    <2> PICK c \in Int : c = mgr.cur BY <1>1
    <2> PICK n \in Int : n = mgr.next BY <1>1
    <2>2. (Handled(c) => Handled(c)') /\ (Handled(n) => Handled(n)') BY <1>7
    <2>3. Looked(mgr)' BY <1>1, <1>2, <1>5 DEF Lead, Looked, FlooredEpoch
    <2>4. Waits' BY <1>1, <1>2, <1>4, <1>5 DEF Lead, Waits, PreWarmDue
    <2>5. CurInTime' BY <1>5, <2>1, <2>2 DEF Lead, CurInTime, Handled, HandledIn
    <2>6. NextInTime(mgr, missed, active, workers)'
      BY <1>5, <2>1, <2>2 DEF Lead, NextInTime, Handled, HandledIn
    <2>7. (mgr.at = "sleep" /\ PreWarmDue(mgr) => Handled(mgr.next))'
      BY <1>5, <2>1, <2>2 DEF Lead, PreWarmDue, Handled, HandledIn
    <2> QED BY <2>3, <2>4, <2>5, <2>6, <2>7 DEF Lead
  <1>9. Alive' BY <1>1, <1>2, <1>6 DEF Alive
  <1> QED BY <1>1, <1>2, <1>8, <1>9 DEF CInv

LEMMA NextCInv == ASSUME LeadTime, IInv, CInv, [Next]_vars PROVE CInv'
  <1>0. now \in Int /\ fails \in Nat /\ upSince \in Int BY DEF IInv, TypeOK, CInv
  <1>1. CASE fails # 0
    <2>1. fails' \in Nat /\ fails' # 0
      BY <1>0, <1>1 DEF Next, LoopStep, ManagerWakes, CurrentFetched, NextFetched, Fetched,
         Connects, LosesConnection, Expires, OrphanWakes, SpinEnds, others, WriterFails,
         Restart, Tick, vars
    <2>2. upSince' \in Int
      BY <1>0 DEF Next, LoopStep, ManagerWakes, CurrentFetched, NextFetched, Fetched,
         Connects, LosesConnection, Expires, OrphanWakes, SpinEnds, others, WriterFails,
         Restart, Tick, vars
    <2> QED BY <2>1, <2>2 DEF CInv
  <1>2. CASE fails = 0
    <2>1. CASE ManagerWakes BY <1>2, <2>1, ManagerWakesLeads
    <2>2. CASE \E found \in BOOLEAN : CurrentFetched(found) \/ NextFetched(found)
      BY <1>2, <2>2, FetchLeads
    <2>3. CASE \E i \in DOMAIN workers : \/ Connects(i) \/ LosesConnection(i) \/ Expires(i)
                                         \/ OrphanWakes(i) \/ SpinEnds(i)
      BY <1>2, <2>3, WorkersLead
    <2>4. CASE WriterFails
      <3>1. fails' = fails + 1 /\ upSince' = upSince BY <2>4 DEF WriterFails
      <3> QED BY <1>0, <1>2, <3>1 DEF CInv
    <2>5. CASE Restart BY <1>2, <2>5 DEF Restart, CInv, Alive
    <2>6. CASE Tick BY <1>2, <2>6, TickLeads
    <2>7. CASE UNCHANGED vars
      <3>1. UNCHANGED <<now, run, fails, mgr, active, workers, upSince, missed>>
        BY <2>7 DEF vars
      <3> QED BY <3>1 DEF CInv, Alive, AliveIn, Fresh, Lead, Looked, Waits, CurInTime,
                NextInTime, Handled, HandledIn, Has, Expiry, FlooredEpoch, PreWarmDue
    <2> QED BY <2>1, <2>2, <2>3, <2>4, <2>5, <2>6, <2>7 DEF Next, LoopStep
  <1> QED BY <1>1, <1>2

LEMMA InductiveLead == ASSUME LeadTime PROVE Spec => [](IInv /\ CInv)
  <1>1. ASSUME CInv, IInv, [Next]_vars PROVE CInv' BY <1>1, NextCInv
  <1>2. Spec => []IInv BY Inductive
  <1>3. Init => CInv BY InitCInv
  <1> QED BY <1>1, <1>2, <1>3, PTL DEF Spec

LEMMA LeadCovers == ASSUME LeadTime, IInv, CInv PROVE Covered
  <1> SUFFICES ASSUME NEW e \in now - Interval + 1 .. now, Boundary(e),
                      e \notin missed, fails = 0, now > upSince + 2 * FetchMax
               PROVE  \E i \in active : workers[i].epoch = e /\ workers[i].at \in Live
    BY DEF Covered, Boundary
  <1> DEFINE s == mgr.seen
             n == mgr.next
             c == mgr.cur
  <1>1. /\ now \in Int /\ upSince \in Int /\ mgr \in Manager
        /\ c \in Int /\ n \in Int /\ s \in Int /\ mgr.due \in Int
        /\ workers \in Seq(Worker) /\ active \subseteq DOMAIN workers
        /\ mgr.at # "gone" /\ AliveIn(workers) /\ (Fresh \/ Lead)
    BY DEF IInv, TypeOK, CInv, Manager, Alive
  <1>2. e \in Int /\ e <= now /\ now < e + Interval BY <1>1, Numbers
  <1>3. Lead BY <1>1, Numbers DEF Fresh
  <1>4. FlooredEpoch(now, 0) = e BY <1>1, <1>2, FloorUnique
  <1>5. /\ upSince <= s /\ s <= now /\ now <= mgr.due
        /\ c = FlooredEpoch(s, 0) /\ n = FlooredEpoch(s, 1)
        /\ mgr.at \in {"sleep", "fetchCur", "fetchNext"}
    BY <1>1, <1>3 DEF Lead, Looked, Waits, Manager
  <1>6. /\ mgr.at = "sleep" => now <= s + 2 * FetchMax + Poll
        /\ mgr.at = "sleep" /\ ~(s > n - PRE_WARM_TIME) => now <= s + FetchMax + Poll
        /\ mgr.at = "fetchCur" => now <= s + FetchMax
        /\ mgr.at = "fetchNext" => now <= s + 2 * FetchMax
    BY <1>1, <1>3, Numbers DEF Lead, Waits, PreWarmDue
  <1>7. /\ Handled(c) \/ (mgr.at = "fetchCur" /\ s = upSince)
        /\ mgr.at = "sleep" /\ s > n - PRE_WARM_TIME => Handled(n)
        /\ Handled(n) \/ s = upSince \/ s + 2 * FetchMax < n
    BY <1>3 DEF Lead, CurInTime, NextInTime, Handled, PreWarmDue
  <1> HIDE DEF s, n, c
  <1>8. now <= s + Interval BY <1>1, <1>5, <1>6, Numbers DEF LeadTime
  <1>9. (now < n /\ e = c) \/ (n <= now /\ e = n)
    BY <1>1, <1>4, <1>5, <1>8, FloorStep
  <1>10. Handled(e)
    <2>1. CASE now < n /\ e = c
      <3>1. ~(mgr.at = "fetchCur" /\ s = upSince) BY <1>1, <1>6, Numbers
      <3> QED BY <1>7, <2>1, <3>1
    <2>2. CASE n <= now /\ e = n
      <3> SUFFICES ASSUME ~Handled(n) PROVE FALSE BY <2>2
      <3>1. s = upSince \/ s + 2 * FetchMax < n BY <1>7
      <3>2. mgr.at = "sleep" => now < n BY <1>1, <1>6, <1>7, Numbers DEF LeadTime
      <3>3. mgr.at \in {"fetchCur", "fetchNext"} => now <= s + 2 * FetchMax
        BY <1>1, <1>6, Numbers
      <3>4. mgr.at \in {"fetchCur", "fetchNext"} => FALSE
        BY <1>1, <2>2, <3>1, <3>3, Numbers
      <3> QED BY <1>1, <1>5, <2>2, <3>2, <3>4
    <2> QED BY <1>9, <2>1, <2>2
  <1>11. PICK i \in active : workers[i].epoch = e
    BY <1>1, <1>2, <1>10, Numbers DEF Handled, HandledIn, Has
  <1>12. ~(now >= Expiry(workers[i])) BY <1>1, <1>2, <1>11, Numbers DEF Expiry
  <1>13. workers[i].at \in Live BY <1>1, <1>12 DEF AliveIn
  <1> QED BY <1>11, <1>13

(* For every interval, offset, sleep and fetch time that leaves LeadTime:  *)
(* as long as no writer fails, each window of the market has its worker    *)
(* from its first moment to its last, unless its tokens were not found.    *)
THEOREM WindowsAreCovered == ASSUME LeadTime PROVE Spec => []Covered
  <1>1. IInv /\ CInv => Covered BY LeadCovers
  <1> QED BY InductiveLead, <1>1, PTL

-----------------------------------------------------------------------------
(* CollectorWriter for any workers, capacity, batch size and number of     *)
(* failures.  Its rows are counted place by place: Occ(s, x) is how often  *)
(* x occurs in s, and adds up over the pieces of a sequence.               *)
Occ(s, x) == Cardinality({i \in DOMAIN s : s[i] = x})

LEMMA OccType ==
  ASSUME NEW S, NEW s \in Seq(S), NEW x
  PROVE  Occ(s, x) \in Nat /\ (Occ(s, x) = 0 <=> x \notin InSeq(s))
  <1> DEFINE A == {i \in DOMAIN s : s[i] = x}
  <1>1. DOMAIN s = 1 .. Len(s) /\ Len(s) \in Nat OBVIOUS
  <1>2. IsFiniteSet(1 .. Len(s)) BY <1>1, FS_Interval
  <1>3. A \in SUBSET (1 .. Len(s)) BY <1>1
  <1>4. A = {} <=> x \notin InSeq(s) BY DEF InSeq
  <1> HIDE DEF A
  <1>5. IsFiniteSet(A) /\ Cardinality(A) \in Nat BY <1>2, <1>3, FS_Subset, FS_CardinalityType
  <1>6. Cardinality(A) = 0 <=> A = {} BY <1>5, FS_EmptySet
  <1>7. Occ(s, x) = Cardinality(A) BY DEF Occ, A
  <1> QED BY <1>4, <1>5, <1>6, <1>7

LEMMA OccConcat ==
  ASSUME NEW S, NEW s \in Seq(S), NEW t \in Seq(S), NEW x
  PROVE  Occ(s \o t, x) = Occ(s, x) + Occ(t, x)
  <1> DEFINE m == Len(s)
             n == Len(t)
             u == s \o t
             A == {i \in DOMAIN s : s[i] = x}
             B == {j \in DOMAIN t : t[j] = x}
             C == {k \in DOMAIN u : u[k] = x}
             D == {m + j : j \in B}
             f == [j \in B |-> m + j]
  <1>1. /\ m \in Nat /\ n \in Nat /\ DOMAIN s = 1 .. m /\ DOMAIN t = 1 .. n
        /\ DOMAIN u = 1 .. m + n
        /\ \A i \in 1 .. m : u[i] = s[i]
        /\ \A j \in 1 .. n : m + j \in 1 .. m + n /\ u[m + j] = t[j]
    OBVIOUS
  <1>2. IsFiniteSet(A) /\ IsFiniteSet(B) /\ A \subseteq 1 .. m /\ B \subseteq 1 .. n
    <2>1. IsFiniteSet(1 .. m) /\ IsFiniteSet(1 .. n) BY <1>1, FS_Interval
    <2>2. A \in SUBSET (1 .. m) /\ B \in SUBSET (1 .. n) BY <1>1
    <2> HIDE DEF A, B
    <2> QED BY <2>1, <2>2, FS_Subset
  <1>3. C = A \cup D
    <2>1. \A k \in 1 .. m + n : k \in 1 .. m \/ (k - m \in 1 .. n /\ m + (k - m) = k)
      BY <1>1
    <2> HIDE DEF m, n, u
    <2>2. ASSUME NEW k \in C PROVE k \in A \cup D
      <3>1. CASE k \in 1 .. m BY <1>1, <2>2, <3>1
      <3>2. CASE k - m \in 1 .. n /\ m + (k - m) = k
        <4>1. k - m \in B BY <1>1, <2>2, <3>2
        <4> QED BY <3>2, <4>1
      <3> QED BY <1>1, <2>1, <2>2, <3>1, <3>2
    <2>3. \A i \in 1 .. m : i \in 1 .. m + n BY <1>1
    <2>4. A \subseteq C BY <1>1, <2>3
    <2>5. D \subseteq C BY <1>1
    <2> QED BY <2>2, <2>4, <2>5
  <1>4. A \cap D = {} BY <1>1, <1>2
  <1>5. f \in Bijection(B, D)
    <2>1. f \in [B -> D] /\ DOMAIN f = B OBVIOUS
    <2>2. \A j, k \in B : f[j] = f[k] => j = k BY <1>1, <1>2
    <2>3. \A d \in D : \E j \in B : f[j] = d OBVIOUS
    <2> HIDE DEF f, B, D
    <2> QED BY <2>1, <2>2, <2>3 DEF Bijection, Injection, Surjection, IsInjective
  <1> HIDE DEF A, B, C, D, f
  <1>6. IsFiniteSet(D) /\ Cardinality(D) = Cardinality(B)
    <2>1. ExistsBijection(B, D) BY <1>5 DEF ExistsBijection
    <2> QED BY <1>2, <2>1, FS_Bijection
  <1>7. Cardinality(C) = Cardinality(A) + Cardinality(D)
    <2>1. Cardinality(A \cup D) = Cardinality(A) + Cardinality(D) - Cardinality(A \cap D)
      BY <1>2, <1>6, FS_Union
    <2>2. Cardinality(A) \in Nat /\ Cardinality(D) \in Nat BY <1>2, <1>6, FS_CardinalityType
    <2>3. Cardinality(A \cap D) = 0 BY <1>4, FS_EmptySet
    <2> QED BY <1>3, <2>1, <2>2, <2>3
  <1>8. Occ(s, x) = Cardinality(A) /\ Occ(t, x) = Cardinality(B) /\ Occ(u, x) = Cardinality(C)
    BY DEF Occ, A, B, C
  <1> QED BY <1>6, <1>7, <1>8

LEMMA OccSmall ==
  ASSUME NEW x
  PROVE  Occ(<<>>, x) = 0 /\ \A y : Occ(<<y>>, x) = IF x = y THEN 1 ELSE 0
  <1>1. Occ(<<>>, x) = 0
    <2>1. {i \in DOMAIN <<>> : <<>>[i] = x} = {} OBVIOUS
    <2> QED BY <2>1, FS_EmptySet DEF Occ
  <1>2. ASSUME NEW y PROVE Occ(<<y>>, x) = IF x = y THEN 1 ELSE 0
    <2> DEFINE A == {i \in DOMAIN <<y>> : <<y>>[i] = x}
    <2>1. A = IF x = y THEN {1} ELSE {} OBVIOUS
    <2> HIDE DEF A
    <2>2. Cardinality(A) = IF x = y THEN 1 ELSE 0
      BY <2>1, FS_EmptySet, FS_Singleton
    <2> QED BY <2>2 DEF Occ, A
  <1> QED BY <1>1, <1>2

(* A batch of n rows has at most n different ones.                         *)
LEMMA InSeqFinite ==
  ASSUME NEW S, NEW s \in Seq(S)
  PROVE  IsFiniteSet(InSeq(s)) /\ Cardinality(InSeq(s)) <= Len(s) /\ InSeq(s) \subseteq S
  <1>1. DOMAIN s = 1 .. Len(s) /\ Len(s) \in Nat OBVIOUS
  <1>2. s \in Surjection(1 .. Len(s), InSeq(s)) BY <1>1 DEF Surjection, InSeq
  <1>3. IsFiniteSet(1 .. Len(s)) /\ Cardinality(1 .. Len(s)) = Len(s)
    <2>1. 1 \in Int /\ Len(s) \in Int BY <1>1
    <2> QED BY <1>1, <2>1, FS_Interval
  <1>4. InSeq(s) \subseteq S BY <1>1 DEF InSeq
  <1> HIDE DEF InSeq
  <1> QED BY <1>2, <1>3, <1>4, FS_Surjection

(* The rows of a worker that did not fail come one behind the other.       *)
Precedes(a, b, F) == a[1] = b[1] /\ a \notin F /\ b \notin F => a[2] < b[2]
Ordered(s, F) == \A i, j \in DOMAIN s : i < j => Precedes(s[i], s[j], F)
Apart(s, t, F) == \A a \in InSeq(s), b \in InSeq(t) : Precedes(a, b, F)

LEMMA OrderedConcat ==
  ASSUME NEW S, NEW s \in Seq(S), NEW t \in Seq(S), NEW F
  PROVE  Ordered(s \o t, F) <=> Ordered(s, F) /\ Ordered(t, F) /\ Apart(s, t, F)
  <1> DEFINE m == Len(s)
             n == Len(t)
             u == s \o t
  <1>1. /\ m \in Nat /\ n \in Nat /\ DOMAIN s = 1 .. m /\ DOMAIN t = 1 .. n
        /\ DOMAIN u = 1 .. m + n
        /\ \A i \in 1 .. m : i \in 1 .. m + n /\ u[i] = s[i]
        /\ \A j \in 1 .. n : m + j \in 1 .. m + n /\ u[m + j] = t[j]
    OBVIOUS
  <1> HIDE DEF m, n, u
  <1>2. ASSUME Ordered(u, F) PROVE Ordered(s, F) /\ Ordered(t, F) /\ Apart(s, t, F)
    <2>1. Ordered(s, F) BY <1>1, <1>2 DEF Ordered
    <2>2. Ordered(t, F)
      <3> SUFFICES ASSUME NEW i \in 1 .. n, NEW j \in 1 .. n, i < j
                   PROVE  Precedes(t[i], t[j], F)
        BY <1>1 DEF Ordered
      <3>1. m + i < m + j BY <1>1
      <3>2. Precedes(u[m + i], u[m + j], F) BY <1>1, <1>2, <3>1 DEF Ordered
      <3> QED BY <1>1, <3>2
    <2>3. Apart(s, t, F)
      <3> SUFFICES ASSUME NEW i \in 1 .. m, NEW j \in 1 .. n
                   PROVE  Precedes(s[i], t[j], F)
        BY <1>1 DEF Apart, InSeq
      <3>1. i < m + j BY <1>1
      <3>2. Precedes(u[i], u[m + j], F) BY <1>1, <1>2, <3>1 DEF Ordered
      <3> QED BY <1>1, <3>2
    <2> QED BY <2>1, <2>2, <2>3
  <1>3. ASSUME Ordered(s, F), Ordered(t, F), Apart(s, t, F) PROVE Ordered(u, F)
    <2> SUFFICES ASSUME NEW i \in 1 .. m + n, NEW j \in 1 .. m + n, i < j
                 PROVE  Precedes(u[i], u[j], F)
      BY <1>1 DEF Ordered
    <2>1. \A k \in 1 .. m + n : k \in 1 .. m \/ (k - m \in 1 .. n /\ m + (k - m) = k)
      BY <1>1
    <2>2. CASE i \in 1 .. m /\ j \in 1 .. m BY <1>1, <1>3, <2>2 DEF Ordered
    <2>3. CASE i \in 1 .. m /\ j \notin 1 .. m
      <3>1. u[i] = s[i] /\ j - m \in 1 .. n /\ u[j] = t[j - m] BY <1>1, <2>1, <2>3
      <3>2. s[i] \in InSeq(s) /\ t[j - m] \in InSeq(t) BY <1>1, <2>3, <3>1 DEF InSeq
      <3> QED BY <1>3, <3>1, <3>2 DEF Apart
    <2>4. CASE i \notin 1 .. m
      <3>1. j \notin 1 .. m BY <1>1, <2>4
      <3>2. i - m \in 1 .. n /\ j - m \in 1 .. n /\ i - m < j - m
        BY <1>1, <2>1, <2>4, <3>1
      <3>3. u[i] = t[i - m] /\ u[j] = t[j - m] BY <1>1, <2>1, <2>4, <3>1
      <3> QED BY <1>1, <1>3, <3>2, <3>3 DEF Ordered
    <2> QED BY <2>2, <2>3, <2>4
  <1> QED BY <1>2, <1>3 DEF u

-----------------------------------------------------------------------------
(* The inductive invariant of the writer: each row is counted in the three *)
(* places together; a batch that waits is not full.                        *)
WriterTyped ==
  /\ read \in [Workers -> Nat] /\ putting \in [Workers -> Seq(Rows)]
  /\ queue \in Seq(Rows) /\ batch \in Seq(Rows) /\ table \in Seq(Rows)
  /\ failed \subseteq Rows /\ IsFiniteSet(failed)
  /\ faults \in Nat
  /\ Len(batch) < BatchSize

(* What a worker still has to put are the last rows it has read.           *)
Frames ==
  \A w \in Workers :
    /\ Len(putting[w]) <= read[w] /\ read[w] <= MaxRows
    /\ \A i \in 1 .. Len(putting[w]) : putting[w][i] = <<w, read[w] - Len(putting[w]) + i>>

Counted(tab, bat, que, F, r) ==
  IF r \in F
  THEN Occ(tab, r) <= 2 /\ Occ(bat, r) = 0 /\ Occ(que, r) = 0
  ELSE Occ(tab, r) + Occ(bat, r) + Occ(que, r) = IF WasPut(r) THEN 1 ELSE 0

Counts == \A r \in Rows : Counted(table, batch, queue, failed, r)
FailedWasPut == \A r \in failed : WasPut(r)
InLine == Ordered(Line, failed)
FewFailed == Cardinality(failed) <= BatchSize * faults

WriterInv == WriterTyped /\ Frames /\ Counts /\ FailedWasPut /\ InLine /\ FewFailed

LEMMA LineFacts ==
  ASSUME NEW a \in Seq(Rows), NEW b \in Seq(Rows), NEW c \in Seq(Rows), NEW F
  PROVE  /\ a \o b \o c = a \o (b \o c)
         /\ a \o b \in Seq(Rows) /\ b \o c \in Seq(Rows) /\ a \o b \o c \in Seq(Rows)
         /\ Ordered(a \o b \o c, F) <=> Ordered(a, F) /\ Ordered(b \o c, F) /\ Apart(a, b \o c, F)
         /\ \A x : Occ(a \o b \o c, x) = Occ(a, x) + Occ(b, x) + Occ(c, x)
  <1>1. a \o b \o c = a \o (b \o c) BY ConcatAssociative
  <1>2. a \o b \in Seq(Rows) /\ b \o c \in Seq(Rows) OBVIOUS
  <1>3. a \o b \o c \in Seq(Rows) BY <1>2
  <1>4. Ordered(a \o (b \o c), F) <=> Ordered(a, F) /\ Ordered(b \o c, F) /\ Apart(a, b \o c, F)
    BY <1>2, OrderedConcat
  <1>5. ASSUME NEW x PROVE Occ(a \o b \o c, x) = Occ(a, x) + Occ(b, x) + Occ(c, x)
    <2>1. Occ(a \o (b \o c), x) = Occ(a, x) + Occ(b \o c, x) BY <1>2, OccConcat
    <2>2. Occ(b \o c, x) = Occ(b, x) + Occ(c, x) BY OccConcat
    <2>3. Occ(a, x) \in Nat /\ Occ(b, x) \in Nat /\ Occ(c, x) \in Nat BY OccType
    <2> QED BY <1>1, <2>1, <2>2, <2>3
  <1> QED BY <1>1, <1>2, <1>3, <1>4, <1>5

LEMMA InitWriterInv == WriterInit => WriterInv
  <1> SUFFICES ASSUME WriterInit PROVE WriterInv OBVIOUS
  <1>1. WriterTyped BY WriterAssumption, FS_EmptySet DEF WriterInit, WriterTyped
  <1>2. Frames BY WriterAssumption DEF WriterInit, Frames
  <1>3. ASSUME NEW r \in Rows PROVE ~WasPut(r)
    <2>1. r[1] \in Workers /\ r[2] \in 1 .. MaxRows BY DEF Rows
    <2>2. read[r[1]] - Len(putting[r[1]]) = 0 BY <2>1 DEF WriterInit
    <2> QED BY <2>1, <2>2, WriterAssumption DEF WasPut
  <1>4. Counts BY <1>3, OccSmall DEF WriterInit, Counts, Counted
  <1>5. InLine
    <2>1. Line = <<>> BY DEF WriterInit, Line
    <2> QED BY <2>1 DEF InLine, Ordered
  <1>6. FailedWasPut /\ FewFailed
    <2>1. Cardinality(failed) = 0 /\ failed = {} /\ faults = 0 BY FS_EmptySet DEF WriterInit
    <2> QED BY <2>1, WriterAssumption DEF FailedWasPut, FewFailed
  <1> QED BY <1>1, <1>2, <1>4, <1>5, <1>6 DEF WriterInv

(* The invariant implies what the run checks.                              *)
LEMMA WriterInvOnce == WriterInv => OnceInOrder
  <1> SUFFICES ASSUME WriterInv PROVE OnceInOrder OBVIOUS
  <1>1. table \in Seq(Rows) /\ batch \in Seq(Rows) /\ queue \in Seq(Rows)
    BY DEF WriterInv, WriterTyped
  <1>2. \A r : Times(r) = Occ(table, r) + Occ(batch, r) + Occ(queue, r)
    <2>1. \A r : Times(r) = Occ(Line, r) BY DEF Times, Occ
    <2>2. \A r : Occ(Line, r) = Occ(table, r) + Occ(batch, r) + Occ(queue, r)
      BY <1>1, LineFacts DEF Line
    <2> QED BY <2>1, <2>2
  <1>3. ASSUME NEW r \in Rows
        PROVE  IF r \in failed
               THEN Times(r) <= 2 /\ r \notin InSeq(batch) \cup InSeq(queue)
               ELSE Times(r) = IF WasPut(r) THEN 1 ELSE 0
    <2>1. Counted(table, batch, queue, failed, r) BY DEF WriterInv, Counts
    <2>2. /\ Occ(table, r) \in Nat
          /\ Occ(batch, r) = 0 <=> r \notin InSeq(batch)
          /\ Occ(queue, r) = 0 <=> r \notin InSeq(queue)
      BY <1>1, OccType
    <2>3. CASE r \in failed
      <3>1. Occ(table, r) <= 2 /\ Occ(batch, r) = 0 /\ Occ(queue, r) = 0
        BY <2>1, <2>3 DEF Counted
      <3>2. Times(r) <= 2 BY <1>2, <2>2, <3>1
      <3> QED BY <2>2, <2>3, <3>1, <3>2
    <2>4. CASE r \notin failed BY <1>2, <2>1, <2>4 DEF Counted
    <2> QED BY <2>3, <2>4
  <1>4. \A i, j \in DOMAIN Line :
          /\ i < j /\ Line[i][1] = Line[j][1]
          /\ Line[i] \notin failed /\ Line[j] \notin failed
          => Line[i][2] < Line[j][2]
    BY DEF WriterInv, InLine, Ordered, Precedes
  <1>5. Cardinality(failed) <= BatchSize * faults BY DEF WriterInv, FewFailed
  <1> QED BY <1>3, <1>4, <1>5 DEF OnceInOrder

-----------------------------------------------------------------------------
(* What the steps need of concatenation, said of rows alone.               *)
LEMMA InConcat ==
  ASSUME NEW S, NEW s \in Seq(S), NEW t \in Seq(S)
  PROVE  InSeq(s \o t) = InSeq(s) \cup InSeq(t)
  <1> DEFINE m == Len(s)
             n == Len(t)
             u == s \o t
  <1>1. /\ m \in Nat /\ n \in Nat /\ DOMAIN s = 1 .. m /\ DOMAIN t = 1 .. n
        /\ DOMAIN u = 1 .. m + n
        /\ \A i \in 1 .. m : i \in 1 .. m + n /\ u[i] = s[i]
        /\ \A j \in 1 .. n : m + j \in 1 .. m + n /\ u[m + j] = t[j]
    OBVIOUS
  <1> HIDE DEF m, n, u
  <1>2. \A k \in 1 .. m + n : k \in 1 .. m \/ (k - m \in 1 .. n /\ m + (k - m) = k)
    BY <1>1
  <1>3. InSeq(u) \subseteq InSeq(s) \cup InSeq(t)
    <2> SUFFICES ASSUME NEW k \in 1 .. m + n PROVE u[k] \in InSeq(s) \cup InSeq(t)
      BY <1>1 DEF InSeq
    <2>1. CASE k \in 1 .. m BY <1>1, <2>1 DEF InSeq
    <2>2. CASE k - m \in 1 .. n /\ m + (k - m) = k
      <3>1. u[k] = t[k - m] BY <1>1, <2>2
      <3> QED BY <1>1, <2>2, <3>1 DEF InSeq
    <2> QED BY <1>2, <2>1, <2>2
  <1>4. ASSUME NEW i \in 1 .. m PROVE s[i] \in InSeq(u)
    BY <1>1 DEF InSeq
  <1>5. ASSUME NEW j \in 1 .. n PROVE t[j] \in InSeq(u)
    <2>1. m + j \in DOMAIN u /\ u[m + j] = t[j] BY <1>1
    <2> QED BY <2>1 DEF InSeq
  <1>6. InSeq(s) \cup InSeq(t) \subseteq InSeq(u)
    BY <1>1, <1>4, <1>5 DEF InSeq
  <1> QED BY <1>3, <1>6 DEF u

LEMMA RowsRegroup == \A a, b, c \in Seq(Rows) : (a \o b) \o c = a \o (b \o c)
  BY ConcatAssociative

LEMMA RowsConcat ==
  \A a, b \in Seq(Rows) :
    /\ a \o b \in Seq(Rows)
    /\ InSeq(a \o b) = InSeq(a) \cup InSeq(b)
    /\ \A x : Occ(a \o b, x) = Occ(a, x) + Occ(b, x)
    /\ \A F : Ordered(a \o b, F) <=> Ordered(a, F) /\ Ordered(b, F) /\ Apart(a, b, F)
  <1> TAKE a, b \in Seq(Rows)
  <1>1. a \o b \in Seq(Rows) OBVIOUS
  <1>2. InSeq(a \o b) = InSeq(a) \cup InSeq(b) BY InConcat
  <1>3. ASSUME NEW x PROVE Occ(a \o b, x) = Occ(a, x) + Occ(b, x) BY OccConcat
  <1>4. ASSUME NEW F PROVE Ordered(a \o b, F) <=> Ordered(a, F) /\ Ordered(b, F) /\ Apart(a, b, F)
    BY OrderedConcat
  <1> QED BY <1>1, <1>2, <1>3, <1>4

-----------------------------------------------------------------------------
(* A step of the writer takes rows from the front of what waits, and       *)
(* leaves q in the queue.                                                  *)
Takes(rows, q) == rows \o q = batch \o queue

LEMMA Taken ==
  ASSUME WriterInv, NEW rows \in Seq(Rows), NEW q \in Seq(Rows),
         Takes(rows, q)
  PROVE  /\ \A r \in Rows : Counted(table, rows, q, failed, r)
         /\ Ordered(table \o rows \o q, failed)
  <1>1. /\ table \in Seq(Rows) /\ batch \in Seq(Rows) /\ queue \in Seq(Rows)
        /\ rows \in Seq(Rows) /\ q \in Seq(Rows)
    BY DEF WriterInv, WriterTyped
  <1>2. ASSUME NEW r \in Rows PROVE Counted(table, rows, q, failed, r)
    <2>1. Occ(rows, r) + Occ(q, r) = Occ(batch, r) + Occ(queue, r)
      <3>1. Occ(rows \o q, r) = Occ(rows, r) + Occ(q, r) BY <1>1, RowsConcat
      <3>2. Occ(batch \o queue, r) = Occ(batch, r) + Occ(queue, r) BY <1>1, RowsConcat
      <3>3. Occ(rows \o q, r) = Occ(batch \o queue, r) BY DEF Takes
      <3> QED BY <3>1, <3>2, <3>3
    <2>2. /\ Occ(table, r) \in Nat /\ Occ(rows, r) \in Nat /\ Occ(q, r) \in Nat
          /\ Occ(batch, r) \in Nat /\ Occ(queue, r) \in Nat
      BY <1>1, OccType
    <2>3. Counted(table, batch, queue, failed, r) BY DEF WriterInv, Counts
    <2> QED BY <2>1, <2>2, <2>3 DEF Counted
  <1>3. Ordered(table \o rows \o q, failed)
    <2>1. table \o rows \o q = table \o (rows \o q) BY ONLY <1>1, RowsRegroup
    <2>2. Line = table \o (batch \o queue) BY <1>1, RowsRegroup DEF Line
    <2>3. Line = table \o (rows \o q) BY <2>2 DEF Takes
    <2> QED BY <2>1, <2>3 DEF WriterInv, InLine
  <1> QED BY <1>2, <1>3

(* The workers are where they were.                                        *)
LEMMA WorkersStay ==
  ASSUME WriterInv, UNCHANGED <<read, putting>>
  PROVE  Frames' /\ \A r : WasPut(r)' <=> WasPut(r)
  <1>1. Frames' BY DEF WriterInv, Frames
  <1> QED BY <1>1 DEF WasPut

(* More faults allow more failed rows.                                     *)
LEMMA MoreFaults ==
  ASSUME WriterInv, failed' = failed, faults' \in {faults, faults + 1}
  PROVE  FewFailed' /\ faults' \in Nat
  <1>1. BatchSize \in Nat /\ faults \in Nat /\ Cardinality(failed) \in Nat
    BY WriterAssumption, FS_CardinalityType DEF WriterInv, WriterTyped
  <1>2. BatchSize * (faults + 1) = BatchSize * faults + BatchSize BY <1>1
  <1>3. BatchSize * faults \in Nat BY <1>1
  <1>4. Cardinality(failed) <= BatchSize * faults' BY <1>1, <1>2, <1>3 DEF WriterInv, FewFailed
  <1> QED BY <1>1, <1>4 DEF FewFailed

(* The rows wait in the batch.                                             *)
LEMMA StaysInBatch ==
  ASSUME WriterInv, NEW rows \in Seq(Rows), NEW q \in Seq(Rows),
         Takes(rows, q), Len(rows) < BatchSize,
         queue' = q, batch' = rows, faults' \in {faults, faults + 1},
         UNCHANGED <<read, putting, table, failed>>
  PROVE  WriterInv'
  <1>1. WriterTyped' BY MoreFaults DEF WriterInv, WriterTyped
  <1>2. Frames' /\ (\A r : WasPut(r)' <=> WasPut(r)) BY WorkersStay
  <1>3. Counts'
    <2>1. \A r \in Rows : Counted(table, rows, q, failed, r) BY Taken
    <2> QED BY <1>2, <2>1 DEF Counts, Counted
  <1>4. FailedWasPut' BY <1>2 DEF WriterInv, FailedWasPut
  <1>5. InLine'
    <2>1. Ordered(table \o rows \o q, failed) BY Taken
    <2> QED BY <2>1 DEF InLine, Line
  <1>6. FewFailed' BY MoreFaults
  <1> QED BY <1>1, <1>2, <1>3, <1>4, <1>5, <1>6 DEF WriterInv

(* The rows have moved to the table.                                       *)
LEMMA MovesToTable ==
  ASSUME WriterInv, NEW rows \in Seq(Rows), NEW q \in Seq(Rows),
         Takes(rows, q),
         queue' = q, batch' = <<>>, table' = table \o rows,
         faults' \in {faults, faults + 1},
         UNCHANGED <<read, putting, failed>>
  PROVE  WriterInv'
  <1>1. table \in Seq(Rows) BY DEF WriterInv, WriterTyped
  <1>2. WriterTyped'
    <2>1. <<>> \in Seq(Rows) /\ Len(<<>>) = 0 /\ table \o rows \in Seq(Rows) BY <1>1
    <2>2. 0 < BatchSize BY WriterAssumption
    <2> QED BY <2>1, <2>2, MoreFaults DEF WriterInv, WriterTyped
  <1>3. Frames' /\ (\A r : WasPut(r)' <=> WasPut(r)) BY WorkersStay
  <1>4. Counts'
    <2>1. \A r \in Rows : Counted(table, rows, q, failed, r) BY Taken
    <2>2. ASSUME NEW r \in Rows PROVE Counted(table \o rows, <<>>, q, failed, r)
      <3>1. Occ(table \o rows, r) = Occ(table, r) + Occ(rows, r) BY <1>1, OccConcat
      <3>2. Occ(<<>>, r) = 0 BY OccSmall
      <3>3. Occ(table, r) \in Nat /\ Occ(rows, r) \in Nat /\ Occ(q, r) \in Nat
        BY <1>1, OccType
      <3> QED BY <2>1, <3>1, <3>2, <3>3 DEF Counted
    <2> QED BY <1>3, <2>2 DEF Counts, Counted
  <1>5. FailedWasPut' BY <1>3 DEF WriterInv, FailedWasPut
  <1>6. InLine'
    <2>1. Ordered(table \o rows \o q, failed) BY Taken
    <2>2. (table \o rows) \o <<>> = table \o rows BY <1>1
    <2> QED BY <2>1, <2>2 DEF InLine, Line
  <1>7. FewFailed' BY MoreFaults
  <1> QED BY <1>2, <1>3, <1>4, <1>5, <1>6, <1>7 DEF WriterInv

(* What a failed request does to the order and to the numbers: its rows no *)
(* longer count, stored or not.                                            *)
Kept(tab, rows, q, X, Y, F) ==
  /\ tab \o X \o Y \in Seq(Rows)
  /\ \A r : Occ(tab \o X \o Y, r) = Occ(tab, r) + Occ(X, r) + Occ(Y, r)
  /\ Ordered(tab \o X \o Y \o <<>> \o q, F \cup InSeq(rows))

LEMMA FailedRows ==
  ASSUME NEW tab \in Seq(Rows), NEW rows \in Seq(Rows), NEW q \in Seq(Rows),
         NEW X \in {rows, <<>>}, NEW Y \in {rows, <<>>},
         NEW F, Ordered(tab \o rows \o q, F)
  PROVE  Kept(tab, rows, q, X, Y, F)
  <1> DEFINE G == F \cup InSeq(rows)
  <1>1. tab \in Seq(Rows) /\ rows \in Seq(Rows) /\ q \in Seq(Rows) OBVIOUS
  <1>2. X \in Seq(Rows) /\ Y \in Seq(Rows) /\ InSeq(X) \subseteq InSeq(rows) /\ InSeq(Y) \subseteq InSeq(rows)
    <2>1. InSeq(<<>>) = {} /\ <<>> \in Seq(Rows) BY DEF InSeq
    <2> QED BY <1>1, <2>1
  <1>3. Ordered(tab, F) /\ Ordered(q, F) /\ Apart(tab, q, F)
    <2>1. tab \o rows \o q = tab \o (rows \o q) BY ONLY <1>1, RowsRegroup
    <2>2. Ordered(tab \o (rows \o q), F) BY <2>1
    <2>3. Ordered(tab, F) /\ Ordered(rows \o q, F) /\ Apart(tab, rows \o q, F)
      BY <1>1, <2>1, <2>2, RowsConcat
    <2>4. Ordered(q, F) /\ InSeq(q) \subseteq InSeq(rows \o q) BY <1>1, <2>3, RowsConcat
    <2> QED BY <2>3, <2>4 DEF Apart
  <1>4. \A a, b : Precedes(a, b, F) => Precedes(a, b, G) BY DEF Precedes
  <1>5. \A a, b : a \in InSeq(rows) \/ b \in InSeq(rows) => Precedes(a, b, G) BY DEF Precedes
  <1> HIDE DEF G
  <1>6. Ordered(tab, G) /\ Ordered(q, G) /\ Apart(tab, q, G)
    BY <1>3, <1>4 DEF Ordered, Apart
  <1>7. Ordered(X, G) /\ Ordered(Y, G)
    <2>1. /\ \A i \in DOMAIN X : X[i] \in InSeq(rows)
          /\ \A i \in DOMAIN Y : Y[i] \in InSeq(rows)
      BY <1>2 DEF InSeq
    <2> QED BY <1>5, <2>1 DEF Ordered
  <1>8. \A s : Apart(s, X, G) /\ Apart(X, s, G) /\ Apart(s, Y, G) /\ Apart(Y, s, G)
    BY <1>2, <1>5 DEF Apart
  <1>9. tab \o X \in Seq(Rows) /\ (tab \o X) \o Y \in Seq(Rows) BY <1>1, <1>2
  <1>10. Ordered(tab \o X, G) /\ Apart(tab \o X, q, G)
    <2>1. Ordered(tab \o X, G) BY <1>1, <1>2, <1>6, <1>7, <1>8, RowsConcat
    <2>2. InSeq(tab \o X) = InSeq(tab) \cup InSeq(X) BY <1>1, <1>2, RowsConcat
    <2> QED BY <1>6, <1>8, <2>1, <2>2 DEF Apart
  <1>11. Ordered((tab \o X) \o Y, G) /\ Apart((tab \o X) \o Y, q, G)
    <2>1. Ordered((tab \o X) \o Y, G) BY <1>2, <1>7, <1>8, <1>9, <1>10, RowsConcat
    <2>2. InSeq((tab \o X) \o Y) = InSeq(tab \o X) \cup InSeq(Y) BY <1>2, <1>9, RowsConcat
    <2> QED BY <1>8, <1>10, <2>1, <2>2 DEF Apart
  <1>12. Ordered(((tab \o X) \o Y) \o q, G) BY <1>1, <1>6, <1>9, <1>11, RowsConcat
  <1>13. ((tab \o X) \o Y) \o <<>> = (tab \o X) \o Y BY <1>9
  <1>14. Ordered(tab \o X \o Y \o <<>> \o q, G) BY <1>12, <1>13
  <1>15. ASSUME NEW r PROVE Occ((tab \o X) \o Y, r) = Occ(tab, r) + Occ(X, r) + Occ(Y, r)
    <2> DEFINE Z == tab \o X
    <2>1. Occ(Z, r) = Occ(tab, r) + Occ(X, r) BY <1>1, <1>2, RowsConcat
    <2>2. Z \in Seq(Rows) BY <1>9
    <2> HIDE DEF Z
    <2>3. Occ(Z \o Y, r) = Occ(Z, r) + Occ(Y, r) BY <1>2, <2>2, OccConcat
    <2> QED BY <2>1, <2>3 DEF Z
  <1> QED BY <1>9, <1>14, <1>15 DEF G, Kept

(* The rows were part of a request that failed; each of the two requests   *)
(* stored them or not.                                                     *)
Sends(X, Y) == table' = table \o X \o Y

LEMMA FailsOnTheWay ==
  ASSUME WriterInv, NEW rows \in Seq(Rows), NEW q \in Seq(Rows),
         Takes(rows, q), Len(rows) <= BatchSize,
         NEW X \in {rows, <<>>}, NEW Y \in {rows, <<>>},
         queue' = q, batch' = <<>>, Sends(X, Y),
         failed' = failed \cup InSeq(rows), faults' = faults + 1,
         UNCHANGED <<read, putting>>
  PROVE  WriterInv'
  <1>1. /\ table \in Seq(Rows) /\ failed \subseteq Rows /\ IsFiniteSet(failed)
        /\ faults \in Nat /\ BatchSize \in Nat \ {0}
    BY WriterAssumption DEF WriterInv, WriterTyped
  <1>2. IsFiniteSet(InSeq(rows)) /\ Cardinality(InSeq(rows)) <= Len(rows) /\ InSeq(rows) \subseteq Rows
    BY InSeqFinite
  <1>3. /\ table \o X \o Y \in Seq(Rows)
        /\ \A r : Occ(table \o X \o Y, r) = Occ(table, r) + Occ(X, r) + Occ(Y, r)
        /\ Ordered(table \o X \o Y \o <<>> \o q, failed \cup InSeq(rows))
    <2>1. Ordered(table \o rows \o q, failed) BY Taken
    <2>2. table \in Seq(Rows) BY <1>1
    <2>3. rows \in Seq(Rows) /\ q \in Seq(Rows) /\ X \in {rows, <<>>} /\ Y \in {rows, <<>>} OBVIOUS
    <2>4. Kept(table, rows, q, X, Y, failed) BY <2>1, <2>2, <2>3, FailedRows
    <2> QED BY <2>4 DEF Kept
  <1>4. WriterTyped'
    <2>1. <<>> \in Seq(Rows) /\ Len(<<>>) = 0 OBVIOUS
    <2>2. IsFiniteSet(failed \cup InSeq(rows)) BY <1>1, <1>2, FS_Union
    <2> QED BY <1>1, <1>2, <1>3, <2>1, <2>2 DEF WriterInv, WriterTyped, Sends
  <1>5. Frames' /\ (\A r : WasPut(r)' <=> WasPut(r)) BY WorkersStay
  <1>6. \A r \in Rows : Counted(table, rows, q, failed, r) BY Taken
  <1>7. ASSUME NEW r \in InSeq(rows)
        PROVE  r \notin failed /\ WasPut(r) /\ Occ(table, r) = 0 /\ Occ(rows, r) = 1 /\ Occ(q, r) = 0
    <2>1. r \in Rows BY <1>2
    <2>2. Occ(table, r) \in Nat /\ Occ(rows, r) \in Nat /\ Occ(q, r) \in Nat /\ Occ(rows, r) # 0
      BY <1>1, OccType
    <2> QED BY <1>6, <2>1, <2>2 DEF Counted
  <1>8. Counts'
    <2>1. ASSUME NEW r \in Rows PROVE Counted(table \o X \o Y, <<>>, q, failed \cup InSeq(rows), r)
      <3>1. Occ(table \o X \o Y, r) = Occ(table, r) + Occ(X, r) + Occ(Y, r) BY <1>3
      <3>2. Occ(<<>>, r) = 0 BY OccSmall
      <3>3. /\ Occ(table, r) \in Nat /\ Occ(rows, r) \in Nat /\ Occ(q, r) \in Nat
            /\ Occ(rows, r) = 0 <=> r \notin InSeq(rows)
        BY <1>1, OccType
      <3>4. Occ(X, r) \in {0, Occ(rows, r)} /\ Occ(Y, r) \in {0, Occ(rows, r)} BY <3>2
      <3>5. CASE r \in InSeq(rows)
        <4>1. Occ(table \o X \o Y, r) <= 2 BY <1>7, <3>1, <3>4, <3>5
        <4> QED BY <1>7, <3>2, <3>5, <4>1 DEF Counted
      <3>6. CASE r \notin InSeq(rows)
        <4>1. Occ(table \o X \o Y, r) = Occ(table, r) /\ Occ(rows, r) = 0 BY <3>1, <3>3, <3>4, <3>6
        <4> QED BY <1>6, <3>2, <3>3, <3>6, <4>1 DEF Counted
      <3> QED BY <3>5, <3>6
    <2> QED BY <1>5, <2>1 DEF Counts, Counted, Sends
  <1>9. FailedWasPut' BY <1>5, <1>7 DEF WriterInv, FailedWasPut
  <1>10. InLine' BY <1>3 DEF InLine, Line, Sends
  <1>11. FewFailed'
    <2>1. Cardinality(failed \cup InSeq(rows)) <= Cardinality(failed) + Cardinality(InSeq(rows))
      <3>1. Cardinality(failed \cup InSeq(rows))
              = Cardinality(failed) + Cardinality(InSeq(rows)) - Cardinality(failed \cap InSeq(rows))
        BY <1>1, <1>2, FS_Union
      <3>2. failed \cap InSeq(rows) = {} BY <1>7
      <3>3. Cardinality(failed \cap InSeq(rows)) = 0 BY <3>2, FS_EmptySet
      <3>4. Cardinality(failed) \in Nat /\ Cardinality(InSeq(rows)) \in Nat
        BY <1>1, <1>2, FS_CardinalityType
      <3> QED BY <3>1, <3>3, <3>4
    <2>2. BatchSize * (faults + 1) = BatchSize * faults + BatchSize BY <1>1
    <2>3. BatchSize * faults \in Nat /\ Len(rows) \in Nat BY <1>1
    <2>4. Cardinality(failed) \in Nat /\ Cardinality(InSeq(rows)) \in Nat
          /\ Cardinality(failed \cup InSeq(rows)) \in Nat
      BY <1>1, <1>2, FS_CardinalityType, FS_Union
    <2>5. Cardinality(failed) <= BatchSize * faults BY DEF WriterInv, FewFailed
    <2>6. Cardinality(failed \cup InSeq(rows)) <= BatchSize * (faults + 1)
      BY <1>1, <1>2, <2>1, <2>2, <2>3, <2>4, <2>5
    <2> QED BY <2>6 DEF FewFailed
  <1> QED BY <1>4, <1>5, <1>8, <1>9, <1>10, <1>11 DEF WriterInv

(* What the writer does with a batch.                                      *)
LEMMA FlushKeeps ==
  ASSUME WriterInv, NEW rows \in Seq(Rows), NEW q \in Seq(Rows),
         Takes(rows, q), Len(rows) <= BatchSize,
         FlushIfDue(rows), queue' = q, UNCHANGED <<read, putting>>
  PROVE  WriterInv'
  <1>1. CASE FlushSucceeds(rows) BY <1>1, MovesToTable DEF FlushSucceeds
  <1>2. CASE FlushFails(rows)
    <2>1. PICK first, second \in Answer : table' = table \o Stored(rows, first) \o Stored(rows, second)
      BY <1>2 DEF FlushFails
    <2>2. Stored(rows, first) \in {rows, <<>>} /\ Stored(rows, second) \in {rows, <<>>}
      BY DEF Stored
    <2>3. Sends(Stored(rows, first), Stored(rows, second)) BY <2>1 DEF Sends
    <2>4. batch' = <<>> /\ failed' = failed \cup InSeq(rows) /\ faults' = faults + 1
      BY <1>2 DEF FlushFails, Fault
    <2> HIDE DEF Sends
    <2> QED BY <2>2, <2>3, <2>4, FailsOnTheWay
  <1>3. CASE ~(rows # <<>> /\ (Len(rows) >= BatchSize \/ overdue))
    <2>1. Len(rows) < BatchSize
      <3>1. BatchSize \in Nat \ {0} /\ Len(rows) \in Nat BY WriterAssumption
      <3>2. CASE rows = <<>> BY <3>1, <3>2
      <3>3. CASE ~(Len(rows) >= BatchSize) BY <3>1, <3>3
      <3> QED BY <1>3, <3>2, <3>3
    <2>2. batch' = rows /\ UNCHANGED <<table, failed, faults>> BY <1>3 DEF FlushIfDue
    <2> QED BY <2>1, <2>2, StaysInBatch
  <1> QED BY <1>1, <1>2, <1>3 DEF FlushIfDue

LEMMA GetKeeps == ASSUME WriterInv, Get PROVE WriterInv'
  <1>1. /\ batch \in Seq(Rows) /\ queue \in Seq(Rows) /\ queue # <<>>
        /\ Len(batch) < BatchSize /\ BatchSize \in Nat
    BY WriterAssumption DEF WriterInv, WriterTyped, Get
  <1> DEFINE rows == Append(batch, Head(queue))
             q == Tail(queue)
  <1>2. rows \in Seq(Rows) /\ q \in Seq(Rows) /\ Len(rows) <= BatchSize BY <1>1
  <1>3. rows \o q = batch \o queue
    <2>1. queue = <<Head(queue)>> \o Tail(queue) /\ Head(queue) \in Rows BY <1>1
    <2>2. Append(batch, Head(queue)) = batch \o <<Head(queue)>> BY <1>1, <2>1
    <2>3. <<Head(queue)>> \in Seq(Rows) BY <2>1
    <2>4. (batch \o <<Head(queue)>>) \o q = batch \o (<<Head(queue)>> \o q)
      BY ONLY <1>1, <1>2, <2>3, RowsRegroup
    <2> QED BY <2>1, <2>2, <2>4
  <1>4. Takes(rows, q) BY <1>3 DEF Takes
  <1>5. FlushIfDue(rows) /\ queue' = q /\ UNCHANGED <<read, putting>> BY DEF Get
  <1> HIDE DEF rows, q
  <1> QED BY <1>2, <1>4, <1>5, FlushKeeps

LEMMA TimesOutKeeps == ASSUME WriterInv, TimesOut PROVE WriterInv'
  <1>1. batch \in Seq(Rows) /\ queue \in Seq(Rows) /\ Len(batch) <= BatchSize
    BY WriterAssumption DEF WriterInv, WriterTyped
  <1>2. FlushIfDue(batch) /\ queue' = queue /\ UNCHANGED <<read, putting>> BY DEF TimesOut
  <1>3. Takes(batch, queue) BY DEF Takes
  <1> QED BY <1>1, <1>2, <1>3, FlushKeeps

LEMMA OtherEndedKeeps == ASSUME WriterInv, OtherEnded PROVE WriterInv'
  <1>1. batch \in Seq(Rows) /\ queue \in Seq(Rows) /\ table \in Seq(Rows)
        /\ Len(batch) < BatchSize /\ BatchSize \in Nat
    BY WriterAssumption DEF WriterInv, WriterTyped
  <1>2. /\ CancelWriter /\ faults' = faults + 1 /\ queue' = queue
        /\ batch' = <<>> /\ UNCHANGED <<read, putting>>
    BY DEF OtherEnded, Fault, CancelWriter
  <1>3. Takes(batch, queue) BY DEF Takes
  <1>4. CASE batch = <<>> /\ UNCHANGED <<table, failed>>
    <2>1. batch' = batch /\ Len(batch) < BatchSize /\ faults' \in {faults, faults + 1}
      BY <1>1, <1>2, <1>4
    <2> QED BY <1>1, <1>2, <1>3, <1>4, <2>1, StaysInBatch
  <1>5. CASE table' = table \o batch /\ UNCHANGED failed
    <2>1. faults' \in {faults, faults + 1} BY <1>2
    <2> QED BY <1>1, <1>2, <1>3, <1>5, <2>1, MovesToTable
  <1>6. CASE /\ \E a \in Answer : ~a.ok /\ table' = table \o Stored(batch, a)
             /\ failed' = failed \cup InSeq(batch)
    <2>1. PICK a \in Answer : table' = table \o Stored(batch, a) BY <1>6
    <2>2. Stored(batch, a) \in {batch, <<>>} /\ Stored(batch, a) \in Seq(Rows) BY <1>1 DEF Stored
    <2>3. Sends(Stored(batch, a), <<>>)
      <3>1. table \o Stored(batch, a) \in Seq(Rows) BY <1>1, <2>2
      <3>2. (table \o Stored(batch, a)) \o <<>> = table \o Stored(batch, a) BY <3>1
      <3> QED BY <2>1, <3>2 DEF Sends
    <2>4. Len(batch) <= BatchSize BY <1>1
    <2> HIDE DEF Sends
    <2> QED BY <1>1, <1>2, <1>3, <1>6, <2>2, <2>3, <2>4, FailsOnTheWay
  <1> QED BY <1>2, <1>4, <1>5, <1>6 DEF CancelWriter

(* Steps that touch neither rows nor workers.                              *)
LEMMA OtherStepsKeep ==
  ASSUME WriterInv, faults' \in {faults, faults + 1},
         UNCHANGED <<read, putting, queue, batch, table, failed>>
  PROVE  WriterInv'
  <1>1. batch \in Seq(Rows) /\ queue \in Seq(Rows) /\ Len(batch) < BatchSize
    BY DEF WriterInv, WriterTyped
  <1>2. Takes(batch, queue) BY DEF Takes
  <1> QED BY <1>1, <1>2, StaysInBatch

LEMMA ReadFrameKeeps == ASSUME WriterInv, NEW w \in Workers, ReadFrame(w) PROVE WriterInv'
  <1>1. PICK n \in 1 .. MaxChanges :
          /\ read[w] + n <= MaxRows
          /\ read' = [read EXCEPT ![w] = @ + n]
          /\ putting' = [putting EXCEPT ![w] = [i \in 1 .. n |-> <<w, read[w] + i>>]]
    BY DEF ReadFrame
  <1>2. /\ putting[w] = <<>> /\ Len(putting[w]) = 0
        /\ UNCHANGED <<queue, batch, table, failed, faults>>
    BY DEF ReadFrame
  <1>3. /\ read \in [Workers -> Nat] /\ putting \in [Workers -> Seq(Rows)]
        /\ MaxChanges \in Nat /\ MaxRows \in Nat /\ n \in Nat
    BY WriterAssumption DEF WriterInv, WriterTyped
  <1> DEFINE frame == [i \in 1 .. n |-> <<w, read[w] + i>>]
  <1>4. frame \in Seq(Rows) /\ Len(frame) = n
    <2>1. \A i \in 1 .. n : <<w, read[w] + i>> \in Rows
      <3> TAKE i \in 1 .. n
      <3>1. read[w] \in Nat /\ read[w] + i \in 1 .. MaxRows BY <1>1, <1>3
      <3> QED BY <3>1 DEF Rows
    <2> QED BY <1>3, <2>1
  <1>5. /\ read' \in [Workers -> Nat] /\ putting' \in [Workers -> Seq(Rows)]
        /\ read'[w] = read[w] + n /\ putting'[w] = frame
        /\ \A u \in Workers \ {w} : read'[u] = read[u] /\ putting'[u] = putting[u]
    BY <1>1, <1>3, <1>4
  <1> HIDE DEF frame
  <1>6. WriterTyped' BY <1>2, <1>5 DEF WriterInv, WriterTyped
  <1>7. Frames'
    <2>1. ASSUME NEW u \in Workers \ {w}
          PROVE  /\ Len(putting'[u]) <= read'[u] /\ read'[u] <= MaxRows
                 /\ \A i \in 1 .. Len(putting'[u]) :
                      putting'[u][i] = <<u, read'[u] - Len(putting'[u]) + i>>
      BY <1>5 DEF WriterInv, Frames
    <2>2. /\ Len(putting'[w]) <= read'[w] /\ read'[w] <= MaxRows
          /\ \A i \in 1 .. Len(putting'[w]) :
               putting'[w][i] = <<w, read'[w] - Len(putting'[w]) + i>>
      <3>1. read[w] \in Nat BY <1>3
      <3>2. n <= read[w] + n /\ \A i \in 1 .. n : read[w] + n - n + i = read[w] + i
        BY <1>3, <3>1
      <3>3. \A i \in 1 .. n : frame[i] = <<w, read[w] + i>> BY DEF frame
      <3>4. Len(putting'[w]) = n /\ read'[w] = read[w] + n /\ putting'[w] = frame
        BY <1>4, <1>5
      <3>5. Len(putting'[w]) <= read'[w] /\ read'[w] <= MaxRows BY <1>1, <3>2, <3>4
      <3>6. ASSUME NEW i \in 1 .. n
            PROVE  putting'[w][i] = <<w, read'[w] - Len(putting'[w]) + i>>
        <4>1. read'[w] - Len(putting'[w]) + i = read[w] + i BY <1>3, <3>1, <3>4
        <4> QED BY <3>3, <3>4, <4>1
      <3> QED BY <3>4, <3>5, <3>6
    <2> QED BY <2>1, <2>2 DEF Frames
  <1>8. ASSUME NEW r \in Rows PROVE WasPut(r)' <=> WasPut(r)
    <2>1. r[1] \in Workers BY DEF Rows
    <2>2. CASE r[1] = w
      <3>1. read[w] \in Nat BY <1>3
      <3>2. read[w] + n - n = read[w] - 0 BY <1>3, <3>1
      <3>3. read'[w] - Len(putting'[w]) = read[w] - Len(putting[w])
        <4>1. Len(putting'[w]) = n /\ read'[w] = read[w] + n BY <1>4, <1>5
        <4>2. Len(putting[w]) = 0 BY <1>2
        <4> QED BY <1>3, <3>1, <4>1, <4>2
      <3>4. WasPut(r)' <=> r[2] <= read'[w] - Len(putting'[w]) BY <2>2 DEF WasPut
      <3>5. WasPut(r) <=> r[2] <= read[w] - Len(putting[w]) BY <2>2 DEF WasPut
      <3> QED BY <3>3, <3>4, <3>5
    <2>3. CASE r[1] # w BY <1>5, <2>1, <2>3 DEF WasPut
    <2> QED BY <2>2, <2>3
  <1>9. Counts' BY <1>2, <1>8 DEF WriterInv, Counts, Counted
  <1>10. FailedWasPut'
    <2>1. failed \subseteq Rows BY DEF WriterInv, WriterTyped
    <2> QED BY <1>2, <1>8, <2>1 DEF WriterInv, FailedWasPut
  <1>11. InLine' /\ FewFailed' BY <1>2 DEF WriterInv, InLine, Line, FewFailed
  <1> QED BY <1>6, <1>7, <1>9, <1>10, <1>11 DEF WriterInv

LEMMA OccAppend ==
  ASSUME NEW s \in Seq(Rows), NEW r \in Rows, NEW x
  PROVE  Occ(Append(s, r), x) = Occ(s, x) + IF x = r THEN 1 ELSE 0
  <1>1. <<r>> \in Seq(Rows) OBVIOUS
  <1>2. Occ(s \o <<r>>, x) = Occ(s, x) + Occ(<<r>>, x) BY <1>1, OccConcat
  <1>3. Occ(<<r>>, x) = IF x = r THEN 1 ELSE 0 BY OccSmall
  <1>4. Append(s, r) = s \o <<r>> OBVIOUS
  <1> QED BY <1>2, <1>3, <1>4

LEMMA LineCount ==
  ASSUME WriterInv
  PROVE  /\ Line \in Seq(Rows)
         /\ \A x : Occ(Line, x) = Occ(table, x) + Occ(batch, x) + Occ(queue, x)
  <1>1. table \in Seq(Rows) /\ batch \in Seq(Rows) /\ queue \in Seq(Rows)
    BY DEF WriterInv, WriterTyped
  <1> QED BY <1>1, LineFacts DEF Line

(* Put: the row goes to the end of the line, behind the rows of its worker.*)
LEMMA PutKeeps == ASSUME WriterInv, NEW w \in Workers, Put(w) PROVE WriterInv'
  <1> DEFINE r == Head(putting[w])
             k == Len(putting[w])
  <1>1. /\ read \in [Workers -> Nat] /\ putting \in [Workers -> Seq(Rows)]
        /\ queue \in Seq(Rows) /\ batch \in Seq(Rows) /\ table \in Seq(Rows)
        /\ failed \subseteq Rows /\ read[w] \in Nat
        /\ putting[w] \in Seq(Rows) /\ putting[w] # <<>>
    BY DEF WriterInv, WriterTyped, Put
  <1>2. /\ queue' = Append(queue, r) /\ putting' = [putting EXCEPT ![w] = Tail(putting[w])]
        /\ UNCHANGED <<read, batch, table, failed, faults>>
    BY DEF Put
  <1>3. /\ k \in Nat \ {0} /\ r \in Rows /\ r = putting[w][1]
        /\ Tail(putting[w]) \in Seq(Rows) /\ Len(Tail(putting[w])) = k - 1
        /\ \A i \in 1 .. k - 1 : Tail(putting[w])[i] = putting[w][i + 1]
    BY <1>1
  <1>4. /\ k <= read[w] /\ read[w] <= MaxRows
        /\ \A i \in 1 .. k : putting[w][i] = <<w, read[w] - k + i>>
    BY DEF WriterInv, Frames
  <1>5. r[1] = w /\ r[2] = read[w] - k + 1
    <2>1. 1 \in 1 .. k BY <1>3
    <2>2. r = <<w, read[w] - k + 1>> BY <1>3, <1>4, <2>1
    <2> QED BY <2>2
  <1>6. /\ putting' \in [Workers -> Seq(Rows)] /\ putting'[w] = Tail(putting[w])
        /\ \A u \in Workers \ {w} : putting'[u] = putting[u]
    BY <1>1, <1>2, <1>3
  <1> HIDE DEF r, k
  <1>7. WriterTyped' BY <1>1, <1>2, <1>3, <1>6 DEF WriterInv, WriterTyped
  <1>8. Frames'
    <2>1. ASSUME NEW u \in Workers \ {w}
          PROVE  /\ Len(putting'[u]) <= read'[u] /\ read'[u] <= MaxRows
                 /\ \A i \in 1 .. Len(putting'[u]) :
                      putting'[u][i] = <<u, read'[u] - Len(putting'[u]) + i>>
      BY <1>2, <1>6 DEF WriterInv, Frames
    <2>2. /\ Len(putting'[w]) <= read'[w] /\ read'[w] <= MaxRows
          /\ \A i \in 1 .. Len(putting'[w]) :
               putting'[w][i] = <<w, read'[w] - Len(putting'[w]) + i>>
      <3>1. read'[w] = read[w] /\ Len(putting'[w]) = k - 1 /\ putting'[w] = Tail(putting[w])
        BY <1>2, <1>3, <1>6
      <3>2. k - 1 <= read[w] BY <1>1, <1>3, <1>4
      <3>3. ASSUME NEW i \in 1 .. k - 1 PROVE Tail(putting[w])[i] = <<w, read[w] - (k - 1) + i>>
        <4>1. i + 1 \in 1 .. k /\ read[w] - k + (i + 1) = read[w] - (k - 1) + i BY <1>1, <1>3
        <4>2. Tail(putting[w])[i] = putting[w][i + 1] BY <1>3
        <4> QED BY <1>4, <4>1, <4>2
      <3> QED BY <1>4, <3>1, <3>2, <3>3
    <2> QED BY <2>1, <2>2 DEF Frames
  <1>9. ~WasPut(r) /\ ~(r \in failed)
    <2>1. ~(read[w] - k + 1 <= read[w] - k) BY <1>1, <1>3
    <2>2. ~WasPut(r) BY <1>5, <2>1 DEF WasPut, k
    <2> QED BY <2>2 DEF WriterInv, FailedWasPut
  <1>10. ASSUME NEW s \in Rows PROVE WasPut(s)' <=> WasPut(s) \/ s = r
    <2>1. s[1] \in Workers /\ s[2] \in 1 .. MaxRows /\ s = <<s[1], s[2]>> BY DEF Rows
    <2>2. r = <<w, read[w] - k + 1>> BY <1>3, <1>5 DEF Rows
    <2>3. CASE s[1] = w
      <3>1. WasPut(s)' <=> s[2] <= read[w] - (k - 1) BY <1>2, <1>3, <1>6, <2>3 DEF WasPut
      <3>2. WasPut(s) <=> s[2] <= read[w] - k BY <2>3 DEF WasPut, k
      <3>3. s[2] <= read[w] - (k - 1) <=> s[2] <= read[w] - k \/ s[2] = read[w] - k + 1
        BY <1>1, <1>3, <2>1, WriterAssumption
      <3>4. s = r <=> s[2] = read[w] - k + 1 BY <2>1, <2>2, <2>3
      <3> QED BY <3>1, <3>2, <3>3, <3>4
    <2>4. CASE s[1] # w
      <3>1. s # r BY <1>5, <2>4
      <3>2. WasPut(s)' <=> WasPut(s) BY <1>2, <1>6, <2>1, <2>4 DEF WasPut
      <3> QED BY <3>1, <3>2
    <2> QED BY <2>3, <2>4
  <1>11. /\ <<r>> \in Seq(Rows) /\ Append(queue, r) = queue \o <<r>>
         /\ InSeq(<<r>>) = {r} /\ Ordered(<<r>>, failed)
    <2>1. <<r>> \in Seq(Rows) /\ Append(queue, r) = queue \o <<r>> BY <1>1, <1>3
    <2>2. DOMAIN <<r>> = {1} /\ <<r>>[1] = r OBVIOUS
    <2>3. InSeq(<<r>>) = {r} BY <2>2 DEF InSeq
    <2>4. Ordered(<<r>>, failed) BY <2>2 DEF Ordered
    <2> QED BY <2>1, <2>3, <2>4
  <1>12. Counts'
    <2>1. ASSUME NEW s \in Rows PROVE Counted(table, batch, queue, failed, s)'
      <3>1. Occ(Append(queue, r), s) = Occ(queue, s) + IF s = r THEN 1 ELSE 0
        BY <1>1, <1>3, OccAppend
      <3>2. Counted(table, batch, queue, failed, s) BY DEF WriterInv, Counts
      <3>3. Occ(table, s) \in Nat /\ Occ(batch, s) \in Nat /\ Occ(queue, s) \in Nat
        BY <1>1, OccType
      <3>4. /\ table' = table /\ batch' = batch /\ failed' = failed
            /\ Occ(queue', s) = Occ(Append(queue, r), s)
        BY <1>2
      <3>5. WasPut(s)' <=> WasPut(s) \/ s = r BY <1>10
      <3>6. CASE s = r BY <1>9, <3>1, <3>2, <3>3, <3>4, <3>5, <3>6 DEF Counted
      <3>7. CASE s # r BY <3>1, <3>2, <3>3, <3>4, <3>5, <3>7 DEF Counted
      <3> QED BY <3>6, <3>7
    <2> QED BY <2>1 DEF Counts
  <1>13. FailedWasPut' BY <1>1, <1>2, <1>10 DEF WriterInv, FailedWasPut
  <1>14. InLine'
    <2>1. Line \in Seq(Rows) /\ Ordered(Line, failed) BY LineCount DEF WriterInv, InLine
    <2>2. Apart(Line, <<r>>, failed)
      <3> SUFFICES ASSUME NEW a \in InSeq(Line), a[1] = w, a \notin failed
                   PROVE  a[2] < r[2]
        BY <1>5, <1>11 DEF Apart, Precedes
      <3>1. a \in Rows /\ a[2] \in 1 .. MaxRows
        <4>1. InSeq(Line) \subseteq Rows BY <2>1, InSeqFinite
        <4> QED BY <4>1 DEF Rows
      <3>2. Occ(Line, a) \in Nat /\ Occ(Line, a) # 0 BY <2>1, OccType
      <3>3. Occ(Line, a) = Occ(table, a) + Occ(batch, a) + Occ(queue, a)
        BY LineCount
      <3>4. Counted(table, batch, queue, failed, a) BY <3>1 DEF WriterInv, Counts
      <3>5. WasPut(a) BY <3>2, <3>3, <3>4 DEF Counted
      <3>6. a[2] <= read[w] - k BY <3>5 DEF WasPut, k
      <3> QED BY <1>1, <1>3, <1>5, <3>1, <3>6
    <2>3. Ordered(Line \o <<r>>, failed) BY <1>11, <2>1, <2>2, RowsConcat
    <2>4. Line' = Line \o <<r>>
      <3>1. table \o batch \in Seq(Rows) BY <1>1
      <3>2. (table \o batch) \o queue \o <<r>> = (table \o batch) \o (queue \o <<r>>)
        BY ONLY <1>1, <1>11, <3>1, RowsRegroup
      <3>3. Line' = (table \o batch) \o (queue \o <<r>>) BY <1>2, <1>11 DEF Line
      <3> QED BY <3>2, <3>3 DEF Line
    <2> QED BY <1>2, <2>3, <2>4 DEF InLine
  <1>15. FewFailed' BY <1>2 DEF WriterInv, FewFailed
  <1> QED BY <1>7, <1>8, <1>12, <1>13, <1>14, <1>15 DEF WriterInv

LEMMA WriterStepKeeps == ASSUME WriterInv, [WriterNext]_writerVars PROVE WriterInv'
  <1>1. faults \in Nat BY DEF WriterInv, WriterTyped
  <1>2. CASE \E w \in Workers : ReadFrame(w) \/ Put(w)
    BY <1>2, ReadFrameKeeps, PutKeeps
  <1>3. CASE Connect
    <2>1. faults' \in {faults, faults + 1} BY <1>3 DEF Connect, Fault
    <2> QED BY <1>3, <2>1, OtherStepsKeep DEF Connect
  <1>4. CASE Get BY <1>4, GetKeeps
  <1>5. CASE TimesOut BY <1>5, TimesOutKeeps
  <1>6. CASE OtherEnded BY <1>6, OtherEndedKeeps
  <1>7. CASE Elapse BY <1>7, OtherStepsKeep DEF Elapse
  <1>8. CASE WriterEnded BY <1>8, OtherStepsKeep DEF WriterEnded
  <1>9. CASE RestartWriter BY <1>9, OtherStepsKeep DEF RestartWriter
  <1>10. CASE UNCHANGED writerVars BY <1>10, OtherStepsKeep DEF writerVars
  <1> QED BY <1>2, <1>3, <1>4, <1>5, <1>6, <1>7, <1>8, <1>9, <1>10 DEF WriterNext

(* For any number of workers, rows and failures, and every size of queue   *)
(* and batch: while writers end and others take their place, each row put  *)
(* is kept once and in its worker's order, save those of a failed request, *)
(* and a failure concerns one batch.                                       *)
THEOREM RowsAreOnceInOrder == WriterSpec => []OnceInOrder
  <1>1. WriterInv => OnceInOrder BY WriterInvOnce
  <1>2. WriterInit => WriterInv BY InitWriterInv
  <1>3. WriterInv /\ [WriterNext]_writerVars => WriterInv' BY WriterStepKeeps
  <1> QED BY <1>1, <1>2, <1>3, PTL DEF WriterSpec
=============================================================================
