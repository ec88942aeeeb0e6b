-------------------------- MODULE SupervisorProofs --------------------------
(***************************************************************************)
(* Supervisor for every number of workers and every wait: one instance of  *)
(* the service, one subscription after the cancellation at most, and waits *)
(* that the early ends account for.                                        *)
(***************************************************************************)
EXTENDS Supervisor, TLAPS

(* Who holds the service's task: the supervising task has a handle exactly *)
(* while it watches, a task that is over no longer counts, and none is     *)
(* spawned once the wait on the tracker has returned.                      *)
ServiceInv ==
    /\ live <= 1
    /\ service = "watching" <=> handle # "none"
    /\ handle = "running" => live = 1
    /\ handle \in {"ok", "panicked"} => live = 0
    /\ service \in {"top", "backoff"} => live = 0
    /\ main \in {"complete", "exited"} => service = "stopped"

(* A subscription that follows the cancellation was the last: its          *)
(* connection is past the subscription, and the loop ends at its head.     *)
LateInv ==
    /\ late <= 1
    /\ late = 1 => cancelled /\ pc \notin {"connecting", "subscribing"}

IInv == TypeOK /\ ServiceInv /\ LateInv

LEMMA InitIInv == Init => IInv
  <1> SUFFICES ASSUME Init PROVE IInv
    OBVIOUS
  <1>1. TypeOK
    <2>1. RunTypeOK
      <3>1. pc \in Places /\ late \in Nat BY DEF Init, RunInit, Places
      <3>2. backoff \in 1 .. MaxBackoff BY RunAssumption DEF Init, RunInit
      <3>3. early \in 0 .. MaxEarly BY RunAssumption DEF Init, RunInit
      <3>4. hasUrl \in BOOLEAN BY DEF Init, RunInit
      <3>5. cancelled \in BOOLEAN BY DEF Init, RunInit
      <3> QED BY <3>1, <3>2, <3>3, <3>4, <3>5 DEF RunTypeOK
    <2>2. worker \in [Workers -> {"running", "ended", "panicked"}] BY DEF Init
    <2> QED BY <2>1, <2>2 DEF Init, TypeOK
  <1>2. ServiceInv BY DEF Init, ServiceInv
  <1>3. LateInv BY DEF Init, RunInit, LateInv
  <1> QED BY <1>1, <1>2, <1>3 DEF IInv

(* The connector keeps its part, and the rest is not touched.              *)
LEMMA ConnectorKeeps == ASSUME IInv, Connector PROVE IInv'
  <1> USE RunAssumption DEF IInv, TypeOK, RunTypeOK, Places, superVars, Goto, EndsEarly
  <1>1. TypeOK'
    <2>1. CASE UrlAppears BY <2>1 DEF Connector, UrlAppears
    <2>2. CASE Top BY <2>2 DEF Connector, Top
    <2>3. CASE ConnectFails BY <2>3 DEF Connector, ConnectFails
    <2>4. CASE ConnectSucceeds BY <2>4 DEF Connector, ConnectSucceeds
    <2>5. CASE SubscribeFails BY <2>5 DEF Connector, SubscribeFails
    <2>6. CASE Subscribe BY <2>6 DEF Connector, Subscribe
    <2>7. CASE Bootstrapped BY <2>7 DEF Connector, Bootstrapped
    <2>13. CASE Resubscribes BY <2>13 DEF Connector, Resubscribes
    <2>8. CASE ConnectionEnds BY <2>8 DEF Connector, ConnectionEnds
    <2>9. CASE ServingCancelled BY <2>9 DEF Connector, ServingCancelled
    <2>10. CASE Slept BY <2>10 DEF Connector, Slept
    <2>11. CASE WaitCancelled BY <2>11 DEF Connector, WaitCancelled
    <2>12. CASE Panics BY <2>12 DEF Connector, Panics
    <2> QED BY <2>1, <2>2, <2>3, <2>4, <2>5, <2>6, <2>7, <2>8, <2>9, <2>10, <2>11, <2>12, <2>13
            DEF Connector, RunStep
  <1>2. LateInv'
    BY DEF LateInv, Connector, RunStep, Top, ConnectFails, ConnectSucceeds, SubscribeFails,
           Subscribe, Bootstrapped, Resubscribes, ConnectionEnds, ServingCancelled, Slept,
           WaitCancelled, UrlAppears, Panics
  <1>3. ServiceInv' BY DEF ServiceInv, Connector
  <1> QED BY <1>1, <1>2, <1>3

(* A worker only ends.                                                     *)
LEMMA WorkersKeep ==
  ASSUME IInv, NEW w \in Workers, WorkerEnds(w) \/ WorkerPanics(w) PROVE IInv'
  BY DEF IInv, TypeOK, RunTypeOK, ServiceInv, LateInv, runVars,
         WorkerEnds, WorkerPanics

(* The handle is taken with the spawn and given up when the task is over,  *)
(* or for good.                                                            *)
LEMMA ServiceKeeps ==
  ASSUME IInv, \/ ServiceTop \/ ServiceOver \/ ServiceAborted \/ InstanceDropped \/ BackoffEnds
               \/ \E how \in {"ok", "panicked"} : InstanceEnds(how)
  PROVE  IInv'
  <1> USE DEF IInv, TypeOK, RunTypeOK, ServiceInv, LateInv, runVars
  <1>1. CASE ServiceTop BY <1>1 DEF ServiceTop
  <1>2. CASE ServiceOver BY <1>2 DEF ServiceOver
  <1>3. CASE ServiceAborted BY <1>3 DEF ServiceAborted
  <1>4. CASE InstanceDropped BY <1>4 DEF InstanceDropped
  <1>5. CASE BackoffEnds BY <1>5 DEF BackoffEnds
  <1>6. CASE \E how \in {"ok", "panicked"} : InstanceEnds(how) BY <1>6 DEF InstanceEnds
  <1> QED BY <1>1, <1>2, <1>3, <1>4, <1>5, <1>6

LEMMA MainKeeps == ASSUME IInv, CtrlC \/ WaitReturns \/ MainReturns PROVE IInv'
  <1> USE DEF IInv, TypeOK, RunTypeOK, ServiceInv, LateInv, runVars
  <1>1. CASE CtrlC BY <1>1 DEF CtrlC
  <1>2. CASE WaitReturns BY <1>2 DEF WaitReturns, TrackerEmpty
  <1>3. CASE MainReturns BY <1>3 DEF MainReturns
  <1> QED BY <1>1, <1>2, <1>3

LEMMA Stutters == ASSUME IInv, UNCHANGED vars PROVE IInv'
  BY DEF IInv, TypeOK, RunTypeOK, ServiceInv, LateInv, vars, runVars,
         superVars

LEMMA Inductive == Spec => []IInv
  <1>1. IInv /\ [Next]_vars => IInv'
    BY ConnectorKeeps, WorkersKeep, ServiceKeeps, MainKeeps, Stutters DEF Next
  <1> QED BY InitIInv, <1>1, PTL DEF Spec

(* Every reachable state of the process is well typed: in particular the   *)
(* wait stays within MaxBackoff.                                           *)
THEOREM SupervisorTyped == Spec => []TypeOK
  BY Inductive, PTL DEF IInv

(* The supervised service never runs twice at once.                        *)
THEOREM ServiceRunsOnce == Spec => []OneInstance
  <1>1. IInv => OneInstance BY DEF IInv, ServiceInv, OneInstance
  <1> QED BY Inductive, <1>1, PTL

(* At most one connection is subscribed after the token is cancelled.      *)
THEOREM LateSubscriptionOnce == Spec => []OneLateSubscription
  <1>1. IInv => OneLateSubscription BY DEF IInv, LateInv, OneLateSubscription
  <1> QED BY Inductive, <1>1, PTL

-----------------------------------------------------------------------------
(* What the backoff is due to, wherever the loop is: a connection that was *)
(* made has reset it, and each wait doubles it once for each early end.    *)
DueInv ==
    /\ 2 ^ early \in Nat \ {0}
    /\ pc \in {"subscribing", "bootstrap", "serving"} => backoff = 1
    /\ pc = "waiting" /\ early < MaxEarly => backoff <= 2 ^ early
    /\ pc \in {"top", "connecting"} /\ early < MaxEarly => backoff <= 2 * 2 ^ early

LEMMA InitDue == Init => DueInv
  BY PowersOfTwo DEF Init, RunInit, DueInv

(* One more early end is worth one more power of two.                      *)
LEMMA EndsEarlyDoubles ==
  ASSUME RunTypeOK, DueInv, EndsEarly
  PROVE  /\ 2 ^ early' \in Nat \ {0}
         /\ early' < MaxEarly => 2 ^ early' = 2 * 2 ^ early /\ early < MaxEarly
  <1>1. early \in Nat /\ early <= MaxEarly /\ MaxEarly \in Nat
    BY RunAssumption DEF RunTypeOK
  <1>2. 2 ^ (early + 1) = 2 * 2 ^ early
    BY <1>1, PowersOfTwo
  <1>3. CASE early < MaxEarly
    <2>1. early' = early + 1 BY <1>3 DEF EndsEarly
    <2> QED BY <1>2, <1>3, <2>1 DEF DueInv
  <1>4. CASE ~(early < MaxEarly)
    <2>1. early' = early BY <1>4 DEF EndsEarly
    <2> QED BY <1>4, <2>1 DEF DueInv
  <1> QED BY <1>3, <1>4

LEMMA DueKeeps == ASSUME TypeOK, DueInv, [Next]_vars PROVE DueInv'
  <1>1. RunTypeOK /\ early \in Nat /\ backoff \in Nat /\ MaxEarly \in Nat /\ MaxBackoff \in Nat
    BY RunAssumption DEF TypeOK, RunTypeOK
  <1>2. CASE UNCHANGED <<pc, backoff, early>>
    BY <1>2 DEF DueInv
  <1>3. CASE Top
    BY <1>3 DEF DueInv, Top, Goto
  <1>4. CASE ConnectFails
    BY <1>1, <1>4, EndsEarlyDoubles DEF DueInv, ConnectFails, Goto
  <1>5. CASE ConnectSucceeds
    BY <1>5 DEF DueInv, ConnectSucceeds, Goto
  <1>6. CASE SubscribeFails
    BY <1>1, <1>6, EndsEarlyDoubles DEF DueInv, SubscribeFails, Goto
  <1>7. CASE Subscribe \/ Bootstrapped \/ Resubscribes
    BY <1>7 DEF DueInv, Subscribe, Bootstrapped, Resubscribes, Goto
  <1>8. CASE ConnectionEnds
    <2>1. pc = "serving" /\ pc' = "waiting" /\ backoff = 1 BY <1>8 DEF ConnectionEnds, Goto, DueInv
    <2>2. CASE backoff' = 1 /\ early' = 0
      BY <2>1, <2>2, PowersOfTwo DEF DueInv
    <2>3. CASE EndsEarly /\ UNCHANGED backoff
      BY <1>1, <2>1, <2>3, EndsEarlyDoubles DEF DueInv
    <2> QED BY <1>8, <2>2, <2>3 DEF ConnectionEnds
  <1>9. CASE Slept
    <2>1. pc = "waiting" /\ pc' = "top" /\ early' = early BY <1>9 DEF Slept, Goto
    <2>2. backoff' <= backoff * 2 BY <1>1, <1>9 DEF Slept
    <2>3. backoff' \in Nat BY <1>1, <1>9 DEF Slept
    <2> QED BY <1>1, <2>1, <2>2, <2>3 DEF DueInv
  <1>10. CASE ServingCancelled \/ WaitCancelled \/ Panics
    BY <1>10 DEF DueInv, ServingCancelled, WaitCancelled, Panics, Goto
  <1> QED
    BY <1>2, <1>3, <1>4, <1>5, <1>6, <1>7, <1>8, <1>9, <1>10
    DEF Next, Connector, RunStep, UrlAppears, WorkerEnds, WorkerPanics, ServiceTop, InstanceEnds,
        ServiceOver, ServiceAborted, InstanceDropped, BackoffEnds, CtrlC, WaitReturns,
        MainReturns, vars, runVars

(* The wait before a connection is never longer than the attempts in a row *)
(* that ended early account for, for every MaxBackoff, every threshold and *)
(* every time a connection may be served.                                  *)
THEOREM BackoffIsDue == Spec => []WaitsNoLongerThanDue
  <1>1. TypeOK /\ DueInv => WaitsNoLongerThanDue
    BY RunAssumption DEF TypeOK, RunTypeOK, DueInv, WaitsNoLongerThanDue, Doubled
  <1> QED BY Inductive, InitDue, DueKeeps, <1>1, PTL DEF Spec, IInv
=============================================================================
