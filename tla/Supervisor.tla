----------------------------- MODULE Supervisor -----------------------------
(***************************************************************************)
(* TaskSupervisor and main: one service (the snapshot ticker) that is      *)
(* restarted whenever it ends, workers that are not, the connector among   *)
(* them, and the shutdown that cancels the token and waits for all tracked *)
(* tasks.  A service runs in a task of its own, which the tracker does not *)
(* know: an aborted one is dropped at its next await, unobserved.          *)
(***************************************************************************)
EXTENDS ConnectorRun

CONSTANT Workers        \* the workers beside the connector

VARIABLES
    main,           \* "running", "shutdown", "complete" or "exited"
    worker,         \* per worker: "running", "ended" or "panicked"
    service,        \* the supervising task
    handle,         \* what its JoinHandle tells of the service's last task
    live            \* tasks of the service that are not over

superVars == <<main, worker, service, handle, live>>
vars == <<runVars, superVars>>

Init ==
    /\ RunInit
    /\ main = "running"
    /\ worker = [w \in Workers |-> "running"]
    /\ service = "top"
    /\ handle = "none"
    /\ live = 0

-----------------------------------------------------------------------------
(* spawn_worker: the connector and the others.                             *)

Connector == (RunStep \/ UrlAppears \/ Panics) /\ UNCHANGED superVars

(* A worker that looks at the token ends on it, with nothing else to do    *)
(* that this module knows.                                                 *)
WorkerEnds(w) ==
    /\ cancelled
    /\ worker[w] = "running"
    /\ worker' = [worker EXCEPT ![w] = "ended"]
    /\ UNCHANGED <<runVars, main, service, handle, live>>

(* A panic ends the task; nothing restarts it and nobody is told.          *)
WorkerPanics(w) ==
    /\ worker[w] = "running"
    /\ worker' = [worker EXCEPT ![w] = "panicked"]
    /\ UNCHANGED <<runVars, main, service, handle, live>>

-----------------------------------------------------------------------------
(* spawn_service: the supervising task and the service's own.              *)

(* The head of the loop: stop, or spawn the service.                       *)
ServiceTop ==
    /\ service = "top"
    /\ IF cancelled
       THEN service' = "stopped" /\ UNCHANGED <<handle, live>>
       ELSE service' = "watching" /\ handle' = "running" /\ live' = live + 1
    /\ UNCHANGED <<runVars, main, worker>>

(* The service's task returns or panics.                                   *)
InstanceEnds(how) ==
    /\ handle = "running"
    /\ handle' = how
    /\ live' = live - 1
    /\ UNCHANGED <<runVars, main, worker, service>>

(* Faulty variants: only a panic leads to a restart; the supervisor lets   *)
(* go of a task that is still running.                                     *)
ServiceOver_PanicOnly ==
    /\ service = "watching"
    /\ handle \in {"ok", "panicked"}
    /\ service' = IF handle = "ok" THEN "stopped" ELSE "backoff"
    /\ handle' = "none"
    /\ UNCHANGED <<runVars, main, worker, live>>

ServiceOver_LetsGo ==
    /\ service = "watching"
    /\ service' = "backoff"
    /\ handle' = "none"
    /\ UNCHANGED <<runVars, main, worker, live>>

(* The handle is ready: stop if the service returned and the token is      *)
(* cancelled, else back off and restart.                                   *)
ServiceOver ==
    /\ service = "watching"
    /\ handle \in {"ok", "panicked"}
    /\ service' = IF handle = "ok" /\ cancelled THEN "stopped" ELSE "backoff"
    /\ handle' = "none"
    /\ UNCHANGED <<runVars, main, worker, live>>

(* Faulty variant: the token is not watched while the service runs.        *)
ServiceAborted_OnlyOver ==
    /\ service = "watching"
    /\ handle # "running"
    /\ cancelled
    /\ service' = "stopped"
    /\ handle' = "none"
    /\ UNCHANGED <<runVars, main, worker, live>>

(* The token is cancelled first: handle.abort(), and the task ends at its  *)
(* next await if it is not over already (InstanceDropped).                 *)
ServiceAborted ==
    /\ service = "watching"
    /\ cancelled
    /\ service' = "stopped"
    /\ handle' = "none"
    /\ UNCHANGED <<runVars, main, worker, live>>

InstanceDropped ==
    /\ handle = "none"
    /\ live > 0
    /\ live' = live - 1
    /\ UNCHANGED <<runVars, main, worker, service, handle>>

(* BACKOFF_PERIOD is over, or the token is cancelled during it.            *)
BackoffEnds ==
    /\ service = "backoff"
    /\ \/ service' = "top"
       \/ cancelled /\ service' = "stopped"
    /\ UNCHANGED <<runVars, main, worker, handle, live>>

-----------------------------------------------------------------------------
(* main.                                                                   *)

(* Ctrl-C: shutdown cancels the token and closes the tracker.              *)
CtrlC ==
    /\ main = "running"
    /\ main' = "shutdown"
    /\ cancelled' = TRUE
    /\ UNCHANGED <<pc, backoff, hasUrl, early, late, worker, service, handle, live>>

(* The tracked tasks: the supervising task, the connector, the workers.    *)
TrackerEmpty ==
    /\ service = "stopped"
    /\ pc = "done"
    /\ \A w \in Workers : worker[w] # "running"

(* tracker.wait() returns: "Graceful shutdown complete."                   *)
WaitReturns ==
    /\ main = "shutdown"
    /\ TrackerEmpty
    /\ main' = "complete"
    /\ UNCHANGED <<runVars, worker, service, handle, live>>

(* One second later main returns, and the runtime drops what is left.      *)
MainReturns ==
    /\ main = "complete"
    /\ main' = "exited"
    /\ live' = 0
    /\ UNCHANGED <<runVars, worker, service, handle>>

Next ==
    \/ Connector
    \/ \E w \in Workers : WorkerEnds(w) \/ WorkerPanics(w)
    \/ ServiceTop
    \/ \E how \in {"ok", "panicked"} : InstanceEnds(how)
    \/ ServiceOver \/ ServiceAborted \/ InstanceDropped \/ BackoffEnds
    \/ CtrlC \/ WaitReturns \/ MainReturns

Spec == Init /\ [][Next]_vars

(* Fairness: tokio runs what is ready, a timer fires, and the network      *)
(* answers or fails.  The last is more than the code asks for: neither     *)
(* connect_ws nor the REST client has a time limit of its own.  The select *)
(* of handle_connection polls its branches in random order, so signals     *)
(* that keep coming cannot hide the token for ever.  Nothing makes a       *)
(* connection end, a task panic or the user press Ctrl-C.                  *)
Fairness ==
    /\ WF_vars((Top \/ Slept \/ WaitCancelled) /\ UNCHANGED superVars)
    /\ SF_vars(ServingCancelled /\ UNCHANGED superVars)
    /\ WF_vars((ConnectFails \/ ConnectSucceeds) /\ UNCHANGED superVars)
    /\ WF_vars((SubscribeFails \/ Subscribe) /\ UNCHANGED superVars)
    /\ WF_vars(Bootstrapped /\ UNCHANGED superVars)
    /\ \A w \in Workers : WF_vars(WorkerEnds(w))
    /\ WF_vars(ServiceTop)
    /\ WF_vars(ServiceOver \/ ServiceAborted)
    /\ WF_vars(BackoffEnds)
    /\ WF_vars(WaitReturns)
    /\ WF_vars(MainReturns)

FairSpec == Spec /\ Fairness

-----------------------------------------------------------------------------
(* Every variable in its range.                                            *)
TypeOK ==
    /\ RunTypeOK
    /\ main \in {"running", "shutdown", "complete", "exited"}
    /\ worker \in [Workers -> {"running", "ended", "panicked"}]
    /\ service \in {"top", "watching", "backoff", "stopped"}
    /\ handle \in {"none", "running", "ok", "panicked"}
    /\ live \in Nat

(* The service never runs twice, whatever the order in which it ends, its  *)
(* supervisor backs off and the token is cancelled: two tickers would      *)
(* double the snapshot rows.                                               *)
OneInstance == live <= 1

(* A connector whose token is cancelled subscribes a connection at most    *)
(* once more: the one that was being made.  (A book of a connection that   *)
(* is served may be subscribed again until the select sees the token.)     *)
OneLateSubscription == late <= 1

(* A service that ended, by itself or by a panic, runs again, unless the   *)
(* process is shutting down.                                               *)
ServiceComesBack ==
    (handle \in {"ok", "panicked"}) ~> (handle = "running" \/ cancelled)

(* Ctrl-C ends the process, wherever the connector and the service are:    *)
(* also from get_url's loop without a wait, and after workers panicked.    *)
Exits == (main = "shutdown") ~> (main = "exited")
=============================================================================
