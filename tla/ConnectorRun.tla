---------------------------- MODULE ConnectorRun ----------------------------
(***************************************************************************)
(* The loop of ExchangeConnector::run around one connection after another: *)
(* the request, the connection, the subscription, the bootstrap, the time  *)
(* the connection is served, and the wait before the next one.  What goes  *)
(* over a connection is in ExchangeConnector; here a connection only lasts *)
(* some time.  The network is external: whatever the connector waits for   *)
(* may come or fail at any moment.                                         *)
(***************************************************************************)
EXTENDS Integers

CONSTANTS
    MaxBackoff,         \* longest wait between two connections, in seconds
    TASK_DURATION_THRESHOLD,
    Uptimes,            \* whole seconds a connection may be served for
    MaxEarly            \* bound: early ends counted

VARIABLES
    pc,             \* where the loop is
    backoff,        \* seconds of the next wait
    hasUrl,         \* get_url succeeds: its environment variable is there
    cancelled,      \* the shutdown token
    early,          \* history: attempts in a row that did not last longer
                    \* than the threshold
    late            \* history: connections subscribed after the cancellation

runVars == <<pc, backoff, hasUrl, cancelled, early, late>>

ASSUME RunAssumption ==
    /\ MaxBackoff \in Nat \ {0}
    /\ TASK_DURATION_THRESHOLD \in Nat
    /\ Uptimes \subseteq Nat
    /\ MaxEarly \in Nat

(* Arithmetic that the provers do not know; TLC evaluates it.              *)
ASSUME PowersOfTwo ==
    2 ^ 0 = 1 /\ \A n \in 0 .. MaxEarly : 2 ^ (n + 1) = 2 * 2 ^ n

Places == {"top", "connecting", "subscribing", "bootstrap", "serving", "waiting", "done"}

RunInit ==
    /\ pc = "top"
    /\ backoff = 1
    /\ hasUrl \in BOOLEAN
    /\ cancelled = FALSE
    /\ early = 0
    /\ late = 0

Goto(a, b) == pc = a /\ pc' = b

EndsEarly == early' = IF early < MaxEarly THEN early + 1 ELSE early

(* The .env file that get_url reads before every request appears.          *)
UrlAppears ==
    /\ ~hasUrl
    /\ hasUrl' = TRUE
    /\ UNCHANGED <<pc, backoff, cancelled, early, late>>

(* Faulty variant: the loop does not look at the token.                    *)
Top_Blind ==
    /\ hasUrl
    /\ Goto("top", "connecting")
    /\ UNCHANGED <<backoff, hasUrl, cancelled, early, late>>

(* The head of the loop.  A get_url that fails goes straight back to it,   *)
(* with no wait and nothing changed: the loop stutters.                    *)
Top ==
    /\ \/ cancelled /\ Goto("top", "done")
       \/ ~cancelled /\ hasUrl /\ Goto("top", "connecting")
    /\ UNCHANGED <<backoff, hasUrl, cancelled, early, late>>

(* Faulty variant: the failure doubles the wait, and so does its end.      *)
ConnectFails_DoublesToo ==
    /\ Goto("connecting", "waiting")
    /\ EndsEarly
    /\ backoff' = IF backoff * 2 < MaxBackoff THEN backoff * 2 ELSE MaxBackoff
    /\ UNCHANGED <<hasUrl, cancelled, late>>

(* connect_ws fails: the wait.                                             *)
ConnectFails ==
    /\ Goto("connecting", "waiting")
    /\ EndsEarly
    /\ UNCHANGED <<backoff, hasUrl, cancelled, late>>

(* connect_ws succeeds: the backoff is reset before anything else.         *)
ConnectSucceeds ==
    /\ Goto("connecting", "subscribing")
    /\ backoff' = 1
    /\ UNCHANGED <<hasUrl, cancelled, early, late>>

SubscribeFails ==
    /\ Goto("subscribing", "waiting")
    /\ EndsEarly
    /\ UNCHANGED <<backoff, hasUrl, cancelled, late>>

(* The subscription is sent, whatever the token says by now.               *)
Subscribe ==
    /\ Goto("subscribing", "bootstrap")
    /\ late' = IF cancelled THEN late + 1 ELSE late
    /\ UNCHANGED <<backoff, hasUrl, cancelled, early>>

(* push_bootstrap_events returns, with or without snapshots.               *)
Bootstrapped ==
    /\ Goto("bootstrap", "serving")
    /\ UNCHANGED <<backoff, hasUrl, cancelled, early, late>>

(* A restart signal is served, even if the token is cancelled by now: the  *)
(* book is subscribed again and bootstrapped within handle_connection.     *)
Resubscribes ==
    /\ Goto("serving", "bootstrap")
    /\ UNCHANGED <<backoff, hasUrl, cancelled, early, late>>

(* handle_connection returns false after u seconds.                        *)
ConnectionEnds ==
    /\ Goto("serving", "waiting")
    /\ \E u \in Uptimes :
         IF u > TASK_DURATION_THRESHOLD THEN backoff' = 1 /\ early' = 0
                                        ELSE EndsEarly /\ UNCHANGED backoff
    /\ UNCHANGED <<hasUrl, cancelled, late>>

(* The token ends handle_connection, which returns true.                   *)
ServingCancelled ==
    /\ cancelled
    /\ Goto("serving", "done")
    /\ UNCHANGED <<backoff, hasUrl, cancelled, early, late>>

(* The wait is over.                                                       *)
Slept ==
    /\ Goto("waiting", "top")
    /\ backoff' = IF backoff * 2 < MaxBackoff THEN backoff * 2 ELSE MaxBackoff
    /\ UNCHANGED <<hasUrl, cancelled, early, late>>

WaitCancelled ==
    /\ cancelled
    /\ Goto("waiting", "done")
    /\ UNCHANGED <<backoff, hasUrl, cancelled, early, late>>

(* A panic, for instance over a poisoned mutex of the adapter: the worker  *)
(* is over for good.                                                       *)
Panics ==
    /\ pc # "done"
    /\ pc' = "done"
    /\ UNCHANGED <<backoff, hasUrl, cancelled, early, late>>

RunStep ==
    \/ Top
    \/ ConnectFails \/ ConnectSucceeds
    \/ SubscribeFails \/ Subscribe
    \/ Bootstrapped \/ Resubscribes
    \/ ConnectionEnds \/ ServingCancelled
    \/ Slept \/ WaitCancelled

RunTypeOK ==
    /\ pc \in Places
    /\ backoff \in 1 .. MaxBackoff
    /\ hasUrl \in BOOLEAN
    /\ cancelled \in BOOLEAN
    /\ early \in 0 .. MaxEarly
    /\ late \in Nat

-----------------------------------------------------------------------------
(* Between two connections the wait never exceeds what the attempts that   *)
(* ended early since the last healthy connection account for: 1, 2, 4, ... *)
(* and MaxBackoff at most.                                                 *)
Doubled(n) == LET d == 2 ^ n IN IF d < MaxBackoff THEN d ELSE MaxBackoff

WaitsNoLongerThanDue ==
    pc = "waiting" /\ early < MaxEarly => backoff <= Doubled(early)
=============================================================================
