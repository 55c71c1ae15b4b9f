----------------------------- MODULE Supervisor -----------------------------
(* The goroutine that keeps the inverter session up (cmd/cmd.go,              *)
(* startWinetService) with the health status it publishes, over an abstract   *)
(* winet service: Connect fails, succeeds or hangs, and the service may put   *)
(* an event into its channel of capacity one at any time.  WinetSession opens *)
(* Connect up into its steps and is shown to implement this module.           *)
EXTENDS Naturals

CONSTANT MaxFails  \* maxConnAttempts

ASSUME MaxFailsAssumption == MaxFails \in Nat \ {0}

VARIABLES sup,      \* where the goroutine is
          fails,    \* consecutiveFails
          health,   \* healthState, what GET /health answers
          event,    \* TRUE: an event is in the channel
          ctxDone   \* the context of Run is cancelled

supVars == <<sup, fails, health, event, ctxDone>>

SupInit ==
    /\ sup = "top"
    /\ fails = 0
    /\ health = "starting"
    /\ event = FALSE
    /\ ctxDone = FALSE

(* Top of the loop: the context is looked at first, then Connect is called.   *)
Check ==
    /\ sup = "top" /\ ~ctxDone
    /\ sup' = "connect"
    /\ health' = "reconnecting"
    /\ UNCHANGED <<fails, event, ctxDone>>

ConnectFails ==
    /\ sup = "connect"
    /\ fails' = fails + 1
    /\ \/ /\ fails' >= MaxFails
          /\ sup' = "stopped"
          /\ health' = "disconnected"
       \/ /\ fails' < MaxFails
          /\ sup' = "backoff"
          /\ UNCHANGED health
    /\ UNCHANGED <<event, ctxDone>>

ConnectReturns ==
    /\ sup = "connect"
    /\ sup' = "session"
    /\ fails' = 0
    /\ health' = "connected"
    /\ UNCHANGED <<event, ctxDone>>

(* Not the code: the count starts again after every backoff.                  *)
BackoffElapses_Forgets ==
    /\ sup = "backoff"
    /\ sup' = "top"
    /\ fails' = 0
    /\ UNCHANGED <<health, event, ctxDone>>

BackoffElapses ==
    /\ sup = "backoff"
    /\ sup' = "top"
    /\ UNCHANGED <<fails, health, event, ctxDone>>

TakeEvent ==
    /\ sup = "session" /\ event
    /\ sup' = "top"
    /\ event' = FALSE
    /\ UNCHANGED <<fails, health, ctxDone>>

(* Not the code: one of the returns forgets the health.                       *)
SeeDone_HealthKept ==
    /\ ctxDone /\ sup \in {"top", "backoff", "session"}
    /\ sup' = "stopped"
    /\ UNCHANGED <<fails, health, event, ctxDone>>

(* Not the code: the session waits for events only.                           *)
SeeDone_NotInSession ==
    /\ ctxDone /\ sup \in {"top", "backoff"}
    /\ sup' = "stopped"
    /\ health' = "disconnected"
    /\ UNCHANGED <<fails, event, ctxDone>>

(* The three places where the goroutine looks at its context.                 *)
SeeDone ==
    /\ ctxDone /\ sup \in {"top", "backoff", "session"}
    /\ sup' = "stopped"
    /\ health' = "disconnected"
    /\ UNCHANGED <<fails, event, ctxDone>>

(* The service signals: a send to the full channel is dropped.                *)
Signal ==
    /\ event' = TRUE
    /\ UNCHANGED <<sup, fails, health, ctxDone>>

Shutdown ==
    /\ ctxDone' = TRUE
    /\ UNCHANGED <<sup, fails, health, event>>

SupStep == Check \/ ConnectFails \/ ConnectReturns \/ BackoffElapses \/ TakeEvent \/ SeeDone

SupNext == SupStep \/ Signal \/ Shutdown

SupSpec == SupInit /\ [][SupNext]_supVars
-----------------------------------------------------------------------------
SupTypeOK ==
    /\ sup \in {"top", "connect", "backoff", "session", "stopped"}
    /\ fails \in 0..MaxFails
    /\ health \in {"starting", "reconnecting", "connected", "disconnected"}
    /\ event \in BOOLEAN
    /\ ctxDone \in BOOLEAN

(* The goroutine, and with it the process, ends only because it was told to   *)
(* or after exactly MaxFails failures in a row (cmd.go:255).                  *)
StopsForAReason == sup = "stopped" => ctxDone \/ fails = MaxFails

(* /health says "disconnected" exactly when nothing will reconnect any more,  *)
(* and never says "connected" while a Connect is in progress or backing off.  *)
HealthIsHonest ==
    /\ health = "disconnected" <=> sup = "stopped"
    /\ health = "connected" => sup \in {"session", "top"} /\ fails = 0
    /\ sup = "session" => health = "connected"

(* A run of failures is not forgotten: the counter goes up by one failure at  *)
(* a time and back to zero only when a Connect succeeds.                      *)
FailsAreCounted ==
    [][fails' # fails => \/ fails' = fails + 1 /\ sup' # "session"
                         \/ fails' = 0 /\ sup' = "session"]_supVars

=============================================================================
