------------------------------- MODULE Process -------------------------------
(* The process (cmd/cmd.go, Run): an errgroup of the goroutine that keeps the *)
(* inverter session up (Supervisor), the HTTP server with the requests it     *)
(* serves (Requests) and the error handler.  The first of them that returns   *)
(* cancels the context of the others; when all have returned, Run closes the  *)
(* database and the process exits, with every handler that is still at work.  *)
(* A panic of any other goroutine ends it at once: nothing recovers one.      *)
EXTENDS Supervisor, Requests

CONSTANT ShutdownLimit  \* ticks that srv.Shutdown waits at most (10 s)

ASSUME ShutdownAssumption == ShutdownLimit \in Nat /\ RequestLimit < ShutdownLimit

VARIABLES run,    \* "running" until Run returns, then "exited"; "crashed" by a panic
          http,   \* startHTTPServer: "listening", "deaf", "draining", "closed"
          errh,   \* handleErrors: "waiting" or "ended"
          drain,  \* ticks since srv.Shutdown was called
          sig,    \* SIGINT or SIGTERM came
          late    \* history: requests that arrived after srv.Shutdown was called

procVars == <<run, http, errh, drain, sig, late>>
vars == <<supVars, reqVars, procVars>>

Init ==
    /\ SupInit
    /\ RequestsInit
    /\ run = "running"
    /\ http = "listening"
    /\ errh = "waiting"
    /\ drain = 0
    /\ sig = FALSE
    /\ late = {}

Running == run = "running"
-----------------------------------------------------------------------------
(* The context and the group.                                                 *)

Interrupt ==
    /\ ~sig
    /\ sig' = TRUE
    /\ Shutdown
    /\ UNCHANGED <<reqVars, run, http, errh, drain, late>>

(* Not the code: a winet service that gave up leaves the server running.      *)
GroupCancels_NotForWinet ==
    /\ ~ctxDone
    /\ http = "closed" \/ errh = "ended"
    /\ Shutdown
    /\ UNCHANGED <<reqVars, procVars>>

(* errgroup: a goroutine of the group returned an error.  All three only      *)
(* return errors.                                                             *)
GroupCancels ==
    /\ ~ctxDone
    /\ sup = "stopped" \/ http = "closed" \/ errh = "ended"
    /\ Shutdown
    /\ UNCHANGED <<reqVars, procVars>>

(* Not the code: handleErrors returns when there is nothing to handle.        *)
ErrorsEnd_Idle ==
    /\ errh = "waiting"
    /\ errh' = "ended"
    /\ UNCHANGED <<supVars, reqVars, run, http, drain, sig, late>>

(* handleErrors: nobody sends on errorChan, so only the context ends it.      *)
ErrorsEnd ==
    /\ errh = "waiting" /\ ctxDone
    /\ errh' = "ended"
    /\ UNCHANGED <<supVars, reqVars, run, http, drain, sig, late>>

(* eg.Wait returns and the deferred cleanup closes the database.              *)
Exit ==
    /\ sup = "stopped" /\ http = "closed" /\ errh = "ended"
    /\ run' = "exited"
    /\ UNCHANGED <<supVars, reqVars, http, errh, drain, sig, late>>
-----------------------------------------------------------------------------
(* The HTTP server.                                                           *)

(* ListenAndServe fails, which is logged; requests in progress go on.         *)
ListenFails ==
    /\ http = "listening"
    /\ http' = "deaf"
    /\ UNCHANGED <<supVars, reqVars, run, errh, drain, sig, late>>

(* srv.Shutdown closes the listener.                                          *)
BeginDrain ==
    /\ http \in {"listening", "deaf"} /\ ctxDone
    /\ http' = "draining"
    /\ UNCHANGED <<supVars, reqVars, run, errh, drain, sig, late>>

(* Not the code: srv.Close instead of srv.Shutdown.                           *)
EndDrain_AtOnce ==
    /\ http = "draining"
    /\ http' = "closed"
    /\ UNCHANGED <<supVars, reqVars, run, errh, drain, sig, late>>

(* srv.Shutdown returns: nothing is being served and no header is awaited, or *)
(* its time is up.                                                            *)
EndDrain ==
    /\ http = "draining"
    /\ (\A r \in Request : ~Served(r)) \/ drain = ShutdownLimit
    /\ http' = "closed"
    /\ UNCHANGED <<supVars, reqVars, run, errh, drain, sig, late>>

(* Connections are accepted as long as the listener is up; the request on one *)
(* that was accepted is served, draining or not.  s.conn is nil only in a     *)
(* Connect or after one has failed (NilWhileAway of WinetSession).            *)
Converse(r) ==
    /\ \/ Accept(r) /\ http = "listening" /\ UNCHANGED late
       \/ Arrive(r) /\ late' = IF http \in {"listening", "deaf"} THEN late ELSE late \cup {r}
       \/ (HangUp(r) \/ TurnAway(r) \/ CloseDoor(r)) /\ UNCHANGED late
       \/ Handler(r, ctxDone, health # "connected") /\ UNCHANGED late
    /\ run' = IF hand'[r] = "panicked" THEN "crashed" ELSE run
    /\ UNCHANGED <<supVars, http, errh, drain, sig>>

(* A goroutine of the session panics (panic in WinetSession).                 *)
SessionPanics ==
    /\ health # "starting"
    /\ run' = "crashed"
    /\ UNCHANGED <<supVars, reqVars, http, errh, drain, sig, late>>

Draining == http = "draining" /\ drain < ShutdownLimit

(* Time passes, and not past the deadline of Shutdown when it is due.         *)
Tick ==
    /\ Older
    /\ http = "draining" => drain < ShutdownLimit
    /\ Draining \/ \E r \in Request : Ages(r)
    /\ drain' = IF Draining THEN drain + 1 ELSE drain
    /\ UNCHANGED <<supVars, run, http, errh, sig, late>>
-----------------------------------------------------------------------------
Winet == (SupStep \/ Signal) /\ UNCHANGED <<reqVars, procVars>>
World == Surroundings /\ UNCHANGED <<supVars, procVars>>

Next ==
    /\ Running
    /\ \/ Winet \/ World \/ Tick
       \/ Interrupt \/ GroupCancels \/ ErrorsEnd \/ Exit
       \/ ListenFails \/ BeginDrain \/ EndDrain \/ SessionPanics
       \/ \E r \in Request : Converse(r)

(* Goroutines are scheduled and time passes.  A session that has an event     *)
(* takes it; a Connect returns for sure only once its context is cancelled.   *)
(* Nothing is assumed of the clients, the inverter or its answers.            *)
Fairness ==
    /\ WF_vars(Running /\ sup # "connect" /\ SupStep /\ UNCHANGED <<reqVars, procVars>>)
    /\ WF_vars(Running /\ ctxDone /\ (ConnectFails \/ ConnectReturns)
                       /\ UNCHANGED <<reqVars, procVars>>)
    /\ WF_vars(Running /\ (GroupCancels \/ ErrorsEnd \/ Exit))
    /\ WF_vars(Running /\ (BeginDrain \/ EndDrain))
    /\ WF_vars(Running /\ Tick)
    /\ \A r \in Request :
        /\ WF_vars(Running /\ (hand[r] = "done" \/ age[r] = Limit(r)) /\ Converse(r)
                           /\ (HangUp(r) \/ CloseDoor(r)))
        /\ WF_vars(Running /\ Converse(r) /\ Handler(r, ctxDone, health # "connected"))

Spec == Init /\ [][Next]_vars

FairSpec == Spec /\ Fairness
-----------------------------------------------------------------------------
TypeOK ==
    /\ SupTypeOK
    /\ RequestsTypeOK
    /\ run \in {"running", "exited", "crashed"}
    /\ http \in {"listening", "deaf", "draining", "closed"}
    /\ errh \in {"waiting", "ended"}
    /\ drain \in 0..ShutdownLimit
    /\ sig \in BOOLEAN
    /\ late \subseteq Request

(* When Run returns there is a reason: a signal, or MaxFails failed Connects  *)
(* in a row.  No request, no failure of the listener and no end of the error  *)
(* handler makes it return (cmd.go, Run: three goroutines that cancel each    *)
(* other).  The panics, which nothing recovers, end the process otherwise.    *)
ExitsForAReason == run = "exited" => sig \/ fails = MaxFails

(* When the database is closed and the process exits, every request that was  *)
(* being served when the shutdown began has been answered: a request is over  *)
(* in less time than Shutdown waits.  Only one whose header came while        *)
(* Shutdown was waiting may be cut off, and that only because the time for a  *)
(* header and the time for a request add up to as much as Shutdown waits      *)
(* (cmd.go, startHTTPServer; middleware.go, TimeoutMiddleware).               *)
NotCutOff ==
    run = "exited" => \A r \in Request : door[r] = "open" =>
        r \in late /\ ReadLimit + RequestLimit >= ShutdownLimit

(* A connection that was accepted comes to an end, and so does the handler of *)
(* its request, whatever the client and the inverter do: none is left behind  *)
(* for ever by a 504 (middleware.go, TimeoutMiddleware; winet.go,             *)
(* pendingCmd.wait).                                                          *)
AnsweredAndEnds ==
    \A r \in Request : Served(r) ~> ~Busy(r) \/ ~Running

(* Told to stop, by a signal or by one of the group, the process ends.        *)
EndsWhenTold == ctxDone ~> ~Running

(* An inverter that stays unreachable ends the process, server and all,       *)
(* rather than leaving it up and disconnected (cmd.go, startWinetService).    *)
ProcessGivesUp ==
    []<>(sup # "connect") /\ <>[](sup # "session") => <>~Running

(* As long as Connect keeps returning, "reconnecting" is not what /health     *)
(* says for ever, however many attempts it takes: the session comes back or   *)
(* is given up (cmd.go, startWinetService).                                   *)
ReconnectingEnds ==
    []<>(sup # "connect") =>
        (health = "reconnecting" ~> health \in {"connected", "disconnected"} \/ ~Running)

(* Not what the code does: a listener that fails ends the process             *)
(* (developer.md:63).                                                         *)
DeafEnds == http = "deaf" ~> ~Running
=============================================================================
