-------------------------------- MODULE Conn --------------------------------
(* One websocket connection (pkg/sockets/sockets.go): the client that dials   *)
(* it and closes it, the goroutines that send on it, readLoop and setupPing.  *)
(* A step is what a goroutine does between two points where it can wait: the  *)
(* mutex, a read, a write, a select.  WriteMessage keeps the mutex while it   *)
(* blocks; the other critical sections are one step each.                     *)
EXTENDS Naturals

CONSTANTS
    Sender,    \* goroutines that call Send
    Ping,      \* the goroutine of setupPing
    MaxQueue,  \* bound: callbacks waiting in msgQueue
    None

Writer == Sender \cup {Ping}

ASSUME ConnAssumption ==
    /\ Ping \notin Sender /\ None \notin Writer
    /\ MaxQueue \in Nat

VARIABLES
    ws,       \* c.ws: "none" for nil, "open", "broken" (lost, unnoticed) or "closed"
    closed,   \* c.closed
    done,     \* c.done is closed
    mu,       \* the writer that holds c.mu across its WriteMessage, or None
    client,   \* where the goroutine is that dials and closes
    reader,   \* where readLoop is
    writer,   \* where each sender and setupPing are
    queue,    \* the length of c.msgQueue
    told,     \* calls of onError by Send and readLoop
    event,    \* an event for the session to take
    ctxDone   \* the context of Dial is cancelled

vars == <<ws, closed, done, mu, client, reader, writer, queue, told, event, ctxDone>>

Init ==
    /\ ws = "none" /\ closed = FALSE /\ done = FALSE /\ mu = None
    /\ client = "new" /\ reader = "none"
    /\ writer = [w \in Writer |-> IF w = Ping THEN "none" ELSE "idle"]
    /\ queue = 0 /\ told = 0 /\ event = FALSE /\ ctxDone = FALSE

(* onError, as the session sets it: a send to its channel unless the context  *)
(* is cancelled.                                                              *)
OnError == event' = (event \/ ~ctxDone) /\ told' = told + 1

CloseUnsafe == ws' = "closed" /\ closed' = TRUE /\ done' = TRUE

Transition(w, from, to) == writer[w] = from /\ writer' = [writer EXCEPT ![w] = to]
-----------------------------------------------------------------------------
(* The client.                                                                *)

(* onError passes over io.EOF, which only a handshake can fail with.          *)
DialFails ==
    /\ client = "new" /\ ws = "none"
    /\ event' \in {event, event \/ ~ctxDone}
    /\ client' = "failed"
    /\ UNCHANGED <<ws, closed, done, mu, reader, writer, queue, told, ctxDone>>

DialSucceeds ==
    /\ client = "new" /\ ws = "none"
    /\ ws' = "open" /\ closed' = FALSE
    /\ reader' = "select"
    /\ writer' = [writer EXCEPT ![Ping] = "idle"]
    /\ client' = "dialled"
    /\ UNCHANGED <<done, mu, queue, told, event, ctxDone>>

(* winet closes a connection only when its Dial has succeeded.                *)
CloseBegins ==
    /\ client = "dialled"
    /\ client' = "closing"
    /\ UNCHANGED <<ws, closed, done, mu, reader, writer, queue, told, event, ctxDone>>

(* Not the code: Close does not wait for the mutex.                           *)
Close_Unlocked ==
    /\ client = "closing"
    /\ client' = "closed"
    /\ IF closed THEN UNCHANGED <<ws, closed, done>> ELSE CloseUnsafe
    /\ UNCHANGED <<mu, reader, writer, queue, told, event, ctxDone>>

Close ==
    /\ client = "closing" /\ mu = None
    /\ client' = "closed"
    /\ IF closed THEN UNCHANGED <<ws, closed, done>> ELSE CloseUnsafe
    /\ UNCHANGED <<mu, reader, writer, queue, told, event, ctxDone>>
-----------------------------------------------------------------------------
(* Send, also as called by setupPing.                                         *)

SendBegins(w) ==
    /\ mu = None /\ ~closed /\ ws # "none"
    /\ Transition(w, "idle", "writing")
    /\ mu' = w
    /\ UNCHANGED <<ws, closed, done, client, reader, queue, told, event, ctxDone>>

(* The bytes are taken, by a lost connection too.  A message with a callback  *)
(* enters the queue; a ping has none.                                         *)
SendWrites(w) ==
    /\ Transition(w, "writing", "idle")
    /\ mu' = None
    /\ queue' \in {queue, queue + 1}
    /\ queue' = queue + 1 => w # Ping /\ queue < MaxQueue
    /\ UNCHANGED <<ws, closed, done, client, reader, told, event, ctxDone>>

(* Not the code: a failed write leaves the rest to readLoop, the mutex too.   *)
SendFails_KeepsLock(w) ==
    /\ ws = "broken"
    /\ Transition(w, "writing", IF w = Ping THEN "exited" ELSE "idle")
    /\ CloseUnsafe /\ OnError
    /\ UNCHANGED <<mu, client, reader, queue, ctxDone>>

SendFails(w) ==
    /\ ws = "broken"
    /\ Transition(w, "writing", IF w = Ping THEN "exited" ELSE "idle")
    /\ mu' = None
    /\ CloseUnsafe /\ OnError
    /\ UNCHANGED <<client, reader, queue, ctxDone>>

(* setupPing returns: its context, c.done, or a Send that finds c.closed.     *)
PingStops ==
    /\ ctxDone \/ done \/ (closed /\ mu = None)
    /\ Transition(Ping, "idle", "exited")
    /\ UNCHANGED <<ws, closed, done, mu, client, reader, queue, told, event, ctxDone>>
-----------------------------------------------------------------------------
(* readLoop.                                                                  *)

Select ==
    /\ reader = "select"
    /\ reader' = IF ctxDone \/ done THEN "exited" ELSE "reading"
    /\ UNCHANGED <<ws, closed, done, mu, client, writer, queue, told, event, ctxDone>>

(* ReadMessage returns a message, one already received after a close or a     *)
(* loss too; its handler is a goroutine of its own.                           *)
ReadsMessage ==
    /\ reader = "reading"
    /\ reader' = "read"
    /\ UNCHANGED <<ws, closed, done, mu, client, writer, queue, told, event, ctxDone>>

(* len(c.msgQueue) is read without the mutex and may be out of date, too low. *)
LooksAtQueue ==
    /\ reader = "read"
    /\ \/ reader' = "select"
       \/ queue > 0 /\ reader' = "popping"
    /\ UNCHANGED <<ws, closed, done, mu, client, writer, queue, told, event, ctxDone>>

PopsCallback ==
    /\ reader = "popping" /\ mu = None
    /\ queue' = queue - 1
    /\ reader' = "select"
    /\ UNCHANGED <<ws, closed, done, mu, client, writer, told, event, ctxDone>>

(* Not the code: a read that fails is tried again.                            *)
ReadFails_TriedAgain ==
    /\ reader = "reading" /\ ws \in {"broken", "closed"}
    /\ reader' = "select"
    /\ UNCHANGED <<ws, closed, done, mu, client, writer, queue, told, event, ctxDone>>

ReadFails ==
    /\ reader = "reading" /\ ws \in {"broken", "closed"}
    /\ reader' = "failed"
    /\ UNCHANGED <<ws, closed, done, mu, client, writer, queue, told, event, ctxDone>>

(* Not the code: the websocket is closed and nobody is told.                  *)
ReaderCloses_Silently ==
    /\ reader = "failed" /\ mu = None
    /\ CloseUnsafe
    /\ reader' = "exited"
    /\ UNCHANGED <<mu, client, writer, queue, told, event, ctxDone>>

(* Not the code: closed is not looked at before onError.                      *)
ReaderCloses_ToldAgain ==
    /\ reader = "failed" /\ mu = None
    /\ CloseUnsafe /\ OnError
    /\ reader' = "exited"
    /\ UNCHANGED <<mu, client, writer, queue, ctxDone>>

ReaderCloses ==
    /\ reader = "failed" /\ mu = None
    /\ \/ ~closed /\ OnError /\ CloseUnsafe
       \/ closed /\ UNCHANGED <<ws, closed, done, told, event>>
    /\ reader' = "exited"
    /\ UNCHANGED <<mu, client, writer, queue, ctxDone>>
-----------------------------------------------------------------------------
(* The surroundings: the network, the session, the context.                   *)

Break ==
    /\ ws = "open"
    /\ ws' = "broken"
    /\ UNCHANGED <<closed, done, mu, client, reader, writer, queue, told, event, ctxDone>>

TakeEvent ==
    /\ event
    /\ event' = FALSE
    /\ UNCHANGED <<ws, closed, done, mu, client, reader, writer, queue, told, ctxDone>>

Shutdown ==
    /\ ctxDone' = TRUE
    /\ UNCHANGED <<ws, closed, done, mu, client, reader, writer, queue, told, event>>

SendReturns(w) == SendWrites(w) \/ SendFails(w)

Next ==
    \/ DialFails \/ DialSucceeds \/ CloseBegins \/ Close
    \/ \E w \in Writer : SendBegins(w) \/ SendReturns(w)
    \/ PingStops
    \/ Select \/ ReadsMessage \/ LooksAtQueue \/ PopsCallback \/ ReadFails \/ ReaderCloses
    \/ Break \/ TakeEvent \/ Shutdown

(* Goroutines run, and the mutex, which Go hands over fairly, is got in the   *)
(* end.  A write ends: the kernel takes the bytes or gives the connection up. *)
(* A lost or closed connection has only so many messages left to read.        *)
Fairness ==
    /\ WF_vars(Select) /\ WF_vars(LooksAtQueue) /\ WF_vars(PingStops)
    /\ SF_vars(PopsCallback) /\ SF_vars(ReadFails) /\ SF_vars(ReaderCloses) /\ SF_vars(Close)
    /\ \A w \in Writer : WF_vars(SendReturns(w))

Spec == Init /\ [][Next]_vars /\ Fairness

Abstract == INSTANCE Link WITH link <- ws, asked <- (client = "closing"), quit <- ctxDone
-----------------------------------------------------------------------------
TypeOK ==
    /\ ws \in {"none", "open", "broken", "closed"}
    /\ closed \in BOOLEAN /\ done \in BOOLEAN
    /\ mu \in Writer \cup {None}
    /\ client \in {"new", "failed", "dialled", "closing", "closed"}
    /\ reader \in {"none", "select", "reading", "read", "popping", "failed", "exited"}
    /\ writer \in [Writer -> {"none", "idle", "writing", "exited"}]
    /\ queue \in 0..MaxQueue
    /\ told \in Nat /\ event \in BOOLEAN /\ ctxDone \in BOOLEAN

(* Nothing is being written to a connection that is closed: Close, and the    *)
(* close after a failed read, wait for the Send in progress (sockets.go:79).  *)
NoWriteOnClosed == mu # None => ~closed /\ ws \in {"open", "broken"} /\ writer[mu] = "writing"

(* Whoever sees the loss first signals it, and nobody does a second time or   *)
(* after a deliberate Close (sockets.go:186): once closed, never told again.  *)
ToldAtMostOnce == [][closed => told' = told]_<<told, closed>>

(* A connection is opened once, and unless the session asked for it, it is    *)
(* only closed in a step that signals the loss (sockets.go, all of Conn).     *)
KeepsLink == Abstract!LinkSteps

(* While the context lives a loss does not go unnoticed for ever, whoever is  *)
(* at work on the connection: the rest of what Link promises.                 *)
NoticesLosses == Abstract!LinkFairness

(* A connection that is closed, or that the session wants closed, comes to    *)
(* its end: Close returns, though others may be in the middle of a Send, and  *)
(* readLoop and setupPing, which wait in a read and for a ticker, do not      *)
(* outlive it (sockets.go:79, 175 and 230).                                   *)
ComesToItsEnd ==
    closed \/ client = "closing" ~>
        client # "closing" /\ reader = "exited" /\ writer[Ping] = "exited"
=============================================================================
