---------------------------- MODULE WinetSession ----------------------------
(* The inverter session: the goroutine that connects and reconnects           *)
(* (cmd.startWinetService, winet.Connect, winet.reconnect), the websocket of  *)
(* every connection it makes with its reading goroutine (pkg/sockets), one    *)
(* goroutine per incoming message (winet.onMessage and the handlers), one     *)
(* poll loop per connection (winet.runPollLoop) and the HTTP commands         *)
(* (winet.Send...Command).  They share the fields of winet.service and the    *)
(* single slot of PendingCmd.                                                 *)
(*                                                                            *)
(* Epoch e is the e-th call of Connect: it names that call's loginReady       *)
(* channel, and the connection and poll loop it makes, if it gets that far.   *)
(* An exchange is one message to the device and the answer to it; it carries  *)
(* the state of the goroutine that handles the answer.                        *)
EXTENDS Naturals, FiniteSets

CONSTANTS
    MaxEpoch,    \* bound: calls of Connect
    MaxFlight,   \* bound: exchanges in progress at one time
    MaxFails,    \* maxConnAttempts
    NumDevices,  \* devices in the device list
    NumStages,   \* query stages of each device (model.DeviceStages)
    Command,     \* HTTP requests that send an inverter command, one command each
    Faults,      \* what the surroundings do wrong, see FaultKind
    None, Dead, Failed

Epoch == 1..MaxEpoch
Id == 1..MaxFlight
Device == 1..NumDevices
Waiter == Epoch \cup Command

FaultKind == {"shutdown",  \* the context of Run is cancelled
              "fetch",     \* the properties cannot be loaded
              "dial",      \* the device cannot be reached
              "break",     \* a connection is lost
              "silence",   \* a request gets no answer
              "expired",   \* a request is answered by "login timeout"
              "bad",       \* an answer does not unmarshal
              "publisher", \* RegisterDevice or PublishData returns an error
              "page",      \* a line of the properties has no "="
              "junk"}      \* a reading that should be a number is none

ASSUME SessionAssumption ==
    /\ MaxEpoch \in Nat \ {0} /\ MaxFlight \in Nat \ {0} /\ MaxFails \in Nat \ {0}
    /\ NumDevices \in Nat \ {0} /\ NumStages \in Nat \ {0}
    /\ Faults \subseteq FaultKind
    /\ Command \cap Epoch = {}
    /\ None \notin Command \cup Nat

VARIABLES
    sup, fails, health, event, ctxDone,  \* as in Supervisor
    epoch,        \* calls of Connect so far; s.loginReady is that of epoch
    props,        \* s.properties is loaded
    conn,         \* s.conn: the epoch of the connection, 0 for nil
    sock,         \* sock[e]: the websocket of epoch e
    token,        \* s.token: the epoch whose device session issued it, 0 for ""
    loggedIn,     \* epochs whose loginReady channel is closed
    cancelled,    \* epochs whose poll context is cancelled
    cancelFn,     \* s.cancelPoll: the epoch whose context it cancels, 0 for nil
    device,       \* s.currentDevice: <<e, d>> points to device d in the list of poll
                  \*   loop e, None is nil
    stale,        \* history: epochs during which a login message of a session before
                  \*   was handled
    loop,         \* loop[e]: where the poll loop of epoch e is
    gate,         \* gate[e]: the epoch whose loginReady that loop waits for
    dev, stage,   \* dev[e], stage[e]: the device and stage it is querying
    cmd,          \* cmd[k]: where the command is
    exch,         \* exch[i]: an exchange, or None
    panic,        \* "none", or what a goroutine has panicked of: the process is gone
    slot, chan, phase, answer, target, \* s.pending, as in PendingCmd
    adrift        \* history: callers of wait that, not being cancelled, have given up on
                  \*   an answer still to come or have taken that of another caller

Kind == {"connect", "login", "list", "data", "param"}
Request == [kind : Kind, owner : Waiter, dev : 0..NumDevices, stage : 0..NumStages]
Exchange == [st : {"todo", "sent", "arrived", "expired", "bad", "failed", "shown", "delivering"},
             conn : Epoch, req : Request]

P == INSTANCE PendingCmd WITH Handler <- Id, Value <- Request, Serial <- FALSE

supVars  == <<sup, fails, health, epoch, props>>
connVars == <<conn, token, loggedIn, cancelled, cancelFn, device, stale>>
loopVars == <<loop, gate, dev, stage>>
pendVars == <<slot, chan, phase, answer, target, adrift>>
netVars  == <<sock, exch>>
flags    == <<ctxDone, panic>>
vars == <<supVars, connVars, loopVars, pendVars, netVars, flags, event, cmd>>

Init ==
    /\ sup = "top" /\ fails = 0 /\ health = "starting" /\ event = FALSE /\ ctxDone = FALSE
    /\ epoch = 0 /\ props = FALSE
    /\ conn = 0 /\ token = 0 /\ loggedIn = {} /\ cancelled = {} /\ cancelFn = 0 /\ device = None
    /\ stale = {} /\ adrift = {}
    /\ sock = [e \in Epoch |-> "none"]
    /\ loop = [e \in Epoch |-> "none"]
    /\ gate = [e \in Epoch |-> 0]
    /\ dev = [e \in Epoch |-> 0]
    /\ stage = [e \in Epoch |-> 0]
    /\ cmd = [k \in Command |-> "idle"]
    /\ exch = [i \in Id |-> None]
    /\ panic = "none"
    /\ P!PendingInit

-----------------------------------------------------------------------------
(* Helpers.                                                                   *)

At(i, st) == exch[i] # None /\ exch[i].st = st
Free == {i \in Id : exch[i] = None}
NextFree == CHOOSE i \in Free : \A j \in Free : i <= j

(* onError and sendIfErr: a non-blocking send on the events channel, left out *)
(* once the context of Connect is cancelled.                                  *)
Raise == event' = (event \/ ~ctxDone)

(* The poll context of epoch e is a child of the context of Connect.          *)
Done(e) == ctxDone \/ e \in cancelled

(* The answers still to come on connection c, when it is lost or closed.      *)
Cut(c) == [i \in Id |-> IF At(i, "sent") /\ exch[i].conn = c THEN None ELSE exch[i]]

(* Conn.Send of a request on connection c, in exchange i.  A lost connection  *)
(* may still take the bytes.                                                  *)
Sends(i, c, req) ==
    /\ sock[c] \in {"open", "broken"}
    /\ exch' = IF sock[c] = "open"
               THEN [exch EXCEPT ![i] = [st |-> "sent", conn |-> c, req |-> req]]
               ELSE [exch EXCEPT ![i] = None]
    /\ UNCHANGED <<sock, event>>

(* Conn.Send that returns an error: a failed write closes the connection and  *)
(* calls onError first.                                                       *)
SendFails(c) ==
    /\ sock[c] \in {"broken", "closed"}
    /\ \/ sock[c] = "broken" /\ sock' = [sock EXCEPT ![c] = "closed"] /\ Raise
       \/ sock[c] = "closed" /\ UNCHANGED <<sock, event>>

Req(kind, w, d, s) == [kind |-> kind, owner |-> w, dev |-> d, stage |-> s]
-----------------------------------------------------------------------------
(* The supervisor goroutine: startWinetService, Connect and reconnect.        *)

(* Not the code: the health stays as it was while reconnecting.               *)
Check_HealthKept ==
    /\ sup = "top" /\ ~ctxDone /\ epoch < MaxEpoch
    /\ sup' = "begin"
    /\ UNCHANGED <<fails, health, epoch, props, connVars, loopVars, pendVars, event,
                   netVars, cmd, flags>>

Check ==
    /\ sup = "top" /\ ~ctxDone /\ epoch < MaxEpoch
    /\ sup' = "begin"
    /\ health' = "reconnecting"
    /\ UNCHANGED <<fails, epoch, props, connVars, loopVars, pendVars, event,
                   netVars, cmd, flags>>

(* Not the code: the poll loop before is left running.                        *)
CancelPoll_Skipped ==
    /\ sup = "begin"
    /\ epoch' = epoch + 1
    /\ sup' = IF props THEN "close" ELSE "fetch"
    /\ UNCHANGED <<fails, health, props, connVars, loopVars, pendVars, event, netVars,
                   cmd, flags>>

(* Connect: the poll loop before is cancelled, loginReady is a fresh channel. *)
CancelPoll ==
    /\ sup = "begin"
    /\ epoch' = epoch + 1
    /\ cancelled' = cancelled \cup ({cancelFn} \ {0})
    /\ cancelFn' = 0
    /\ sup' = IF props THEN "close" ELSE "fetch"
    /\ UNCHANGED <<fails, health, props, conn, token, loggedIn, device, stale,
                   loopVars, pendVars, event, netVars, cmd, flags>>

(* Connect: getProperties, once in the life of the service; a line without    *)
(* "=" panics.                                                                *)
FetchProperties ==
    /\ sup = "fetch"
    /\ \/ props' = TRUE /\ sup' = "close" /\ UNCHANGED panic
       \/ /\ ctxDone \/ "fetch" \in Faults
          /\ sup' = "failed" /\ UNCHANGED <<props, panic>>
       \/ "page" \in Faults /\ panic' = "index out of range" /\ UNCHANGED <<props, sup>>
    /\ UNCHANGED <<fails, health, epoch, connVars, loopVars, pendVars, event,
                   netVars, cmd, ctxDone>>

(* Not the code: s.conn is dropped without closing it.                        *)
CloseOld_LeftOpen ==
    /\ sup = "close"
    /\ conn' = 0
    /\ token' = 0
    /\ sup' = "dial"
    /\ UNCHANGED <<fails, health, epoch, props, loggedIn, cancelled, cancelFn, device,
                   stale, loopVars, pendVars, netVars, event, cmd, flags>>

(* reconnect: under connMu the old connection is closed and s.conn set to nil.*)
CloseOld ==
    /\ sup = "close"
    /\ sock' = [e \in Epoch |-> IF e = conn THEN "closed" ELSE sock[e]]
    /\ exch' = Cut(conn)
    /\ conn' = 0
    /\ token' = 0
    /\ sup' = "dial"
    /\ UNCHANGED <<fails, health, epoch, props, loggedIn, cancelled, cancelFn,
                   device, stale, loopVars, pendVars, event, cmd, flags>>

(* Dial calls onError, which passes over io.EOF, before it returns the error. *)
DialFails ==
    /\ sup = "dial" /\ (ctxDone \/ "dial" \in Faults)
    /\ Raise \/ UNCHANGED event
    /\ sup' = "failed"
    /\ UNCHANGED <<fails, health, epoch, props, connVars, loopVars, pendVars,
                   netVars, cmd, flags>>

(* Dial starts the goroutine of onconnect and the reading one.                *)
DialSucceeds ==
    /\ sup = "dial" /\ Free # {}
    /\ sock' = [sock EXCEPT ![epoch] = "open"]
    /\ exch' = [exch EXCEPT ![NextFree] =
                    [st |-> "todo", conn |-> epoch, req |-> Req("connect", epoch, 0, 0)]]
    /\ sup' = "install"
    /\ UNCHANGED <<fails, health, epoch, props, connVars, loopVars, pendVars,
                   event, cmd, flags>>

(* reconnect: s.conn = newConn under connMu.                                  *)
Install ==
    /\ sup = "install"
    /\ conn' = epoch
    /\ sup' = "start"
    /\ UNCHANGED <<fails, health, epoch, props, token, loggedIn, cancelled,
                   cancelFn, device, stale, loopVars, pendVars, event, netVars,
                   cmd, flags>>

(* Connect: a poll context of its own and the poll loop.                      *)
StartPoll ==
    /\ sup = "start"
    /\ cancelFn' = epoch
    /\ loop' = [loop EXCEPT ![epoch] = "spawned"]
    /\ sup' = "return"
    /\ UNCHANGED <<fails, health, epoch, props, conn, token, loggedIn, cancelled,
                   device, stale, gate, dev, stage, pendVars, event, netVars, cmd,
                   flags>>

ConnectReturns ==
    /\ sup = "return"
    /\ sup' = "session"
    /\ fails' = 0
    /\ health' = "connected"
    /\ UNCHANGED <<epoch, props, connVars, loopVars, pendVars, event, netVars,
                   cmd, flags>>

ConnectFails ==
    /\ sup = "failed"
    /\ fails' = fails + 1
    /\ \/ fails' >= MaxFails /\ sup' = "stopped" /\ health' = "disconnected"
       \/ fails' < MaxFails /\ sup' = "backoff" /\ UNCHANGED health
    /\ UNCHANGED <<epoch, props, connVars, loopVars, pendVars, event, netVars,
                   cmd, flags>>

(* Not the code: the count starts again after every backoff.                  *)
BackoffElapses_Forgets ==
    /\ sup = "backoff"
    /\ sup' = "top"
    /\ fails' = 0
    /\ UNCHANGED <<health, epoch, props, connVars, loopVars, pendVars, event, netVars,
                   cmd, flags>>

BackoffElapses ==
    /\ sup = "backoff"
    /\ sup' = "top"
    /\ UNCHANGED <<fails, health, epoch, props, connVars, loopVars, pendVars,
                   event, netVars, cmd, flags>>

TakeEvent ==
    /\ sup = "session" /\ event
    /\ sup' = "top"
    /\ event' = FALSE
    /\ UNCHANGED <<fails, health, epoch, props, connVars, loopVars, pendVars,
                   netVars, cmd, flags>>

(* Not the code: the session waits for events only.                           *)
SeeDone_NotInSession ==
    /\ ctxDone /\ sup \in {"top", "backoff"}
    /\ sup' = "stopped"
    /\ health' = "disconnected"
    /\ UNCHANGED <<fails, epoch, props, connVars, loopVars, pendVars, event, netVars,
                   cmd, flags>>

SeeDone ==
    /\ ctxDone /\ sup \in {"top", "backoff", "session"}
    /\ sup' = "stopped"
    /\ health' = "disconnected"
    /\ UNCHANGED <<fails, epoch, props, connVars, loopVars, pendVars, event,
                   netVars, cmd, flags>>

(* SIGTERM, or another goroutine of the errgroup returned.                    *)
Shutdown ==
    /\ ~ctxDone /\ "shutdown" \in Faults
    /\ ctxDone' = TRUE
    /\ UNCHANGED <<supVars, connVars, loopVars, pendVars, event, netVars, cmd,
                   panic>>
-----------------------------------------------------------------------------
(* The connections and the device.                                            *)

(* The network or the device drops connection e; nobody has noticed yet.      *)
Break(e) ==
    /\ sock[e] = "open" /\ "break" \in Faults
    /\ sock' = [sock EXCEPT ![e] = "broken"]
    /\ exch' = Cut(e)
    /\ UNCHANGED <<supVars, connVars, loopVars, pendVars, event, cmd, flags>>

(* Not the code: readLoop closes first and then finds it closed on purpose.   *)
Notice_Silent(e) ==
    /\ sock[e] = "broken"
    /\ sock' = [sock EXCEPT ![e] = "closed"]
    /\ UNCHANGED <<supVars, connVars, loopVars, pendVars, event, cmd, exch, flags>>

(* readLoop gets a read error, or setupPing a write error, on a connection    *)
(* that was not closed on purpose: onError, then closeUnsafe.                 *)
Notice(e) ==
    /\ sock[e] = "broken"
    /\ sock' = [sock EXCEPT ![e] = "closed"]
    /\ Raise
    /\ UNCHANGED <<supVars, connVars, loopVars, pendVars, cmd, exch, flags>>

(* readLoop starts a goroutine for a message: the answer itself, a "login     *)
(* timeout" in its place, or one that does not unmarshal.                     *)
Receive(i) ==
    /\ At(i, "sent")
    /\ \E st \in {"arrived"} \cup ({"expired", "bad"} \cap Faults) : exch' = [exch EXCEPT ![i].st = st]
    /\ UNCHANGED <<supVars, connVars, loopVars, pendVars, event, sock, cmd, flags>>

(* The device does not answer, or answers "normal user limit", which          *)
(* onMessage drops.                                                           *)
NoAnswer(i) ==
    /\ At(i, "sent") /\ "silence" \in Faults
    /\ exch' = [exch EXCEPT ![i] = None]
    /\ UNCHANGED <<supVars, connVars, loopVars, pendVars, event, sock, cmd, flags>>

-----------------------------------------------------------------------------
(* The goroutines that greet the device and handle its messages.              *)

(* onconnect: the connect request goes out on the connection just made.       *)
Greet(i) ==
    /\ At(i, "todo")
    /\ \/ Sends(i, exch[i].conn, exch[i].req)
       \/ SendFails(exch[i].conn) /\ exch' = [exch EXCEPT ![i].st = "failed"]
    /\ UNCHANGED <<supVars, connVars, loopVars, pendVars, cmd, flags>>

(* A login message is handled in the epoch of its connection, or later.       *)
NoteStale(i) == stale' = IF exch[i].conn = epoch THEN stale ELSE stale \cup {epoch}

(* handleConnectMessage: keep the token, log in on the same connection.       *)
HandleConnect(i) ==
    /\ At(i, "arrived") /\ exch[i].req.kind = "connect"
    /\ token' = exch[i].conn
    /\ NoteStale(i)
    /\ \/ Sends(i, exch[i].conn, Req("login", exch[i].conn, 0, 0))
       \/ SendFails(exch[i].conn) /\ exch' = [exch EXCEPT ![i].st = "failed"]
    /\ UNCHANGED <<supVars, conn, loggedIn, cancelled, cancelFn, device, loopVars,
                   pendVars, cmd, flags>>

(* Not the code: loginReady is made once, with the service.                   *)
HandleLogin_OneGate(i) ==
    /\ At(i, "arrived") /\ exch[i].req.kind = "login"
    /\ token' = exch[i].conn
    /\ NoteStale(i)
    /\ loggedIn' = loggedIn \cup {epoch}
    /\ panic' = IF loggedIn # {} THEN "closed channel" ELSE "none"
    /\ exch' = [exch EXCEPT ![i] = None]
    /\ UNCHANGED <<supVars, conn, cancelled, cancelFn, device, loopVars, pendVars, event,
                   ctxDone, sock, cmd>>

(* handleLoginMessage: keep the token and close s.loginReady, the channel of  *)
(* the latest Connect; closing a closed channel panics.                       *)
HandleLogin(i) ==
    /\ At(i, "arrived") /\ exch[i].req.kind = "login"
    /\ token' = exch[i].conn
    /\ NoteStale(i)
    /\ loggedIn' = loggedIn \cup {epoch}
    /\ panic' = IF epoch \in loggedIn THEN "closed channel" ELSE "none"
    /\ exch' = [exch EXCEPT ![i] = None]
    /\ UNCHANGED <<supVars, conn, cancelled, cancelFn, device, loopVars, pendVars,
                   event, ctxDone, sock, cmd>>

(* onMessage: "login timeout" goes to the events channel whatever the context.*)
HandleExpired(i) ==
    /\ At(i, "expired")
    /\ event' = TRUE
    /\ exch' = [exch EXCEPT ![i] = None]
    /\ UNCHANGED <<supVars, connVars, loopVars, pendVars, sock, cmd, flags>>

(* sendIfErr, after an unmarshal error or a failed Send.                      *)
HandleError(i) ==
    /\ At(i, "bad") \/ At(i, "failed")
    /\ Raise
    /\ exch' = [exch EXCEPT ![i] = None]
    /\ UNCHANGED <<supVars, connVars, loopVars, pendVars, sock, cmd, flags>>

(* handleRealMessage, handleDirectMessage: the data is published under        *)
(* whatever s.currentDevice is by now, and delivered even if that fails; the  *)
(* normalizer panics on junk.                                                 *)
Publish(i) ==
    /\ At(i, "arrived") /\ exch[i].req.kind = "data"
    /\ \/ /\ device = None
          /\ exch' = [exch EXCEPT ![i] = None]
          /\ UNCHANGED <<event, panic>>
       \/ /\ device # None
          /\ exch' = [exch EXCEPT ![i].st = "shown"]
          /\ UNCHANGED event \/ ("publisher" \in Faults /\ Raise)
          /\ UNCHANGED panic
       \/ /\ device # None /\ "junk" \in Faults
          /\ panic' = "nil number"
          /\ UNCHANGED <<exch, event>>
    /\ UNCHANGED <<supVars, connVars, loopVars, pendVars, sock, cmd, ctxDone>>

(* pending.deliver of a device list, of a command's result or of the "done"   *)
(* of published data: first the copy of the slot, then the send.              *)
Deliver(i) ==
    /\ \/ At(i, "arrived") /\ exch[i].req.kind \in {"list", "param"}
       \/ At(i, "shown")
    /\ P!Snapshot(i)
    /\ exch' = IF slot = None THEN [exch EXCEPT ![i] = None]
                              ELSE [exch EXCEPT ![i].st = "delivering"]
    /\ UNCHANGED <<supVars, connVars, loopVars, adrift, event, sock, cmd, flags>>

(* Not the code: what has been delivered is delivered once more.              *)
FinishDeliver_Again(i) ==
    /\ At(i, "delivering")
    /\ P!Push(i, exch[i].req)
    /\ exch' = [exch EXCEPT ![i].st = "shown"]
    /\ UNCHANGED <<supVars, connVars, loopVars, adrift, event, sock, cmd, flags>>

FinishDeliver(i) ==
    /\ At(i, "delivering")
    /\ P!Push(i, exch[i].req)
    /\ exch' = [exch EXCEPT ![i] = None]
    /\ UNCHANGED <<supVars, connVars, loopVars, adrift, event, sock, cmd, flags>>
-----------------------------------------------------------------------------
(* pending.wait, called by poll loops and commands.                           *)

Waits(w) == \/ w \in Epoch /\ loop[w] \in {"listWait", "dataWait"}
            \/ w \in Command /\ cmd[w] = "wait"

Wait(w) ==
    /\ Waits(w)
    /\ P!Register(w)
    /\ UNCHANGED <<supVars, connVars, loopVars, adrift, event, netVars, cmd, flags>>

CtxDone(w) == ctxDone \/ w \in cancelled

(* What is recorded of a caller that is not cancelled.                        *)
NoteAdrift(w, lost) == adrift' = IF lost /\ ~CtxDone(w) THEN adrift \cup {w} ELSE adrift

(* Nothing in an answer is compared with the request.                         *)
GetAnswer(w) ==
    /\ P!TakeValue(w)
    /\ NoteAdrift(w, chan[w].owner # w)
    /\ UNCHANGED <<supVars, connVars, loopVars, event, netVars, cmd, flags>>

(* A request of w is under way, or its answer.                                *)
Awaited(w) == \E i \in Id : /\ exch[i] # None /\ exch[i].req.owner = w
                          /\ exch[i].req.kind \notin {"connect", "login"}

(* waiterTimeout or the context.                                              *)
GiveUp(w) ==
    /\ P!GiveUp(w)
    /\ NoteAdrift(w, Awaited(w))
    /\ UNCHANGED <<supVars, connVars, loopVars, event, netVars, cmd, flags>>
-----------------------------------------------------------------------------
(* The poll loop of epoch e: runPollLoop and queryDevices.                    *)

LoopAt(e, pc) == loop[e] = pc
LoopTo(e, pc) == loop' = [loop EXCEPT ![e] = pc]

(* The select is entered: s.loginReady is read now, not when it was spawned.  *)
LoopEnter(e) ==
    /\ LoopAt(e, "spawned") /\ LoopTo(e, "login")
    /\ gate' = [gate EXCEPT ![e] = epoch]
    /\ UNCHANGED <<supVars, connVars, dev, stage, pendVars, event, netVars, cmd,
                   flags>>

(* Not the code: polling starts at once.                                      *)
LoopLoggedIn_NoGate(e) ==
    /\ LoopAt(e, "login") /\ LoopTo(e, "list")
    /\ UNCHANGED <<supVars, connVars, gate, dev, stage, pendVars, event, netVars, cmd, flags>>

LoopLoggedIn(e) ==
    /\ LoopAt(e, "login") /\ gate[e] \in loggedIn
    /\ LoopTo(e, "list")
    /\ UNCHANGED <<supVars, connVars, gate, dev, stage, pendVars, event, netVars,
                   cmd, flags>>

(* Not the code: the loop looks at its context between cycles only.           *)
LoopStop_NotAtLogin(e) ==
    /\ LoopAt(e, "sleep") /\ Done(e)
    /\ LoopTo(e, "exited")
    /\ UNCHANGED <<supVars, connVars, gate, dev, stage, pendVars, event, netVars, cmd, flags>>

LoopStop(e) ==
    /\ loop[e] \in {"login", "sleep"} /\ Done(e)
    /\ LoopTo(e, "exited")
    /\ UNCHANGED <<supVars, connVars, gate, dev, stage, pendVars, event, netVars,
                   cmd, flags>>

(* getConn and sendDeviceListRequest.                                         *)
LoopList(e) ==
    /\ LoopAt(e, "list")
    /\ \/ conn = 0 /\ LoopTo(e, "exited") /\ UNCHANGED <<netVars, event>>
       \/ /\ conn # 0 /\ Free # {}
          /\ \/ Sends(NextFree, conn, Req("list", e, 0, 0)) /\ LoopTo(e, "listWait")
             \/ SendFails(conn) /\ LoopTo(e, "listFailed") /\ UNCHANGED exch
    /\ UNCHANGED <<supVars, connVars, gate, dev, stage, pendVars, cmd, flags>>

(* sendDeviceListRequest swallows the error; the loop waits all the same.     *)
LoopListFailed(e) ==
    /\ LoopAt(e, "listFailed") /\ LoopTo(e, "listWait")
    /\ IF Done(e) THEN UNCHANGED event ELSE Raise
    /\ UNCHANGED <<supVars, connVars, gate, dev, stage, pendVars, netVars, cmd,
                   flags>>

(* The wait for the device list returns: an error ends the loop, an answer of *)
(* another type ends the cycle.                                               *)
LoopListReturns(e) ==
    /\ LoopAt(e, "listWait") /\ P!Leave(e)
    /\ \/ answer[e] = Failed /\ LoopTo(e, "exited") /\ UNCHANGED dev
       \/ /\ answer[e] # Failed /\ answer[e].kind # "list"
          /\ LoopTo(e, "sleep") /\ UNCHANGED dev
       \/ /\ answer[e] # Failed /\ answer[e].kind = "list"
          /\ LoopTo(e, "device") /\ dev' = [dev EXCEPT ![e] = 1]
    /\ UNCHANGED <<supVars, connVars, gate, stage, adrift, event, netVars, cmd, flags>>

(* Not the code: the current device is set once.                              *)
LoopDevice_SetOnce(e) ==
    /\ LoopAt(e, "device") /\ LoopTo(e, "register")
    /\ device' = IF device = None THEN <<e, dev[e]>> ELSE device
    /\ stage' = [stage EXCEPT ![e] = 1]
    /\ UNCHANGED <<supVars, conn, token, loggedIn, cancelled, cancelFn, stale, gate,
                   dev, pendVars, event, netVars, cmd, flags>>

(* queryDevices: the device becomes the current one.                          *)
LoopDevice(e) ==
    /\ LoopAt(e, "device") /\ LoopTo(e, "register")
    /\ device' = <<e, dev[e]>>
    /\ stage' = [stage EXCEPT ![e] = 1]
    /\ UNCHANGED <<supVars, conn, token, loggedIn, cancelled, cancelFn, stale, gate,
                   dev, pendVars, event, netVars, cmd, flags>>

(* publisher.RegisterDevice returns, with or without an error.                *)
LoopRegister(e) ==
    /\ LoopAt(e, "register") /\ LoopTo(e, "query")
    /\ \/ UNCHANGED event
       \/ "publisher" \in Faults /\ ~Done(e) /\ Raise
    /\ UNCHANGED <<supVars, connVars, gate, dev, stage, pendVars, netVars, cmd,
                   flags>>

EndCycle(e) ==
    /\ LoopTo(e, "sleep")
    /\ dev' = [dev EXCEPT ![e] = 0]
    /\ stage' = [stage EXCEPT ![e] = 0]

(* getConn and sendQueryRequest for the device and stage.                     *)
LoopQuery(e) ==
    /\ LoopAt(e, "query")
    /\ \/ conn = 0 /\ EndCycle(e) /\ UNCHANGED <<netVars, event>>
       \/ /\ conn # 0 /\ Free # {}
          /\ \/ Sends(NextFree, conn, Req("data", e, dev[e], stage[e])) /\ LoopTo(e, "dataWait")
             \/ SendFails(conn) /\ LoopTo(e, "dataFailed") /\ UNCHANGED exch
          /\ UNCHANGED <<dev, stage>>
    /\ UNCHANGED <<supVars, connVars, gate, pendVars, cmd, flags>>

LoopQueryFailed(e) ==
    /\ LoopAt(e, "dataFailed") /\ EndCycle(e)
    /\ IF Done(e) THEN UNCHANGED event ELSE Raise
    /\ UNCHANGED <<supVars, connVars, gate, pendVars, netVars, cmd, flags>>

(* The wait for a stage returns: any answer will do, an error ends the cycle. *)
LoopQueryReturns(e) ==
    /\ LoopAt(e, "dataWait") /\ P!Leave(e)
    /\ \/ answer[e] = Failed /\ EndCycle(e)
       \/ /\ answer[e] # Failed /\ stage[e] < NumStages
          /\ LoopTo(e, "query") /\ stage' = [stage EXCEPT ![e] = @ + 1] /\ UNCHANGED dev
       \/ /\ answer[e] # Failed /\ stage[e] = NumStages /\ dev[e] < NumDevices
          /\ LoopTo(e, "device") /\ dev' = [dev EXCEPT ![e] = @ + 1] /\ UNCHANGED stage
       \/ answer[e] # Failed /\ stage[e] = NumStages /\ dev[e] = NumDevices /\ EndCycle(e)
    /\ UNCHANGED <<supVars, connVars, gate, adrift, event, netVars, cmd, flags>>

(* The poll interval is over.                                                 *)
LoopTick(e) ==
    /\ LoopAt(e, "sleep") /\ LoopTo(e, "list")
    /\ UNCHANGED <<supVars, connVars, gate, dev, stage, pendVars, event, netVars,
                   cmd, flags>>
-----------------------------------------------------------------------------
(* An inverter command of the HTTP server.  s.conn is read twice, without     *)
(* connMu: for the nil check and for the Send.                                *)

CmdTo(k, pc) == cmd' = [cmd EXCEPT ![k] = pc]

CmdCheck(k) ==
    /\ cmd[k] = "idle"
    /\ CmdTo(k, IF conn = 0 THEN "done" ELSE "send")
    /\ UNCHANGED <<supVars, connVars, loopVars, pendVars, event, netVars, flags>>

CmdSend(k) ==
    /\ cmd[k] = "send"
    /\ \/ /\ conn = 0
          /\ panic' = "nil pointer"
          /\ UNCHANGED <<cmd, netVars, event>>
       \/ /\ conn # 0 /\ Free # {}
          /\ \/ Sends(NextFree, conn, Req("param", k, 0, 0)) /\ CmdTo(k, "wait")
             \/ SendFails(conn) /\ CmdTo(k, "done") /\ UNCHANGED exch
          /\ UNCHANGED panic
    /\ UNCHANGED <<supVars, connVars, loopVars, pendVars, ctxDone>>

CmdReturns(k) ==
    /\ cmd[k] = "wait" /\ P!Leave(k)
    /\ CmdTo(k, "done")
    /\ UNCHANGED <<supVars, connVars, loopVars, adrift, event, netVars, flags>>
-----------------------------------------------------------------------------
Supervise ==
    \/ Check \/ CancelPoll \/ FetchProperties \/ CloseOld \/ DialFails \/ DialSucceeds \/ Install
    \/ StartPoll \/ ConnectReturns \/ ConnectFails \/ BackoffElapses \/ TakeEvent \/ SeeDone

Handle(i) ==
    \/ Greet(i) \/ HandleConnect(i) \/ HandleLogin(i) \/ HandleExpired(i) \/ HandleError(i)
    \/ Publish(i) \/ Deliver(i) \/ FinishDeliver(i)

Poll(e) ==
    \/ LoopEnter(e) \/ LoopLoggedIn(e) \/ LoopStop(e) \/ LoopList(e) \/ LoopListFailed(e)
    \/ LoopListReturns(e) \/ LoopDevice(e) \/ LoopRegister(e) \/ LoopQuery(e)
    \/ LoopQueryFailed(e) \/ LoopQueryReturns(e) \/ LoopTick(e)

Next ==
    /\ panic = "none"
    /\ \/ Supervise
       \/ Shutdown
       \/ \E e \in Epoch : Break(e) \/ Notice(e) \/ Poll(e)
       \/ \E i \in Id : Receive(i) \/ NoAnswer(i) \/ Handle(i)
       \/ \E w \in Waiter : Wait(w) \/ GetAnswer(w) \/ GiveUp(w)
       \/ \E k \in Command : CmdCheck(k) \/ CmdSend(k) \/ CmdReturns(k)

Spec == Init /\ [][Next]_vars

(* Goroutines are scheduled; timers fire; Go's select picks every case that   *)
(* is ready again and again sooner or later (the strong fairness); a lost     *)
(* connection is noticed by a read or by the 8 s ping, whose goroutines live  *)
(* as long as the context.  The properties fetch and the dial have no         *)
(* timeout: they are only sure to end once the context is cancelled.  A       *)
(* request is answered, or never will be.  Strong fairness of a poll loop and *)
(* of CmdSend makes up for the bound MaxFlight, which the code does not have: *)
(* a sender that finds the pool full is not passed over for ever.             *)
(* LingeringFairness asks this of cancelled poll loops only; a property that  *)
(* needs only a part of the fairness names it.                                *)
Running(A) == panic = "none" /\ A

SupervisorFairness ==
    /\ WF_vars(Running(sup \notin {"fetch", "dial"} /\ Supervise))
    /\ WF_vars(Running(ctxDone /\ (FetchProperties \/ DialFails)))
    /\ \A e \in Epoch : WF_vars(Running(~ctxDone /\ Notice(e)))

PollFairness ==
    /\ \A e \in Epoch : SF_vars(Running(Poll(e))) /\ SF_vars(Running(LoopStop(e)))
    /\ \A i \in Id : WF_vars(Running(Receive(i) \/ NoAnswer(i) \/ Handle(i)))
    /\ \A w \in Waiter : WF_vars(Running(Wait(w) \/ GiveUp(w)))

LingeringFairness ==
    /\ SF_vars(Running(\E e \in cancelled : Poll(e)))
    /\ SF_vars(Running(\E e \in cancelled : LoopStop(e)))
    /\ WF_vars(Running(\E w \in cancelled : Wait(w) \/ GiveUp(w)))
    /\ \A i \in Id : WF_vars(Running(Receive(i) \/ NoAnswer(i) \/ Handle(i)))

CommandFairness ==
    \A k \in Command : SF_vars(Running(CmdSend(k))) /\ WF_vars(Running(CmdReturns(k)))

FairSpec == Spec /\ SupervisorFairness /\ PollFairness /\ CommandFairness
-----------------------------------------------------------------------------
SupOK ==
    /\ sup \in {"top", "begin", "fetch", "close", "dial", "install", "start", "return",
                "failed", "backoff", "session", "stopped"}
    /\ fails \in 0..MaxFails
    /\ health \in {"starting", "reconnecting", "connected", "disconnected"}
    /\ epoch \in 0..MaxEpoch
    /\ props \in BOOLEAN

SignalOK ==
    /\ event \in BOOLEAN
    /\ ctxDone \in BOOLEAN
    /\ panic \in {"none", "closed channel", "nil pointer", "index out of range", "nil number"}

ConnOK ==
    /\ conn \in 0..MaxEpoch
    /\ token \in 0..MaxEpoch
    /\ loggedIn \subseteq Epoch
    /\ cancelled \subseteq Epoch
    /\ cancelFn \in 0..MaxEpoch
    /\ device \in (Epoch \X (0..NumDevices)) \cup {None}
    /\ stale \subseteq Epoch

SockOK == sock \in [Epoch -> {"none", "open", "broken", "closed"}]

LoopOK ==
    /\ loop \in [Epoch -> {"none", "spawned", "login", "list", "listFailed", "listWait", "device",
                           "register", "query", "dataFailed", "dataWait", "sleep", "exited"}]
    /\ gate \in [Epoch -> 0..MaxEpoch]
    /\ dev \in [Epoch -> 0..NumDevices]
    /\ stage \in [Epoch -> 0..NumStages]

CmdOK == cmd \in [Command -> {"idle", "send", "wait", "done"}]

ExchOK == exch \in [Id -> Exchange \cup {None}]

SlotOK == P!PendingTypeOK /\ adrift \subseteq Waiter

(* Every variable keeps to its type: the counters stay within their limits,   *)
(* the pending slot names a caller, and every exchange is one of a Connect.   *)
TypeOK == SupOK /\ SignalOK /\ ConnOK /\ SockOK /\ LoopOK /\ CmdOK /\ ExchOK /\ SlotOK

Live(e) == sock[e] \in {"open", "broken"}
Polls(e) == loop[e] \notin {"none", "exited"}

(* However often the session is replaced, at most one websocket is up: the    *)
(* old one is closed before the new one is dialled (winet.go, reconnect).     *)
OneConnection == \A a, b \in Epoch : Live(a) /\ Live(b) => a = b

(* Poll loops of older sessions may linger, but at most one is not cancelled  *)
(* (winet.go, Connect: cancelPoll; poller.go, "no goroutine accumulation").   *)
OnePollLoop == \A a, b \in Epoch : Polls(a) /\ Polls(b) /\ ~Done(a) /\ ~Done(b) => a = b

(* While /health answers "connected" there is a connection to send on, that   *)
(* of the last Connect: a command is then never refused for want of one.      *)
ConnectedMeansConn == health = "connected" => conn = epoch /\ conn # 0 /\ sock[conn] # "none"

(* Connect and reconnect opened up into their steps, with the poll loops,     *)
(* handlers and commands around them, still act as Supervisor says: failures  *)
(* counted, health set and events served in its order (cmd.go,                *)
(* startWinetService).                                                        *)
InConnect == {"begin", "fetch", "close", "dial", "install", "start", "return", "failed"}
SupPhase == IF sup \in InConnect THEN "connect" ELSE sup
Abstract == INSTANCE Supervisor WITH sup <- SupPhase
ActsAsSupervisor == Abstract!SupInit /\ [][Abstract!SupNext]_Abstract!supVars

(* Every connection the session makes behaves as Link says, which Conn keeps:  *)
(* opened once, closed because reconnect asked for it or with a signal        *)
(* (winet.go, reconnect and onError; sockets.go).                             *)
Connection(e) == INSTANCE Link WITH
    link <- sock[e], asked <- (sup = "close" /\ conn = e), quit <- ctxDone
ConnectionsAreLinks ==
    /\ \A e \in Epoch : Connection(e)!LinkInit
    /\ [][\A e \in Epoch : [Connection(e)!LinkNext]_(Connection(e)!linkVars)]_vars

(* The login handler closes a loginReady that is closed already only in an    *)
(* epoch in which a login message of a session before was handled (login.go,  *)
(* handleLoginMessage); a command finds s.conn nil only while the health does *)
(* not say "connected" (inverter_commands.go).                                *)
ClosedOnce == panic = "closed channel" => epoch \in stale
NilWhileAway == panic = "nil pointer" => health # "connected"

(* A poll loop in service takes from the slot the answer to the request it    *)
(* sent last, not to an earlier one, as long as it has not given up on an     *)
(* answer that was still to come nor taken that of another caller: these two  *)
(* are the only ways to a wrong answer (winet.go, pendingCmd).                *)
RightAnswer ==
    \A e \in Epoch : ~Done(e) /\ e \notin adrift /\ answer[e] \notin {None, Failed} =>
        \/ loop[e] = "listWait" /\ answer[e] = Req("list", e, 0, 0)
        \/ loop[e] = "dataWait" /\ answer[e] = Req("data", e, dev[e], stage[e])

(* Data that such a poll loop asked for is published under the device it was  *)
(* asked of, although the handler looks the device up only when the answer is *)
(* in, unless a cancelled loop that still lingers has set the device since    *)
(* (real.go, handleRealMessage; poller.go, queryDevices).                     *)
DataUnderItsDevice ==
    [][\A i \in Id : At(i, "arrived") /\ exch[i].req.kind = "data" /\ exch'[i] # exch[i] =>
          LET r == exch[i].req IN
            \/ Done(r.owner) \/ r.owner \in adrift
            \/ device = <<r.owner, r.dev>>
            \/ device \in cancelled \X (0..NumDevices)]_vars

(* The requests of a poll loop in service go out on the connection it was     *)
(* started for, with the token that connection's handshake issued; the token  *)
(* may be another one only if a login message of a session before was handled *)
(* since Connect began (login.go; poller.go).                                 *)
PollsOwnSession ==
    [][\A i \in Id : exch[i] = None /\ exch'[i] # None /\ exch'[i].req.kind \in {"list", "data"} =>
          LET e == exch'[i].req.owner IN
            ~Done(e) => exch'[i].conn = e /\ (token = e \/ e \in stale)]_vars

(* The same without the exception, which the code does not keep: a poll loop  *)
(* in service is past its gate only when its own session has logged in        *)
(* (winet.go:302).                                                            *)
PollsLoggedIn ==
    \A e \in Epoch : Polls(e) /\ ~Done(e) /\ loop[e] \notin {"spawned", "login"} => token = e

(* RightAnswer without its exception, which the code does not keep: no poll   *)
(* loop in service takes the answer to an earlier request (winet.go:32).      *)
AnswersInTurn ==
    \A e \in Epoch : ~Done(e) /\ answer[e] \notin {None, Failed} =>
        answer[e].kind = IF loop[e] = "listWait" THEN "list" ELSE "data"

(* A poll loop ends only when it is cancelled.                                *)
StopsOnlyWhenCancelled == \A e \in Epoch : loop[e] = "exited" => Done(e)

(* No command uses s.conn after a reconnect has set it to nil.                *)
NoNilConnection == panic # "nil pointer"

(* As long as Connect keeps returning, a lost connection is replaced by one   *)
(* that is open and in service, or the service stops, or the process is gone; *)
(* at MaxEpoch the model ends at the top of the loop.  That failing Connects, *)
(* however many MaxFails allows, lead back to a session or to the end is      *)
(* ReconnectingEnds of Process (cmd.go, startWinetService; winet.go, onError).*)
LostIsReplaced ==
    SupervisorFairness /\ []<>(sup \notin {"fetch", "dial"}) =>
        (conn # 0 /\ sock[conn] = "broken" ~>
            \/ sup = "session" /\ sock[conn] = "open"
            \/ sup = "stopped" \/ panic # "none" \/ (sup = "top" /\ epoch = MaxEpoch))

(* The goroutines of cancelled poll loops end, wherever they are when they    *)
(* are cancelled: none accumulate (poller.go:26).                             *)
CancelledLoopsEnd ==
    LingeringFairness =>
        ((\E e \in cancelled : Polls(e)) ~> (\A e \in cancelled : ~Polls(e)) \/ panic # "none")

(* After shutdown everything winds down: the supervisor returns, the poll     *)
(* loop ends and no command is left waiting for an answer.                    *)
ShutdownQuiesces ==
    ctxDone ~> \/ panic # "none"
               \/ /\ sup = "stopped"
                  /\ \A e \in Epoch : ~Polls(e)
                  /\ \A w \in Waiter : phase[w] = "idle"
=============================================================================
