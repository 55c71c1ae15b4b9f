------------------------- MODULE WinetSession_proofs -------------------------
(* What holds of the session for any number of reconnects, devices, stages,   *)
(* commands and faults, whether sessions overlap or not.                      *)
EXTENDS WinetSession, TLAPS

SupState == {"top", "begin", "fetch", "close", "dial", "install", "start", "return",
             "failed", "backoff", "session", "stopped"}
SockState == {"none", "open", "broken", "closed"}

(* What the inductive invariant needs of the types.                           *)
Shape ==
    /\ sup \in SupState
    /\ epoch \in 0..MaxEpoch
    /\ sup = "begin" => epoch < MaxEpoch
    /\ conn \in 0..MaxEpoch
    /\ cancelFn \in 0..MaxEpoch
    /\ sock \in [Epoch -> SockState]
    /\ loop = [e \in Epoch |-> loop[e]]

(* Only s.conn is up, except between a successful dial and its installation,  *)
(* when only the new connection is.                                           *)
ConnInv ==
    /\ \A e \in Epoch : Live(e) => e = conn \/ (sup = "install" /\ e = epoch)
    /\ sup \in {"dial", "install"} => conn = 0
    /\ sup \in {"fetch", "close", "dial", "install", "start", "return"} => epoch # 0
    /\ sup = "install" => sock[epoch] # "none"

(* The only poll loop that is not cancelled is the one s.cancelPoll cancels,  *)
(* and while Connect works there is none.                                     *)
PollInv ==
    /\ \A e \in Epoch : Polls(e) /\ e \notin cancelled => e = cancelFn
    /\ sup \in {"fetch", "close", "dial", "install", "start"} => cancelFn = 0

(* The connection of the last Connect is installed from "start" on, and stays *)
(* so while the health says "connected".                                      *)
HealthInv ==
    /\ sup \in {"start", "return", "session"} \/ health = "connected"
         => conn = epoch /\ conn # 0 /\ sock[conn] # "none"
    /\ health = "connected" => sup \in {"session", "top"}

SessionInv == Shape /\ ConnInv /\ PollInv /\ HealthInv

-----------------------------------------------------------------------------
(* What every goroutine but the supervisor's does to this part of the state:  *)
(* it may lose or close a connection and end its own poll loop.               *)
Gentle ==
    /\ UNCHANGED <<sup, health, epoch, conn, cancelled, cancelFn>>
    /\ sock' \in [Epoch -> SockState]
    /\ \A e \in Epoch : (Live(e)' => Live(e)) /\ (sock[e] # "none" => sock'[e] # "none")
    /\ loop' = [e \in Epoch |-> loop'[e]]
    /\ \A e \in Epoch : Polls(e)' => Polls(e)

LEMMA GentleKeepsInv ==
  ASSUME SessionInv, Gentle
  PROVE  SessionInv'
<1> USE SessionAssumption DEF Epoch
<1>1. Shape'
  BY DEF SessionInv, Shape, Gentle
<1>2. ConnInv'
  <2>1. \A e \in Epoch : Live(e)' => e = conn' \/ (sup' = "install" /\ e = epoch')
    BY DEF SessionInv, ConnInv, Gentle
  <2>2. sup' = "install" => sock'[epoch'] # "none"
    BY DEF SessionInv, Shape, ConnInv, Gentle
  <2> QED
    BY <2>1, <2>2 DEF SessionInv, ConnInv, Gentle
<1>3. PollInv'
  BY DEF SessionInv, PollInv, Gentle
<1>4. HealthInv'
  BY DEF SessionInv, Shape, HealthInv, Gentle
<1> QED
  BY <1>1, <1>2, <1>3, <1>4 DEF SessionInv

(* A Send, failed or not, is gentle.                                          *)
LEMMA SendIsGentle ==
  ASSUME Shape, NEW c, SendFails(c)
  PROVE  /\ sock' \in [Epoch -> SockState]
         /\ \A e \in Epoch : (Live(e)' => Live(e)) /\ (sock[e] # "none" => sock'[e] # "none")
BY DEF Shape, SockState, SendFails, Live

(* Connections and message handlers.                                          *)
LEMMA HandlersAreGentle ==
  ASSUME Shape,
         \/ Shutdown
         \/ \E e \in Epoch : Break(e) \/ Notice(e)
         \/ \E i \in Id : Receive(i) \/ NoAnswer(i) \/ Handle(i)
  PROVE  Gentle
<1> USE DEF Shape, Gentle, Live, Polls, supVars, connVars, loopVars, netVars
<1>1. CASE Shutdown
  BY <1>1 DEF Shutdown
<1>2. ASSUME NEW e \in Epoch, Break(e) PROVE Gentle
  BY <1>2 DEF Break, SockState, Live
<1>3. ASSUME NEW e \in Epoch, Notice(e) PROVE Gentle
  BY <1>3 DEF Notice, SockState, Live
<1>4. ASSUME NEW i \in Id, Receive(i) PROVE Gentle
  BY <1>4 DEF Receive
<1>5. ASSUME NEW i \in Id, NoAnswer(i) PROVE Gentle
  BY <1>5 DEF NoAnswer
<1>6. ASSUME NEW i \in Id, Handle(i) PROVE Gentle
  <2>1. CASE Greet(i)
    <3>1. CASE SendFails(exch[i].conn)
      BY <2>1, <3>1, SendIsGentle DEF Greet
    <3> QED
      BY <2>1, <3>1 DEF Greet, Sends
  <2>2. CASE HandleConnect(i)
    <3>1. CASE SendFails(exch[i].conn)
      BY <2>2, <3>1, SendIsGentle DEF HandleConnect
    <3> QED
      BY <2>2, <3>1 DEF HandleConnect, Sends
  <2>3. CASE HandleLogin(i)
    BY <2>3 DEF HandleLogin
  <2>4. CASE HandleExpired(i)
    BY <2>4 DEF HandleExpired
  <2>5. CASE HandleError(i)
    BY <2>5 DEF HandleError
  <2>6. CASE Publish(i)
    BY <2>6 DEF Publish
  <2>7. CASE Deliver(i)
    BY <2>7 DEF Deliver
  <2>8. CASE FinishDeliver(i)
    BY <2>8 DEF FinishDeliver
  <2> QED
    BY <1>6, <2>1, <2>2, <2>3, <2>4, <2>5, <2>6, <2>7, <2>8 DEF Handle
<1> QED
  BY <1>1, <1>2, <1>3, <1>4, <1>5, <1>6

(* A poll loop that moves on was running.                                     *)
LEMMA MovingOnIsGentle ==
  ASSUME Shape, NEW e \in Epoch, Polls(e), NEW pc, LoopTo(e, pc)
  PROVE  /\ loop' = [f \in Epoch |-> loop'[f]]
         /\ \A f \in Epoch : Polls(f)' => Polls(f)
BY DEF Shape, Polls, LoopTo

(* Poll loops.                                                                *)
LEMMA PollLoopsAreGentle ==
  ASSUME Shape, NEW e \in Epoch, Poll(e)
  PROVE  Gentle
<1>1. Polls(e)
  BY DEF Poll, Polls, LoopAt, LoopEnter, LoopLoggedIn, LoopStop, LoopList, LoopListFailed,
         LoopListReturns, LoopDevice, LoopRegister, LoopQuery, LoopQueryFailed,
         LoopQueryReturns, LoopTick
<1>2. PICK pc : LoopTo(e, pc)
  BY DEF Poll, EndCycle, LoopEnter, LoopLoggedIn, LoopStop, LoopList, LoopListFailed,
         LoopListReturns, LoopDevice, LoopRegister, LoopQuery, LoopQueryFailed,
         LoopQueryReturns, LoopTick
<1>3. UNCHANGED <<sup, health, epoch, conn, cancelled, cancelFn>>
  BY DEF Poll, LoopEnter, LoopLoggedIn, LoopStop, LoopList, LoopListFailed,
         LoopListReturns, LoopDevice, LoopRegister, LoopQuery, LoopQueryFailed,
         LoopQueryReturns, LoopTick, supVars, connVars
<1>4. sock' = sock \/ SendFails(conn)
  BY DEF Poll, Sends, LoopEnter, LoopLoggedIn, LoopStop, LoopList, LoopListFailed,
         LoopListReturns, LoopDevice, LoopRegister, LoopQuery, LoopQueryFailed,
         LoopQueryReturns, LoopTick, netVars
<1>5. /\ sock' \in [Epoch -> SockState]
      /\ \A f \in Epoch : (Live(f)' => Live(f)) /\ (sock[f] # "none" => sock'[f] # "none")
  BY <1>4, SendIsGentle DEF Shape, Live
<1> QED
  BY <1>1, <1>2, <1>3, <1>5, MovingOnIsGentle DEF Gentle

(* Callers of wait and commands.                                              *)
LEMMA CommandsAreGentle ==
  ASSUME Shape,
         \/ \E w \in Waiter : Wait(w) \/ GetAnswer(w) \/ GiveUp(w)
         \/ \E k \in Command : CmdCheck(k) \/ CmdSend(k) \/ CmdReturns(k)
  PROVE  Gentle
<1> USE DEF Shape, Gentle, Live, Polls, supVars, connVars, loopVars, netVars
<1>1. ASSUME NEW w \in Waiter, Wait(w) \/ GetAnswer(w) \/ GiveUp(w) PROVE Gentle
  BY <1>1 DEF Wait, GetAnswer, GiveUp
<1>2. ASSUME NEW k \in Command, CmdCheck(k) \/ CmdReturns(k) PROVE Gentle
  BY <1>2 DEF CmdCheck, CmdReturns
<1>3. ASSUME NEW k \in Command, CmdSend(k) PROVE Gentle
  <2>1. CASE SendFails(conn)
    BY <1>3, <2>1, SendIsGentle DEF CmdSend
  <2> QED
    BY <1>3, <2>1 DEF CmdSend, Sends
<1> QED
  BY <1>1, <1>2, <1>3
-----------------------------------------------------------------------------
(* The supervisor's own steps.                                                *)
LEMMA SupervisorKeepsInv ==
  ASSUME SessionInv, Supervise
  PROVE  SessionInv'
<1> USE SessionAssumption
    DEF Epoch, SessionInv, Shape, ConnInv, PollInv, HealthInv, Live, Polls, SupState, SockState,
        supVars, connVars, loopVars, netVars
<1>1. CASE Check
  BY <1>1 DEF Check
<1>2. CASE CancelPoll
  BY <1>2 DEF CancelPoll
<1>3. CASE FetchProperties
  BY <1>3 DEF FetchProperties
<1>4. CASE CloseOld
  BY <1>4 DEF CloseOld
<1>5. CASE DialFails
  BY <1>5 DEF DialFails
<1>6. CASE DialSucceeds
  BY <1>6 DEF DialSucceeds
<1>7. CASE Install
  BY <1>7 DEF Install
<1>8. CASE StartPoll
  <2>1. epoch \in 1..MaxEpoch /\ conn' = conn /\ sock' = sock /\ epoch' = epoch
    BY <1>8 DEF StartPoll
  <2>2. Shape'
    BY <1>8 DEF StartPoll
  <2>3. ConnInv'
    BY <1>8, <2>1 DEF StartPoll
  <2>4. PollInv'
    BY <1>8, <2>1 DEF StartPoll
  <2>5. HealthInv'
    BY <1>8, <2>1 DEF StartPoll
  <2> QED
    BY <2>2, <2>3, <2>4, <2>5
<1>9. CASE ConnectReturns
  BY <1>9 DEF ConnectReturns
<1>10. CASE ConnectFails
  BY <1>10 DEF ConnectFails
<1>11. CASE BackoffElapses
  BY <1>11 DEF BackoffElapses
<1>12. CASE TakeEvent
  BY <1>12 DEF TakeEvent
<1>13. CASE SeeDone
  BY <1>13 DEF SeeDone
<1> QED
  BY <1>1, <1>2, <1>3, <1>4, <1>5, <1>6, <1>7, <1>8, <1>9, <1>10, <1>11, <1>12, <1>13
     DEF Supervise

LEMMA SessionInvInvariant == Spec => []SessionInv
<1>1. Init => SessionInv
  BY SessionAssumption DEF Init, SessionInv, Shape, ConnInv, PollInv, HealthInv, Live, Polls,
                           SupState, SockState, Epoch
<1>2. SessionInv /\ [Next]_vars => SessionInv'
  <2> SUFFICES ASSUME SessionInv, [Next]_vars
               PROVE  SessionInv'
    OBVIOUS
  <2>1. CASE Supervise
    BY <2>1, SupervisorKeepsInv
  <2>2. CASE Next /\ ~Supervise
    <3>1. Shape
      BY DEF SessionInv
    <3>2. ASSUME NEW e \in Epoch, Poll(e) PROVE Gentle
      BY <3>1, <3>2, PollLoopsAreGentle
    <3>3. Gentle
      BY <2>2, <3>1, <3>2, HandlersAreGentle, CommandsAreGentle DEF Next
    <3> QED
      BY <3>3, GentleKeepsInv
  <2>3. CASE UNCHANGED vars
    <3>1. Gentle
      BY <2>3 DEF vars, supVars, connVars, loopVars, netVars, SessionInv, Shape, Gentle, Live, Polls
    <3> QED
      BY <3>1, GentleKeepsInv
  <2> QED
    BY <2>1, <2>2, <2>3
<1> QED
  BY <1>1, <1>2, PTL DEF Spec

(* However many times the session is replaced, and whatever old goroutines    *)
(* still run, there is at most one websocket to the device.                   *)
THEOREM AlwaysOneConnection == Spec => []OneConnection
<1>1. SessionInv => OneConnection
  BY DEF SessionInv, ConnInv, OneConnection, Epoch
<1> QED
  BY <1>1, SessionInvInvariant, PTL

(* At most one poll loop is not cancelled, however many linger.               *)
THEOREM AlwaysOnePollLoop == Spec => []OnePollLoop
<1>1. SessionInv => OnePollLoop
  BY DEF SessionInv, PollInv, OnePollLoop, Polls, Done
<1> QED
  BY <1>1, SessionInvInvariant, PTL

(* "connected" is only answered while s.conn is the connection of the last    *)
(* Connect.                                                                   *)
THEOREM AlwaysConnectedMeansConn == Spec => []ConnectedMeansConn
<1>1. SessionInv => ConnectedMeansConn
  BY DEF SessionInv, HealthInv, ConnectedMeansConn
<1> QED
  BY <1>1, SessionInvInvariant, PTL
-----------------------------------------------------------------------------
(* The session implements Supervisor.                                         *)

RefinesInv == sup \in SupState /\ event \in BOOLEAN

(* What every goroutine but the supervisor's does to the variables of         *)
(* Supervisor: at most it signals.                                            *)
Signals == UNCHANGED <<sup, fails, health, ctxDone>> /\ (event' = TRUE \/ event' = event)

LEMMA RaiseSignals ==
  ASSUME event \in BOOLEAN, Raise
  PROVE  event' = TRUE \/ event' = event
BY DEF Raise

LEMMA SendSignals ==
  ASSUME event \in BOOLEAN, NEW c, SendFails(c)
  PROVE  event' = TRUE \/ event' = event
BY RaiseSignals DEF SendFails

LEMMA OthersSignal ==
  ASSUME RefinesInv, Next, ~Supervise, ~Shutdown
  PROVE  Signals
<1> USE DEF RefinesInv, Signals, supVars, connVars, loopVars, netVars, flags
<1>1. ASSUME NEW e \in Epoch, Break(e) \/ Notice(e) PROVE Signals
  BY <1>1, RaiseSignals DEF Break, Notice
<1>2. ASSUME NEW e \in Epoch, Poll(e) PROVE Signals
  BY <1>2, RaiseSignals, SendSignals
     DEF Poll, Sends, LoopEnter, LoopLoggedIn, LoopStop, LoopList, LoopListFailed,
         LoopListReturns, LoopDevice, LoopRegister, LoopQuery, LoopQueryFailed,
         LoopQueryReturns, LoopTick
<1>3. ASSUME NEW i \in Id, Receive(i) \/ NoAnswer(i) PROVE Signals
  BY <1>3 DEF Receive, NoAnswer
<1>4. ASSUME NEW i \in Id, Handle(i) PROVE Signals
  BY <1>4, RaiseSignals, SendSignals
     DEF Handle, Sends, Greet, HandleConnect, HandleLogin, HandleExpired, HandleError, Publish,
         Deliver, FinishDeliver
<1>5. ASSUME NEW w \in Waiter, Wait(w) \/ GetAnswer(w) \/ GiveUp(w) PROVE Signals
  BY <1>5 DEF Wait, GetAnswer, GiveUp
<1>6. ASSUME NEW k \in Command, CmdCheck(k) \/ CmdSend(k) \/ CmdReturns(k) PROVE Signals
  BY <1>6, SendSignals DEF Sends, CmdCheck, CmdSend, CmdReturns
<1> QED
  BY <1>1, <1>2, <1>3, <1>4, <1>5, <1>6 DEF Next

(* Each step of the supervisor goroutine is the step of Supervisor with its   *)
(* name, or one inside Connect.                                               *)
LEMMA SupervisorRefines ==
  ASSUME RefinesInv, Supervise
  PROVE  [Abstract!SupNext]_Abstract!supVars /\ RefinesInv'
<1> USE DEF RefinesInv, SupState, SupPhase, InConnect, supVars, flags,
            Abstract!supVars, Abstract!SupNext, Abstract!SupStep
<1>1. CASE Check
  BY <1>1 DEF Check, Abstract!Check
<1>2. CASE CancelPoll
  BY <1>2 DEF CancelPoll
<1>3. CASE FetchProperties
  BY <1>3 DEF FetchProperties
<1>4. CASE CloseOld
  BY <1>4 DEF CloseOld
<1>5. CASE DialFails
  BY <1>5, RaiseSignals DEF DialFails, Raise, Abstract!Signal
<1>6. CASE DialSucceeds
  BY <1>6 DEF DialSucceeds
<1>7. CASE Install
  BY <1>7 DEF Install
<1>8. CASE StartPoll
  BY <1>8 DEF StartPoll
<1>9. CASE ConnectReturns
  BY <1>9 DEF ConnectReturns, Abstract!ConnectReturns
<1>10. CASE ConnectFails
  BY <1>10 DEF ConnectFails, Abstract!ConnectFails
<1>11. CASE BackoffElapses
  BY <1>11 DEF BackoffElapses, Abstract!BackoffElapses
<1>12. CASE TakeEvent
  BY <1>12 DEF TakeEvent, Abstract!TakeEvent
<1>13. CASE SeeDone
  BY <1>13 DEF SeeDone, Abstract!SeeDone
<1> QED
  BY <1>1, <1>2, <1>3, <1>4, <1>5, <1>6, <1>7, <1>8, <1>9, <1>10, <1>11, <1>12, <1>13
     DEF Supervise

(* With its reconnects taken apart and everything else running beside it, the *)
(* supervisor goroutine still does what Supervisor says (cmd.go,              *)
(* startWinetService).                                                        *)
THEOREM SessionImplementsSupervisor == Spec => ActsAsSupervisor
<1>1. Init => RefinesInv /\ Abstract!SupInit
  BY DEF Init, RefinesInv, SupState, SupPhase, InConnect, Abstract!SupInit
<1>2. RefinesInv /\ [Next]_vars => RefinesInv' /\ [Abstract!SupNext]_Abstract!supVars
  <2> SUFFICES ASSUME RefinesInv, [Next]_vars
               PROVE  RefinesInv' /\ [Abstract!SupNext]_Abstract!supVars
    OBVIOUS
  <2>1. CASE Supervise
    BY <2>1, SupervisorRefines
  <2>2. CASE Shutdown
    BY <2>2 DEF Shutdown, RefinesInv, SupPhase, supVars, Abstract!SupNext, Abstract!Shutdown
  <2>3. CASE Next /\ ~Supervise /\ ~Shutdown
    <3>1. Signals
      BY <2>3, OthersSignal
    <3> QED
      BY <3>1 DEF Signals, RefinesInv, SupPhase, Abstract!supVars, Abstract!SupNext, Abstract!Signal
  <2>4. CASE UNCHANGED vars
    BY <2>4 DEF vars, supVars, flags, RefinesInv, SupPhase, Abstract!supVars
  <2> QED
    BY <2>1, <2>2, <2>3, <2>4
<1> QED
  BY <1>1, <1>2, PTL DEF Spec, ActsAsSupervisor
-----------------------------------------------------------------------------
(* The session's connections are Links.                                       *)

(* A connection is new until its dial succeeds, and s.conn has been dialled.  *)
FreshInv ==
    /\ \A e \in Epoch : e > epoch \/ (e = epoch /\ sup \in {"fetch", "close", "dial"})
                           => sock[e] = "none"
    /\ conn # 0 => sock[conn] # "none"
    /\ event \in BOOLEAN /\ ctxDone \in BOOLEAN

LinkStep(e) ==
    \/ sock'[e] = sock[e]
    \/ sock[e] = "open" /\ sock'[e] = "broken" /\ UNCHANGED <<event, ctxDone>>
    \/ sock[e] = "broken" /\ sock'[e] = "closed" /\ Raise /\ UNCHANGED ctxDone

(* What every goroutine but the supervisor's does to the connections.         *)
LosesOnly ==
    /\ UNCHANGED <<sup, conn, epoch>>
    /\ event' \in BOOLEAN /\ ctxDone' \in BOOLEAN /\ (ctxDone => ctxDone')
    /\ \A e \in Epoch : LinkStep(e)

LEMMA SendLoses ==
  ASSUME Shape, FreshInv, NEW c, SendFails(c), UNCHANGED ctxDone
  PROVE  event' \in BOOLEAN /\ \A e \in Epoch : LinkStep(e)
BY DEF Shape, FreshInv, SendFails, Raise, LinkStep

LEMMA SendKeepsLinks ==
  ASSUME FreshInv, NEW i, NEW c, NEW r, Sends(i, c, r)
  PROVE  event' \in BOOLEAN /\ \A e \in Epoch : LinkStep(e)
BY DEF FreshInv, Sends, LinkStep

LEMMA OthersLoseOnly ==
  ASSUME Shape, FreshInv, Next, ~Supervise
  PROVE  LosesOnly
<1> USE DEF LosesOnly, supVars, connVars, loopVars, netVars, flags
<1>0. FreshInv => event \in BOOLEAN /\ ctxDone \in BOOLEAN
  BY DEF FreshInv
<1>1. ASSUME NEW e \in Epoch, Break(e) PROVE LosesOnly
  BY <1>0, <1>1 DEF Shape, Break, LinkStep
<1>2. ASSUME NEW e \in Epoch, Notice(e) PROVE LosesOnly
  BY <1>0, <1>2 DEF Shape, Notice, LinkStep, Raise
<1>3. CASE Shutdown
  BY <1>0, <1>3 DEF Shutdown, LinkStep
<1>4. ASSUME NEW i \in Id, Receive(i) \/ NoAnswer(i) PROVE LosesOnly
  BY <1>0, <1>4 DEF Receive, NoAnswer, LinkStep
<1>5. ASSUME NEW i \in Id, Handle(i) PROVE LosesOnly
  <2>1. CASE Greet(i)
    BY <1>0, <2>1, SendLoses, SendKeepsLinks DEF Greet, LinkStep
  <2>2. CASE HandleConnect(i)
    BY <1>0, <2>2, SendLoses, SendKeepsLinks DEF HandleConnect, LinkStep
  <2>3. CASE HandleLogin(i) \/ Deliver(i) \/ FinishDeliver(i)
    BY <1>0, <2>3 DEF HandleLogin, Deliver, FinishDeliver, LinkStep
  <2>4. CASE HandleExpired(i) \/ HandleError(i) \/ Publish(i)
    BY <1>0, <2>4 DEF HandleExpired, HandleError, Publish, LinkStep, Raise
  <2> QED
    BY <1>5, <2>1, <2>2, <2>3, <2>4 DEF Handle
<1>6. ASSUME NEW e \in Epoch, Poll(e) PROVE LosesOnly
  <2>1. UNCHANGED <<sup, conn, epoch, ctxDone>>
    BY <1>6 DEF Poll, LoopEnter, LoopLoggedIn, LoopStop, LoopList, LoopListFailed,
           LoopListReturns, LoopDevice, LoopRegister, LoopQuery, LoopQueryFailed,
           LoopQueryReturns, LoopTick
  <2>2. \/ sock' = sock /\ (event' = event \/ Raise)
        \/ SendFails(conn)
    BY <1>6 DEF Poll, Sends, LoopEnter, LoopLoggedIn, LoopStop, LoopList, LoopListFailed,
           LoopListReturns, LoopDevice, LoopRegister, LoopQuery, LoopQueryFailed,
           LoopQueryReturns, LoopTick
  <2> QED
    BY <1>0, <2>1, <2>2, SendLoses DEF LinkStep, Raise
<1>7. ASSUME NEW w \in Waiter, Wait(w) \/ GetAnswer(w) \/ GiveUp(w) PROVE LosesOnly
  BY <1>0, <1>7 DEF Wait, GetAnswer, GiveUp, LinkStep
<1>8. ASSUME NEW k \in Command, CmdCheck(k) \/ CmdReturns(k) PROVE LosesOnly
  BY <1>0, <1>8 DEF CmdCheck, CmdReturns, LinkStep
<1>9. ASSUME NEW k \in Command, CmdSend(k) PROVE LosesOnly
  BY <1>0, <1>9, SendLoses, SendKeepsLinks DEF CmdSend, LinkStep
<1> QED
  BY <1>1, <1>2, <1>3, <1>4, <1>5, <1>6, <1>7, <1>8, <1>9 DEF Next

LEMMA SupervisorKeepsFresh ==
  ASSUME SessionInv, FreshInv, Supervise
  PROVE  FreshInv'
<1> USE SessionAssumption
    DEF Epoch, SessionInv, Shape, ConnInv, FreshInv, SupState, SockState,
        supVars, connVars, netVars, flags, Raise
<1>1. CASE Check BY <1>1 DEF Check
<1>2. CASE CancelPoll BY <1>2 DEF CancelPoll
<1>3. CASE FetchProperties BY <1>3 DEF FetchProperties
<1>4. CASE CloseOld BY <1>4 DEF CloseOld
<1>5. CASE DialFails BY <1>5 DEF DialFails
<1>6. CASE DialSucceeds BY <1>6 DEF DialSucceeds
<1>7. CASE Install BY <1>7 DEF Install
<1>8. CASE StartPoll BY <1>8 DEF StartPoll
<1>9. CASE ConnectReturns BY <1>9 DEF ConnectReturns
<1>10. CASE ConnectFails BY <1>10 DEF ConnectFails
<1>11. CASE BackoffElapses BY <1>11 DEF BackoffElapses
<1>12. CASE TakeEvent BY <1>12 DEF TakeEvent
<1>13. CASE SeeDone BY <1>13 DEF SeeDone
<1> QED
  BY <1>1, <1>2, <1>3, <1>4, <1>5, <1>6, <1>7, <1>8, <1>9, <1>10, <1>11, <1>12, <1>13
     DEF Supervise

LEMMA FreshInvariant == Spec => []FreshInv
<1>1. Init => FreshInv
  <2> SUFFICES ASSUME Init PROVE FreshInv
    OBVIOUS
  <2>1. sock = [e \in Epoch |-> "none"] /\ conn = 0 /\ event = FALSE /\ ctxDone = FALSE
    BY DEF Init
  <2> QED
    BY <2>1 DEF FreshInv
<1>2. SessionInv /\ FreshInv /\ [Next]_vars => FreshInv'
  <2> SUFFICES ASSUME SessionInv, FreshInv, [Next]_vars PROVE FreshInv'
    OBVIOUS
  <2>1. CASE Supervise
    BY <2>1, SupervisorKeepsFresh
  <2>2. CASE Next /\ ~Supervise
    <3>1. LosesOnly
      BY <2>2, OthersLoseOnly DEF SessionInv
    <3>2. conn \in 0..MaxEpoch
      BY DEF SessionInv, Shape
    <3> QED
      BY <3>1, <3>2, SessionAssumption DEF LosesOnly, LinkStep, FreshInv, Epoch
  <2>3. CASE UNCHANGED vars
    BY <2>3 DEF vars, supVars, connVars, netVars, flags, FreshInv
  <2> QED
    BY <2>1, <2>2, <2>3
<1> QED
  BY <1>1, <1>2, SessionInvInvariant, PTL DEF Spec

LEMMA SupervisorStepsLinks ==
  ASSUME SessionInv, FreshInv, FreshInv', Supervise, NEW e \in Epoch
  PROVE  Connection(e)!LinkNext
<1> USE SessionAssumption
    DEF Epoch, SessionInv, Shape, FreshInv, SockState, supVars, connVars, netVars, flags,
        Connection!LinkNext, Connection!Surroundings
<1>1. CASE CloseOld
  BY <1>1 DEF CloseOld, Connection!ClosedAsAsked
<1>2. CASE DialSucceeds
  BY <1>2 DEF DialSucceeds, Connection!Opens
<1>3. CASE UNCHANGED <<sock, ctxDone>>
  BY <1>3
<1> QED
  BY <1>1, <1>2, <1>3
     DEF Supervise, Check, CancelPoll, FetchProperties, DialFails, Install, StartPoll,
         ConnectReturns, ConnectFails, BackoffElapses, TakeEvent, SeeDone

(* Every connection of every session behaves as Link, the specification that  *)
(* Conn implements (winet.go, reconnect and onError).                         *)
THEOREM SessionUsesLinks == Spec => ConnectionsAreLinks
<1>1. Init => \A e \in Epoch : Connection(e)!LinkInit
  BY DEF Init, Connection!LinkInit
<1>2. SessionInv /\ FreshInv /\ FreshInv' /\ [Next]_vars
        => [\A e \in Epoch : [Connection(e)!LinkNext]_(Connection(e)!linkVars)]_vars
  <2> SUFFICES ASSUME SessionInv, FreshInv, FreshInv', [Next]_vars, NEW e \in Epoch
               PROVE  Connection(e)!LinkNext \/ UNCHANGED Connection(e)!linkVars
    OBVIOUS
  <2>1. CASE Supervise
    BY <2>1, SupervisorStepsLinks
  <2>2. CASE Next /\ ~Supervise
    <3>1. LosesOnly
      BY <2>2, OthersLoseOnly DEF SessionInv
    <3> QED
      BY <3>1 DEF LosesOnly, LinkStep, Raise, Connection!LinkNext, Connection!Surroundings,
                  Connection!Breaks, Connection!Notices, Connection!Signals
  <2>3. CASE UNCHANGED vars
    BY <2>3 DEF vars, supVars, connVars, netVars, flags, Connection!linkVars
  <2> QED
    BY <2>1, <2>2, <2>3
<1> QED
  BY <1>1, <1>2, SessionInvInvariant, FreshInvariant, PTL DEF Spec, ConnectionsAreLinks
=============================================================================
