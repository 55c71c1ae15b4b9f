-------------------------- MODULE WinetSession_types --------------------------
(* The type invariant of the session, part by part: an action leaves most     *)
(* parts alone, and Kept says so once for all of them.                        *)
EXTENDS WinetSession_proofs

LEMMA Kept ==
  ASSUME TypeOK
  PROVE  /\ UNCHANGED supVars => SupOK'
         /\ UNCHANGED <<event, ctxDone, panic>> => SignalOK'
         /\ UNCHANGED connVars => ConnOK'
         /\ UNCHANGED sock => SockOK'
         /\ UNCHANGED loopVars => LoopOK'
         /\ UNCHANGED cmd => CmdOK'
         /\ UNCHANGED exch => ExchOK'
         /\ UNCHANGED pendVars => SlotOK'
<1>1. UNCHANGED supVars => SupOK'
  BY DEF TypeOK, supVars, SupOK
<1>2. UNCHANGED <<event, ctxDone, panic>> => SignalOK'
  BY DEF TypeOK, SignalOK
<1>3. UNCHANGED connVars => ConnOK'
  BY DEF TypeOK, connVars, ConnOK
<1>4. UNCHANGED sock => SockOK'
  BY DEF TypeOK, SockOK
<1>5. UNCHANGED loopVars => LoopOK'
  BY DEF TypeOK, loopVars, LoopOK
<1>6. UNCHANGED cmd => CmdOK'
  BY DEF TypeOK, CmdOK
<1>7. UNCHANGED exch => ExchOK'
  BY DEF TypeOK, ExchOK
<1>8. UNCHANGED pendVars => SlotOK'
  BY DEF TypeOK, pendVars, SlotOK, P!PendingTypeOK
<1> QED
  BY <1>1, <1>2, <1>3, <1>4, <1>5, <1>6, <1>7, <1>8

(* onError and sendIfErr.                                                     *)
LEMMA RaiseType ==
  ASSUME SignalOK, Raise, UNCHANGED flags
  PROVE  SignalOK'
BY DEF SignalOK, Raise, flags

(* Conn.Send, refused and accepted.                                           *)
LEMMA SendFailsType ==
  ASSUME SignalOK, SockOK, NEW c, SendFails(c), UNCHANGED flags
  PROVE  SignalOK' /\ SockOK'
BY DEF SignalOK, SockOK, SendFails, Raise, flags

LEMMA SendsType ==
  ASSUME SignalOK, SockOK, ExchOK, NEW i, NEW c \in Epoch, NEW req \in Request, Sends(i, c, req),
         UNCHANGED flags
  PROVE  SignalOK' /\ SockOK' /\ ExchOK'
BY DEF SignalOK, SockOK, ExchOK, Exchange, Sends, flags

LEMMA ReqType ==
  ASSUME NEW kind \in Kind, NEW w \in Waiter, NEW d \in 0..NumDevices, NEW s \in 0..NumStages
  PROVE  Req(kind, w, d, s) \in Request
BY DEF Req, Request

(* An exchange in progress, and one whose state moves on.                     *)
LEMMA AtType ==
  ASSUME ExchOK, NEW i \in Id, NEW st, At(i, st)
  PROVE  exch[i] \in Exchange /\ exch[i].conn \in Epoch /\ exch[i].req \in Request
BY DEF ExchOK, At, Exchange

LEMMA MoveType ==
  ASSUME ExchOK, NEW i \in Id, exch[i] # None,
         NEW st \in {"sent", "arrived", "expired", "bad", "failed", "shown", "delivering"},
         exch' = [exch EXCEPT ![i].st = st]
  PROVE  ExchOK'
BY DEF ExchOK, Exchange

LEMMA EndType ==
  ASSUME ExchOK, NEW i, exch' = [exch EXCEPT ![i] = None]
  PROVE  ExchOK'
BY DEF ExchOK
(* The slot of PendingCmd, as the session uses it.                            *)
LEMMA CallType ==
  ASSUME SlotOK, NEW w \in Waiter,
         P!Register(w) \/ P!TakeValue(w) \/ P!GiveUp(w) \/ P!Leave(w),
         adrift' \subseteq adrift \cup {w}
  PROVE  SlotOK'
BY DEF SlotOK, P!PendingTypeOK, P!Register, P!TakeValue, P!GiveUp, P!Leave

LEMMA DeliverType ==
  ASSUME SlotOK, NEW i \in Id, NEW v \in Request, P!Snapshot(i) \/ P!Push(i, v), UNCHANGED adrift
  PROVE  SlotOK'
<1>1. CASE P!Snapshot(i)
  BY <1>1 DEF SlotOK, P!PendingTypeOK, P!Snapshot
<1>2. CASE P!Push(i, v)
  BY <1>2 DEF SlotOK, P!PendingTypeOK, P!Push, P!Reads
<1> QED
  BY <1>1, <1>2

(* What the types of the counters and of HandleLogin need: the failures are   *)
(* below the limit while the supervisor runs, and nothing is sent before the  *)
(* first Connect.                                                             *)
Begun ==
    /\ sup # "stopped" => fails < MaxFails
    /\ epoch = 0 => conn = 0 /\ \A i \in Id : exch[i] = None

TypeInv == TypeOK /\ SessionInv /\ Begun
-----------------------------------------------------------------------------
LEMMA SupervisorType ==
  ASSUME TypeInv, Supervise
  PROVE  TypeOK'
<1> USE SessionAssumption
<1>0. TypeOK /\ SupOK /\ SignalOK /\ ConnOK /\ SockOK /\ LoopOK /\ ExchOK /\ Shape /\ ConnInv
  BY DEF TypeInv, TypeOK, SessionInv
<1>1. CASE Check
  <2>1. SupOK'
    BY <1>0, <1>1 DEF Check, SupOK
  <2> QED
    BY <1>0, <1>1, Kept, <2>1 DEF Check, TypeOK, flags, netVars
<1>2. CASE CancelPoll
  <2>1. SupOK'
    BY <1>0, <1>2 DEF CancelPoll, SupOK, Shape
  <2>2. ConnOK'
    BY <1>0, <1>2 DEF CancelPoll, ConnOK, SupOK, Shape, Epoch
  <2> QED
    BY <1>0, <1>2, Kept, <2>1, <2>2 DEF CancelPoll, TypeOK, flags, netVars
<1>3. CASE FetchProperties
  <2>1. SupOK'
    BY <1>0, <1>3 DEF FetchProperties, SupOK
  <2>2. SignalOK'
    BY <1>0, <1>3 DEF FetchProperties, SignalOK
  <2> QED
    BY <1>0, <1>3, Kept, <2>1, <2>2 DEF FetchProperties, TypeOK, netVars
<1>4. CASE CloseOld
  <2>1. SupOK'
    BY <1>0, <1>4 DEF CloseOld, SupOK
  <2>2. ConnOK'
    BY <1>0, <1>4 DEF CloseOld, ConnOK
  <2>3. SockOK'
    BY <1>0, <1>4 DEF CloseOld, SockOK
  <2>4. ExchOK'
    BY <1>0, <1>4 DEF CloseOld, ExchOK, Cut
  <2> QED
    BY <1>0, <1>4, Kept, <2>1, <2>2, <2>3, <2>4 DEF CloseOld, TypeOK, flags, netVars
<1>5. CASE DialFails
  <2>1. SupOK'
    BY <1>0, <1>5 DEF DialFails, SupOK
  <2>2. SignalOK'
    BY <1>0, <1>5 DEF DialFails, Raise, SignalOK, flags
  <2> QED
    BY <1>0, <1>5, Kept, <2>1, <2>2 DEF DialFails, TypeOK, flags, netVars
<1>6. CASE DialSucceeds
  <2>1. SupOK'
    BY <1>0, <1>6 DEF DialSucceeds, SupOK
  <2>2. SockOK'
    BY <1>0, <1>6 DEF DialSucceeds, SockOK
  <2>3. ExchOK'
    <3>1. epoch \in Epoch
      BY <1>0, <1>6 DEF DialSucceeds, ConnInv, SupOK, Epoch
    <3>2. Req("connect", epoch, 0, 0) \in Request
      BY <3>1, ReqType DEF Kind, Waiter
    <3> QED
      BY <1>0, <1>6, <3>1, <3>2 DEF DialSucceeds, ExchOK, Exchange
  <2> QED
    BY <1>0, <1>6, Kept, <2>1, <2>2, <2>3 DEF DialSucceeds, TypeOK, flags, netVars
<1>7. CASE Install
  <2>1. SupOK'
    BY <1>0, <1>7 DEF Install, SupOK
  <2>2. ConnOK'
    BY <1>0, <1>7 DEF Install, ConnOK, SupOK
  <2> QED
    BY <1>0, <1>7, Kept, <2>1, <2>2 DEF Install, TypeOK, flags, netVars
<1>8. CASE StartPoll
  <2>1. SupOK'
    BY <1>0, <1>8 DEF StartPoll, SupOK
  <2>2. ConnOK'
    BY <1>0, <1>8 DEF StartPoll, ConnOK, SupOK
  <2>3. LoopOK'
    BY <1>0, <1>8 DEF StartPoll, LoopOK
  <2> QED
    BY <1>0, <1>8, Kept, <2>1, <2>2, <2>3 DEF StartPoll, TypeOK, flags, netVars
<1>9. CASE ConnectReturns
  <2>1. SupOK'
    BY <1>0, <1>9 DEF ConnectReturns, SupOK
  <2> QED
    BY <1>0, <1>9, Kept, <2>1 DEF ConnectReturns, TypeOK, flags, netVars
<1>10. CASE ConnectFails
  <2>1. SupOK'
    BY <1>0, <1>10 DEF ConnectFails, SupOK, TypeInv, Begun
  <2> QED
    BY <1>0, <1>10, Kept, <2>1 DEF ConnectFails, TypeOK, flags, netVars
<1>11. CASE BackoffElapses
  <2>1. SupOK'
    BY <1>0, <1>11 DEF BackoffElapses, SupOK
  <2> QED
    BY <1>0, <1>11, Kept, <2>1 DEF BackoffElapses, TypeOK, flags, netVars
<1>12. CASE TakeEvent
  <2>1. SupOK'
    BY <1>0, <1>12 DEF TakeEvent, SupOK
  <2>2. SignalOK'
    BY <1>0, <1>12 DEF TakeEvent, SignalOK, flags
  <2> QED
    BY <1>0, <1>12, Kept, <2>1, <2>2 DEF TakeEvent, TypeOK, flags, netVars
<1>13. CASE SeeDone
  <2>1. SupOK'
    BY <1>0, <1>13 DEF SeeDone, SupOK
  <2> QED
    BY <1>0, <1>13, Kept, <2>1 DEF SeeDone, TypeOK, flags, netVars
<1> QED
  BY <1>1, <1>2, <1>3, <1>4, <1>5, <1>6, <1>7, <1>8, <1>9, <1>10, <1>11, <1>12, <1>13 DEF Supervise
(* The connections and the message handlers.                                  *)
LEMMA SurroundingsType ==
  ASSUME TypeOK,
         \/ Shutdown
         \/ \E e \in Epoch : Break(e) \/ Notice(e)
         \/ \E i \in Id : Receive(i) \/ NoAnswer(i)
  PROVE  TypeOK'
<1>0. SignalOK /\ SockOK /\ ExchOK
  BY DEF TypeOK
<1>1. CASE Shutdown
  <2>1. SignalOK'
    BY <1>0, <1>1 DEF Shutdown, SignalOK
  <2> QED
    BY <1>1, <2>1, Kept DEF Shutdown, TypeOK, netVars
<1>2. ASSUME NEW e \in Epoch, Break(e) PROVE TypeOK'
  <2>1. SockOK'
    BY <1>0, <1>2 DEF Break, SockOK
  <2>2. ExchOK'
    BY <1>0, <1>2 DEF Break, ExchOK, Cut
  <2> QED
    BY <1>2, <2>1, <2>2, Kept DEF Break, TypeOK, flags
<1>3. ASSUME NEW e \in Epoch, Notice(e) PROVE TypeOK'
  <2>1. SockOK'
    BY <1>0, <1>3 DEF Notice, SockOK
  <2>2. SignalOK'
    BY <1>0, <1>3, RaiseType DEF Notice
  <2> QED
    BY <1>3, <2>1, <2>2, Kept DEF Notice, TypeOK
<1>4. ASSUME NEW i \in Id, Receive(i) PROVE TypeOK'
  <2>1. exch[i] # None
    BY <1>4 DEF Receive, At
  <2>2. ExchOK'
    BY <1>0, <1>4, <2>1, MoveType DEF Receive
  <2> QED
    BY <1>4, <2>2, Kept DEF Receive, TypeOK, flags
<1>5. ASSUME NEW i \in Id, NoAnswer(i) PROVE TypeOK'
  <2>1. ExchOK'
    BY <1>0, <1>5, EndType DEF NoAnswer
  <2> QED
    BY <1>5, <2>1, Kept DEF NoAnswer, TypeOK, flags
<1> QED
  BY <1>1, <1>2, <1>3, <1>4, <1>5

LEMMA HandlerType ==
  ASSUME TypeOK, Begun, NEW i \in Id, Handle(i)
  PROVE  TypeOK'
<1>0. SupOK /\ SignalOK /\ ConnOK /\ SockOK /\ ExchOK /\ SlotOK
  BY DEF TypeOK
<1>a. exch[i] # None
  BY DEF Handle, Greet, HandleConnect, HandleLogin, HandleExpired, HandleError, Publish, Deliver,
         FinishDeliver, At
<1>b. exch[i].conn \in Epoch /\ exch[i].req \in Request
  BY <1>0, <1>a DEF ExchOK, Exchange
<1>c. epoch \in Epoch
  BY <1>0, <1>a, SessionAssumption DEF Begun, SupOK, Epoch
<1>1. CASE Greet(i)
  <2>1. SignalOK' /\ SockOK' /\ ExchOK'
    <3>1. CASE Sends(i, exch[i].conn, exch[i].req)
      BY <1>0, <1>1, <1>b, <3>1, SendsType DEF Greet
    <3>2. CASE SendFails(exch[i].conn) /\ exch' = [exch EXCEPT ![i].st = "failed"]
      BY <1>0, <1>1, <1>a, <3>2, SendFailsType, MoveType DEF Greet
    <3> QED
      BY <1>1, <3>1, <3>2 DEF Greet
  <2> QED
    BY <1>1, <2>1, Kept DEF Greet, TypeOK
<1>2. CASE HandleConnect(i)
  <2>1. ConnOK'
    BY <1>0, <1>2, <1>b, <1>c DEF HandleConnect, NoteStale, ConnOK, Epoch
  <2>2. SignalOK' /\ SockOK' /\ ExchOK'
    <3>1. CASE Sends(i, exch[i].conn, Req("login", exch[i].conn, 0, 0))
      <4>1. Req("login", exch[i].conn, 0, 0) \in Request
        BY <1>b, ReqType, SessionAssumption DEF Kind, Waiter
      <4> QED
        BY <1>0, <1>2, <1>b, <3>1, <4>1, SendsType DEF HandleConnect
    <3>2. CASE SendFails(exch[i].conn) /\ exch' = [exch EXCEPT ![i].st = "failed"]
      BY <1>0, <1>2, <1>a, <3>2, SendFailsType, MoveType DEF HandleConnect
    <3> QED
      BY <1>2, <3>1, <3>2 DEF HandleConnect
  <2> QED
    BY <1>2, <2>1, <2>2, Kept DEF HandleConnect, TypeOK
<1>3. CASE HandleLogin(i)
  <2>2. ConnOK'
    <3>1. exch[i].conn \in 0..MaxEpoch
      BY <1>b, SessionAssumption DEF Epoch
    <3> QED
      BY <1>0, <1>3, <1>c, <3>1 DEF HandleLogin, NoteStale, ConnOK
  <2>3. SignalOK'
    BY <1>0, <1>3 DEF HandleLogin, SignalOK
  <2>4. ExchOK'
    BY <1>0, <1>3, EndType DEF HandleLogin
  <2> QED
    BY <1>3, <2>2, <2>3, <2>4, Kept DEF HandleLogin, TypeOK
<1>4. CASE HandleExpired(i)
  <2>1. SignalOK'
    BY <1>0, <1>4 DEF HandleExpired, SignalOK, flags
  <2>2. ExchOK'
    BY <1>0, <1>4, EndType DEF HandleExpired
  <2> QED
    BY <1>4, <2>1, <2>2, Kept DEF HandleExpired, TypeOK
<1>5. CASE HandleError(i)
  <2>1. SignalOK'
    BY <1>0, <1>5, RaiseType DEF HandleError
  <2>2. ExchOK'
    BY <1>0, <1>5, EndType DEF HandleError
  <2> QED
    BY <1>5, <2>1, <2>2, Kept DEF HandleError, TypeOK
<1>6. CASE Publish(i)
  <2>1. ExchOK'
    BY <1>0, <1>6, <1>a, Kept, EndType, MoveType DEF Publish
  <2>2. SignalOK'
    BY <1>0, <1>6 DEF Publish, Raise, SignalOK
  <2> QED
    BY <1>6, <2>1, <2>2, Kept DEF Publish, TypeOK
<1>7. CASE Deliver(i)
  <2>1. ExchOK'
    BY <1>0, <1>7, <1>a, EndType, MoveType DEF Deliver
  <2>2. SlotOK'
    BY <1>0, <1>7, <1>b, DeliverType DEF Deliver
  <2> QED
    BY <1>7, <2>1, <2>2, Kept DEF Deliver, TypeOK, flags
<1>8. CASE FinishDeliver(i)
  <2>1. ExchOK'
    BY <1>0, <1>8, EndType DEF FinishDeliver
  <2>2. SlotOK'
    BY <1>0, <1>8, <1>b, DeliverType DEF FinishDeliver
  <2> QED
    BY <1>8, <2>1, <2>2, Kept DEF FinishDeliver, TypeOK, flags
<1> QED
  BY <1>1, <1>2, <1>3, <1>4, <1>5, <1>6, <1>7, <1>8 DEF Handle

(* Callers of wait and commands.                                              *)
LEMMA CallerType ==
  ASSUME TypeOK,
         \/ \E w \in Waiter : Wait(w) \/ GetAnswer(w) \/ GiveUp(w)
         \/ \E k \in Command : CmdCheck(k) \/ CmdSend(k) \/ CmdReturns(k)
  PROVE  TypeOK'
<1>0. SignalOK /\ ConnOK /\ SockOK /\ CmdOK /\ ExchOK /\ SlotOK
  BY DEF TypeOK
<1>1. ASSUME NEW w \in Waiter, Wait(w) \/ GetAnswer(w) \/ GiveUp(w) PROVE TypeOK'
  <2>1. SlotOK'
    BY <1>0, <1>1, CallType DEF Wait, GetAnswer, GiveUp, NoteAdrift
  <2> QED
    BY <1>1, <2>1, Kept DEF Wait, GetAnswer, GiveUp, TypeOK, flags, netVars
<1>2. ASSUME NEW k \in Command, CmdCheck(k) PROVE TypeOK'
  <2>1. CmdOK'
    BY <1>0, <1>2 DEF CmdCheck, CmdTo, CmdOK
  <2> QED
    BY <1>2, <2>1, Kept DEF CmdCheck, TypeOK, flags, netVars
<1>3. ASSUME NEW k \in Command, CmdSend(k) PROVE TypeOK'
  <2>1. CASE conn = 0
    <3>1. SignalOK'
      BY <1>0, <1>3, <2>1 DEF CmdSend, SignalOK
    <3> QED
      BY <1>3, <2>1, <3>1, Kept DEF CmdSend, TypeOK, netVars
  <2>2. CASE conn # 0
    <3>1. conn \in Epoch /\ Req("param", k, 0, 0) \in Request
      <4>1. conn \in Epoch
        BY <1>0, <2>2, SessionAssumption DEF ConnOK, Epoch
      <4>2. k \in Waiter /\ 0 \in 0..NumDevices /\ 0 \in 0..NumStages /\ "param" \in Kind
        BY SessionAssumption DEF Waiter, Kind
      <4> QED
        BY <4>1, <4>2, ReqType
    <3>2. UNCHANGED flags
      BY <1>3, <2>2 DEF CmdSend, flags
    <3>3. SignalOK' /\ SockOK' /\ ExchOK'
      <4>1. CASE Sends(NextFree, conn, Req("param", k, 0, 0))
        BY <1>0, <3>1, <3>2, <4>1, SendsType
      <4>2. CASE SendFails(conn) /\ UNCHANGED exch
        BY <1>0, <3>2, <4>2, SendFailsType DEF ExchOK
      <4> QED
        BY <1>3, <2>2, <4>1, <4>2 DEF CmdSend
    <3>4. CmdOK'
      BY <1>0, <1>3, <2>2 DEF CmdSend, CmdTo, CmdOK
    <3> QED
      BY <1>3, <3>3, <3>4, Kept DEF CmdSend, TypeOK
  <2> QED
    BY <2>1, <2>2
<1>4. ASSUME NEW k \in Command, CmdReturns(k) PROVE TypeOK'
  <2>1. CmdOK'
    BY <1>0, <1>4 DEF CmdReturns, CmdTo, CmdOK
  <2>2. SlotOK'
    BY <1>0, <1>4, CallType DEF CmdReturns, Waiter
  <2> QED
    BY <1>4, <2>1, <2>2, Kept DEF CmdReturns, TypeOK, flags, netVars
<1> QED
  BY <1>1, <1>2, <1>3, <1>4
(* The poll loops.                                                            *)
LEMMA LoopToType ==
  ASSUME LoopOK, NEW e \in Epoch,
         NEW pc \in {"login", "list", "listFailed", "listWait", "device", "register", "query",
                     "dataFailed", "dataWait", "sleep", "exited"},
         LoopTo(e, pc), gate' \in [Epoch -> 0..MaxEpoch],
         dev' \in [Epoch -> 0..NumDevices], stage' \in [Epoch -> 0..NumStages]
  PROVE  LoopOK'
BY DEF LoopOK, LoopTo

LEMMA EndCycleType ==
  ASSUME LoopOK, NEW e \in Epoch, EndCycle(e), UNCHANGED gate
  PROVE  LoopOK'
BY SessionAssumption DEF LoopOK, LoopTo, EndCycle

LEMMA PollType ==
  ASSUME TypeOK, NEW e \in Epoch, Poll(e)
  PROVE  TypeOK'
<1>0. SupOK /\ SignalOK /\ ConnOK /\ SockOK /\ LoopOK /\ ExchOK /\ SlotOK
  BY DEF TypeOK
<1>a. /\ gate \in [Epoch -> 0..MaxEpoch]
      /\ dev \in [Epoch -> 0..NumDevices]
      /\ stage \in [Epoch -> 0..NumStages]
  BY <1>0 DEF LoopOK
<1>b. conn # 0 => conn \in Epoch
  BY <1>0, SessionAssumption DEF ConnOK, Epoch
<1>c. e \in Waiter /\ 0 \in 0..NumDevices /\ 0 \in 0..NumStages /\ "list" \in Kind /\ "data" \in Kind
  BY SessionAssumption DEF Waiter, Kind
<1>d. Req("list", e, 0, 0) \in Request /\ Req("data", e, dev[e], stage[e]) \in Request
  BY <1>a, <1>c, ReqType
<1>1. CASE LoopEnter(e)
  <2>1. gate' \in [Epoch -> 0..MaxEpoch]
    BY <1>0, <1>1, <1>a DEF LoopEnter, SupOK
  <2>2. LoopOK'
    BY <1>0, <1>1, <1>a, <2>1, LoopToType DEF LoopEnter
  <2> QED
    BY <1>1, <2>2, Kept DEF LoopEnter, TypeOK, flags, netVars
<1>2. CASE LoopLoggedIn(e) \/ LoopStop(e) \/ LoopTick(e)
  <2>1. LoopOK'
    BY <1>0, <1>2, <1>a, LoopToType DEF LoopLoggedIn, LoopStop, LoopTick
  <2> QED
    BY <1>2, <2>1, Kept DEF LoopLoggedIn, LoopStop, LoopTick, TypeOK, flags, netVars
<1>3. CASE LoopList(e)
  <2>1. LoopOK'
    BY <1>0, <1>3, <1>a, LoopToType DEF LoopList
  <2>2. SignalOK' /\ SockOK' /\ ExchOK'
    <3>1. CASE UNCHANGED <<netVars, event>>
      BY <1>3, <3>1, Kept DEF LoopList, flags, netVars
    <3>2. CASE conn # 0 /\ Sends(NextFree, conn, Req("list", e, 0, 0))
      BY <1>0, <1>3, <1>b, <1>d, <3>2, SendsType DEF LoopList
    <3>3. CASE SendFails(conn) /\ UNCHANGED exch
      BY <1>0, <1>3, <3>3, SendFailsType DEF LoopList, ExchOK
    <3> QED
      BY <1>3, <3>1, <3>2, <3>3 DEF LoopList
  <2> QED
    BY <1>3, <2>1, <2>2, Kept DEF LoopList, TypeOK
<1>4. CASE LoopListFailed(e)
  <2>1. LoopOK'
    BY <1>0, <1>4, <1>a, LoopToType DEF LoopListFailed
  <2>2. SignalOK'
    BY <1>0, <1>4, RaiseType DEF LoopListFailed, SignalOK, flags
  <2> QED
    BY <1>4, <2>1, <2>2, Kept DEF LoopListFailed, TypeOK, netVars
<1>5. CASE LoopListReturns(e)
  <2>1. dev' \in [Epoch -> 0..NumDevices]
    BY <1>5, <1>a, SessionAssumption DEF LoopListReturns
  <2>2. LoopOK'
    BY <1>0, <1>5, <1>a, <2>1, LoopToType DEF LoopListReturns
  <2>3. SlotOK'
    BY <1>0, <1>5, <1>c, CallType DEF LoopListReturns
  <2> QED
    BY <1>5, <2>2, <2>3, Kept DEF LoopListReturns, TypeOK, flags, netVars
<1>6. CASE LoopDevice(e)
  <2>1. stage' \in [Epoch -> 0..NumStages]
    BY <1>6, <1>a, SessionAssumption DEF LoopDevice
  <2>2. LoopOK'
    BY <1>0, <1>6, <1>a, <2>1, LoopToType DEF LoopDevice
  <2>3. ConnOK'
    BY <1>0, <1>6, <1>a DEF LoopDevice, ConnOK
  <2> QED
    BY <1>6, <2>2, <2>3, Kept DEF LoopDevice, TypeOK, flags, netVars
<1>7. CASE LoopRegister(e)
  <2>1. LoopOK'
    BY <1>0, <1>7, <1>a, LoopToType DEF LoopRegister
  <2>2. SignalOK'
    BY <1>0, <1>7, RaiseType DEF LoopRegister, SignalOK, flags
  <2> QED
    BY <1>7, <2>1, <2>2, Kept DEF LoopRegister, TypeOK, netVars
<1>8. CASE LoopQuery(e)
  <2>1. LoopOK'
    <3>1. CASE EndCycle(e)
      BY <1>0, <1>8, <3>1, EndCycleType DEF LoopQuery
    <3>2. CASE ~EndCycle(e)
      BY <1>0, <1>8, <1>a, <3>2, LoopToType DEF LoopQuery
    <3> QED
      BY <3>1, <3>2
  <2>2. SignalOK' /\ SockOK' /\ ExchOK'
    <3>1. CASE UNCHANGED <<netVars, event>>
      BY <1>8, <3>1, Kept DEF LoopQuery, flags, netVars
    <3>2. CASE conn # 0 /\ Sends(NextFree, conn, Req("data", e, dev[e], stage[e]))
      BY <1>0, <1>8, <1>b, <1>d, <3>2, SendsType DEF LoopQuery
    <3>3. CASE SendFails(conn) /\ UNCHANGED exch
      BY <1>0, <1>8, <3>3, SendFailsType DEF LoopQuery, ExchOK
    <3> QED
      BY <1>8, <3>1, <3>2, <3>3 DEF LoopQuery
  <2> QED
    BY <1>8, <2>1, <2>2, Kept DEF LoopQuery, TypeOK
<1>9. CASE LoopQueryFailed(e)
  <2>1. LoopOK'
    BY <1>0, <1>9, EndCycleType DEF LoopQueryFailed
  <2>2. SignalOK'
    BY <1>0, <1>9, RaiseType DEF LoopQueryFailed, SignalOK, flags
  <2> QED
    BY <1>9, <2>1, <2>2, Kept DEF LoopQueryFailed, TypeOK, netVars
<1>10. CASE LoopQueryReturns(e)
  <2>1. LoopOK'
    <3>1. CASE EndCycle(e)
      BY <1>0, <1>10, <3>1, EndCycleType DEF LoopQueryReturns
    <3>2. CASE ~EndCycle(e)
      <4>1. dev' \in [Epoch -> 0..NumDevices] /\ stage' \in [Epoch -> 0..NumStages]
        BY <1>10, <1>a, <3>2, SessionAssumption DEF LoopQueryReturns
      <4> QED
        BY <1>0, <1>10, <1>a, <3>2, <4>1, LoopToType DEF LoopQueryReturns
    <3> QED
      BY <3>1, <3>2
  <2>2. SlotOK'
    BY <1>0, <1>10, <1>c, CallType DEF LoopQueryReturns
  <2> QED
    BY <1>10, <2>1, <2>2, Kept DEF LoopQueryReturns, TypeOK, flags, netVars
<1> QED
  BY <1>1, <1>2, <1>3, <1>4, <1>5, <1>6, <1>7, <1>8, <1>9, <1>10 DEF Poll
-----------------------------------------------------------------------------
(* Before the first Connect only the supervisor does anything to exch.        *)
LEMMA NothingSentYet ==
  ASSUME Begun, epoch = 0, Next, ~Supervise
  PROVE  \A j \in Id : exch'[j] = None
<1> USE DEF Begun, netVars
<1>1. ASSUME NEW e \in Epoch, Break(e) \/ Notice(e) PROVE \A j \in Id : exch'[j] = None
  BY <1>1 DEF Break, Notice, Cut, At
<1>2. ASSUME NEW e \in Epoch, Poll(e) PROVE \A j \in Id : exch'[j] = None
  BY <1>2 DEF Poll, LoopEnter, LoopLoggedIn, LoopStop, LoopList, LoopListFailed,
              LoopListReturns, LoopDevice, LoopRegister, LoopQuery, LoopQueryFailed,
              LoopQueryReturns, LoopTick
<1>3. ASSUME NEW i \in Id, Receive(i) \/ NoAnswer(i) \/ Handle(i) PROVE \A j \in Id : exch'[j] = None
  BY <1>3 DEF At, Receive, NoAnswer, Handle, Greet, HandleConnect, HandleLogin, HandleExpired,
              HandleError, Publish, Deliver, FinishDeliver
<1>4. ASSUME NEW w \in Waiter, Wait(w) \/ GetAnswer(w) \/ GiveUp(w) PROVE \A j \in Id : exch'[j] = None
  BY <1>4 DEF Wait, GetAnswer, GiveUp
<1>5. ASSUME NEW k \in Command, CmdCheck(k) \/ CmdSend(k) \/ CmdReturns(k) PROVE \A j \in Id : exch'[j] = None
  BY <1>5 DEF CmdCheck, CmdSend, CmdReturns
<1>6. CASE Shutdown
  BY <1>6 DEF Shutdown
<1> QED
  BY <1>1, <1>2, <1>3, <1>4, <1>5, <1>6 DEF Next

LEMMA BegunKept ==
  ASSUME TypeInv, [Next]_vars
  PROVE  Begun'
<1>1. CASE Supervise
  <2> USE SessionAssumption
      DEF TypeInv, TypeOK, SupOK, ConnOK, SessionInv, Shape, ConnInv, Begun, supVars, connVars, netVars
  <2>1. ASSUME UNCHANGED <<epoch, connVars, exch, fails>>, sup = "stopped" => sup' = "stopped"
        PROVE  Begun'
    BY <2>1
  <2>a. CASE Check \/ ConnectReturns \/ TakeEvent \/ SeeDone
    BY <2>a DEF Check, ConnectReturns, TakeEvent, SeeDone
  <2>b. CASE FetchProperties \/ DialFails \/ BackoffElapses
    BY <2>1, <2>b DEF FetchProperties, DialFails, BackoffElapses
  <2>2. CASE CancelPoll \/ DialSucceeds \/ Install \/ StartPoll
    BY <2>2 DEF CancelPoll, DialSucceeds, Install, StartPoll
  <2>3. CASE CloseOld
    BY <2>3 DEF CloseOld, Cut, At
  <2>4. CASE ConnectFails
    BY <2>4 DEF ConnectFails
  <2> QED
    BY <1>1, <2>a, <2>b, <2>2, <2>3, <2>4 DEF Supervise
<1>2. CASE Next /\ ~Supervise
  <2>1. Gentle
    <3>1. Shape
      BY DEF TypeInv, SessionInv
    <3>2. ASSUME NEW e \in Epoch, Poll(e) PROVE Gentle
      BY <3>1, <3>2, PollLoopsAreGentle
    <3> QED
      BY <1>2, <3>1, <3>2, HandlersAreGentle, CommandsAreGentle DEF Next
  <2>2. UNCHANGED fails
    <3>1. CASE Shutdown
      BY <3>1 DEF Shutdown, supVars
    <3>2. CASE ~Shutdown
      <4>1. RefinesInv
        BY DEF TypeInv, TypeOK, SignalOK, SessionInv, Shape, RefinesInv
      <4> QED
        BY <1>2, <3>2, <4>1, OthersSignal DEF Signals
    <3> QED
      BY <3>1, <3>2
  <2>3. epoch = 0 => \A i \in Id : exch'[i] = None
    BY <1>2, NothingSentYet DEF TypeInv
  <2> QED
    BY <2>1, <2>2, <2>3 DEF TypeInv, Begun, Gentle
<1>3. CASE UNCHANGED vars
  BY <1>3 DEF vars, supVars, connVars, netVars, TypeInv, Begun
<1> QED
  BY <1>1, <1>2, <1>3

(* Every variable of the session keeps its type, for any number of reconnects,*)
(* devices, stages, commands and faults; in particular the failures stay      *)
(* below maxConnAttempts and the login handler always finds a loginReady      *)
(* channel to close (login.go, handleLoginMessage).                           *)
THEOREM SessionTypeCorrect == Spec => []TypeOK
<1>1. Init => TypeOK /\ Begun
  <2> SUFFICES ASSUME Init
               PROVE  TypeOK /\ Begun
    OBVIOUS
  <2>1. SupOK
    <3>1. props \in BOOLEAN
      BY DEF Init
    <3> QED
      BY <3>1, SessionAssumption DEF Init, SupOK
  <2>2. SignalOK
    <3>1. event \in BOOLEAN /\ ctxDone \in BOOLEAN
      BY DEF Init
    <3> QED
      BY <3>1 DEF Init, SignalOK
  <2>3. Begun
    BY SessionAssumption DEF Init, Begun
  <2>4. ConnOK /\ SockOK /\ CmdOK /\ ExchOK
    BY SessionAssumption DEF Init, ConnOK, SockOK, CmdOK, ExchOK
  <2>5. LoopOK
    BY SessionAssumption DEF Init, LoopOK
  <2>6. SlotOK
    BY DEF Init, SlotOK, P!PendingInit, P!PendingTypeOK
  <2> QED
    BY <2>1, <2>2, <2>3, <2>4, <2>5, <2>6 DEF TypeOK
<1>2. TypeOK /\ SessionInv /\ Begun /\ [Next]_vars => TypeOK' /\ Begun'
  <2> SUFFICES ASSUME TypeOK, SessionInv, Begun, [Next]_vars
               PROVE  TypeOK' /\ Begun'
    OBVIOUS
  <2>1. Begun'
    BY BegunKept DEF TypeInv
  <2>2. CASE Supervise
    BY <2>1, <2>2, SupervisorType DEF TypeInv
  <2>3. CASE Next /\ ~Supervise
    <3>1. ASSUME NEW e \in Epoch, Poll(e) PROVE TypeOK'
      BY <3>1, PollType
    <3>2. ASSUME NEW i \in Id, Handle(i) PROVE TypeOK'
      BY <3>2, HandlerType
    <3> QED
      BY <2>1, <2>3, <3>1, <3>2, SurroundingsType, CallerType DEF Next
  <2>4. CASE UNCHANGED vars
    BY <2>1, <2>4, Kept DEF vars, netVars, flags, TypeOK
  <2> QED
    BY <2>1, <2>2, <2>3, <2>4
<1> QED
  BY <1>1, <1>2, SessionInvInvariant, PTL DEF Spec
-----------------------------------------------------------------------------
(* The session's slot is that of PendingCmd.                                  *)

LEMMA CallersUseSlot ==
  ASSUME NEW w \in Waiter, P!Register(w) \/ P!TakeValue(w) \/ P!GiveUp(w) \/ P!Leave(w)
  PROVE  P!PendingNext
BY DEF P!PendingNext

LEMMA HandlersUseSlot ==
  ASSUME ExchOK, NEW i \in Id, Handle(i)
  PROVE  [P!PendingNext]_(P!pendingVars)
<1>1. CASE Deliver(i)
  BY <1>1 DEF Deliver, P!PendingNext
<1>2. CASE FinishDeliver(i)
  <2>1. exch[i].req \in Request
    BY <1>2, AtType DEF FinishDeliver
  <2> QED
    BY <1>2, <2>1 DEF FinishDeliver, P!PendingNext
<1>3. CASE ~Deliver(i) /\ ~FinishDeliver(i)
  BY <1>3 DEF Handle, Greet, HandleConnect, HandleLogin, HandleExpired, HandleError, Publish,
              pendVars, P!pendingVars
<1> QED
  BY <1>1, <1>2, <1>3

(* Whatever else goes on in the session, its slot takes only the steps of     *)
(* PendingCmd with callers that overlap. So what is proved of PendingCmd for  *)
(* Serial = FALSE is about this slot, where None, Dead and Failed differ as   *)
(* PendingAssumption has them (winet.go, pendingCmd; its callers in           *)
(* poller.go, inverter_commands.go and the message handlers).                 *)
THEOREM SessionUsesPendingCmd == Spec => P!PendingInit /\ [][P!PendingNext]_(P!pendingVars)
<1>1. Init => P!PendingInit
  BY DEF Init
<1>2. TypeOK /\ [Next]_vars => [P!PendingNext]_(P!pendingVars)
  <2> SUFFICES ASSUME TypeOK, [Next]_vars
               PROVE  [P!PendingNext]_(P!pendingVars)
    OBVIOUS
  <2> USE DEF pendVars, P!pendingVars
  <2>1. CASE Supervise \/ Shutdown
    BY <2>1 DEF Supervise, Check, CancelPoll, FetchProperties, CloseOld, DialFails, DialSucceeds,
                Install, StartPoll, ConnectReturns, ConnectFails, BackoffElapses, TakeEvent, SeeDone,
                Shutdown
  <2>2. ASSUME NEW e \in Epoch, Break(e) \/ Notice(e) PROVE UNCHANGED pendVars
    BY <2>2 DEF Break, Notice
  <2>3. ASSUME NEW e \in Epoch, Poll(e) PROVE P!Leave(e) \/ UNCHANGED pendVars
    BY <2>3 DEF Poll, LoopEnter, LoopLoggedIn, LoopStop, LoopList, LoopListFailed,
                LoopListReturns, LoopDevice, LoopRegister, LoopQuery, LoopQueryFailed,
                LoopQueryReturns, LoopTick
  <2>4. ASSUME NEW i \in Id, Receive(i) \/ NoAnswer(i) PROVE UNCHANGED pendVars
    BY <2>4 DEF Receive, NoAnswer
  <2>5. ASSUME NEW i \in Id, Handle(i) PROVE [P!PendingNext]_(P!pendingVars)
    BY <2>5, HandlersUseSlot DEF TypeOK
  <2>6. ASSUME NEW w \in Waiter, Wait(w) \/ GetAnswer(w) \/ GiveUp(w) PROVE P!PendingNext
    BY <2>6, CallersUseSlot DEF Wait, GetAnswer, GiveUp
  <2>7. ASSUME NEW k \in Command, CmdCheck(k) \/ CmdSend(k) \/ CmdReturns(k)
        PROVE  P!Leave(k) \/ UNCHANGED pendVars
    BY <2>7 DEF CmdCheck, CmdSend, CmdReturns
  <2>8. \A w \in Waiter : P!Leave(w) => P!PendingNext
    BY CallersUseSlot
  <2>9. CASE UNCHANGED vars
    BY <2>9 DEF vars
  <2>10. Epoch \subseteq Waiter /\ Command \subseteq Waiter
    BY DEF Waiter
  <2>11. UNCHANGED pendVars => [P!PendingNext]_(P!pendingVars)
    OBVIOUS
  <2> QED
    BY <2>1, <2>2, <2>3, <2>4, <2>5, <2>6, <2>7, <2>8, <2>9, <2>10, <2>11 DEF Next
<1> QED
  BY <1>1, <1>2, SessionTypeCorrect, PTL DEF Spec
=============================================================================
