------------------------- MODULE WinetSession_answers -------------------------
(* What holds of the poll loop in service while handlers of sessions before,  *)
(* cancelled loops and commands are at work beside it, for any number of      *)
(* reconnects, devices and stages: it polls on its own connection, the panics *)
(* of login handlers and commands have their reasons, and as long as it has   *)
(* not gone adrift it gets the answer to its own request.                     *)
EXTENDS WinetSession_types, WellFoundedInduction

KindOf(i) == exch[i].req.kind
Owner(i) == exch[i].req.owner

(* A request of a poll loop, and the exchanges that log in.                   *)
Asks(i) == exch[i] # None /\ KindOf(i) \in {"list", "data"}
Greets(i) == exch[i] # None /\ KindOf(i) \in {"connect", "login"}

(* Only commands ask for parameters, and the answers that log in are handled  *)
(* without the pending slot.                                                  *)
KindInv ==
    \A i \in Id : exch[i] # None =>
        /\ KindOf(i) = "param" <=> Owner(i) \in Command
        /\ exch[i].st \in {"shown", "delivering"} => ~Greets(i)

(* Connect has a fresh loginReady, but no connection yet.                     *)
Dialling == sup \in {"fetch", "close", "dial"}

(* If loginReady is closed already, a session before has closed it.           *)
Unlogged == epoch \in loggedIn => epoch \in stale

(* A connection is logged in by one exchange, and as long as that of the last *)
(* Connect is under way, or still to come, nobody else has closed loginReady  *)
(* but a session before.                                                      *)
GreetInv ==
    /\ \A i, j \in Id : Greets(i) /\ Greets(j) /\ exch[i].conn = exch[j].conn => i = j
    /\ \A i \in Id : Greets(i) => exch[i].conn <= epoch
    /\ \A i \in Id : Greets(i) /\ exch[i].conn = epoch => ~Dialling /\ Unlogged
    /\ Dialling => Unlogged

(* The token is that of the last Connect, once it is logged in.               *)
LoginInv ==
    /\ \A g \in loggedIn : g <= epoch
    /\ epoch \in loggedIn => token = epoch \/ epoch \in stale

(* The poll loop that s.cancelPoll cancels is that of the last Connect, whose *)
(* connection is in use; and the loop in service waits at the loginReady of   *)
(* its own Connect and is past it only when that is closed.                   *)
LoopInv ==
    /\ cancelFn # 0 => cancelFn = epoch /\ conn = epoch
    /\ \A e \in Epoch : loop[e] # "none" => e <= epoch
    /\ Dialling \/ sup \in {"install", "start"} => loop[epoch] = "none"
    /\ \A e \in Epoch : Polls(e) /\ e \notin cancelled =>
          /\ loop[e] # "spawned" => gate[e] = e
          /\ loop[e] \notin {"spawned", "login"} => e \in loggedIn

HandshakeInv == KindInv /\ GreetInv /\ LoginInv /\ LoopInv

-----------------------------------------------------------------------------
(* A set of numbers that is not empty has a least one.                        *)
LEMMA Below == \A j, i \in Nat : j < i => <<j, i>> \in OpToRel(<, Nat)
BY DEF OpToRel

LEMMA LeastOf ==
  ASSUME NEW S, S \subseteq Nat, S # {}
  PROVE  \E x \in S : \A y \in S : x <= y
<1>1. PICK x \in S : \A y \in S : ~(<<y, x>> \in OpToRel(<, Nat))
  BY WFMin, NatLessThanWellFounded, Zenon
<1>2. \A y \in S : ~(y < x)
  BY <1>1, Below, Zenon
<1> QED
  BY <1>2

(* A sender takes an exchange that is free.                                   *)
LEMMA NextFreeIsFree ==
  ASSUME Free # {}
  PROVE  NextFree \in Id /\ exch[NextFree] = None
<1>1. Free \subseteq Nat
  BY SessionAssumption DEF Free, Id
<1>2. \E i \in Free : \A j \in Free : i <= j
  BY <1>1, LeastOf
<1>3. NextFree \in Free
  BY <1>2 DEF NextFree
<1> QED
  BY <1>3 DEF Free

(* What one step of a goroutine other than the supervisor's does to exchange  *)
(* i: nothing, it ends it, it moves it on, it goes from connecting to logging *)
(* in, or a poll loop or a command begins it.                                 *)
Ends(i) == exch'[i] = None

Moves(i) ==
    /\ exch[i] # None
    /\ exch'[i].req = exch[i].req /\ exch'[i].conn = exch[i].conn
    /\ exch'[i].st \in {"shown", "delivering"} => ~Greets(i)

LogsIn(i) ==
    /\ Greets(i)
    /\ exch'[i].conn = exch[i].conn
    /\ exch'[i].st = "sent" /\ exch'[i].req = Req("login", exch[i].conn, 0, 0)

Polled(i, e, r) ==
    /\ exch[i] = None /\ conn # 0
    /\ exch'[i] = [st |-> "sent", conn |-> conn, req |-> r]
    /\ \/ loop[e] = "list" /\ loop'[e] = "listWait" /\ r = Req("list", e, 0, 0)
       \/ loop[e] = "query" /\ loop'[e] = "dataWait" /\ r = Req("data", e, dev[e], stage[e])

Commanded(i, k) ==
    /\ exch[i] = None /\ conn # 0
    /\ exch'[i] = [st |-> "sent", conn |-> conn, req |-> Req("param", k, 0, 0)]

ExchangeStep(i) ==
    \/ exch'[i] = exch[i] \/ Ends(i) \/ Moves(i) \/ LogsIn(i)
    \/ \E e \in Epoch : \E r \in Request : Polled(i, e, r)
    \/ \E k \in Command : Commanded(i, k)

(* An exchange that is accepted by an open connection, or lost on a broken    *)
(* one.                                                                       *)
LEMMA SendsStep ==
  ASSUME ExchOK, NEW i \in Id, NEW c, NEW r, Sends(i, c, r)
  PROVE  /\ \A j \in Id \ {i} : exch'[j] = exch[j]
         /\ \/ exch'[i] = None
            \/ /\ exch'[i] = [st |-> "sent", conn |-> c, req |-> r]
               /\ exch'[i].st = "sent" /\ exch'[i].conn = c /\ exch'[i].req = r
BY DEF ExchOK, Sends

(* What a handler sends goes out on the connection its message came from.     *)
LEMMA ReplyStep ==
  ASSUME ExchOK, NEW i \in Id, NEW r, Sends(i, exch[i].conn, r)
  PROVE  /\ \A j \in Id \ {i} : exch'[j] = exch[j]
         /\ \/ exch'[i] = None
            \/ exch'[i].st = "sent" /\ exch'[i].conn = exch[i].conn /\ exch'[i].req = r
<1>1. CASE exch' = [exch EXCEPT ![i] = None]
  BY <1>1 DEF ExchOK
<1>2. CASE exch' = [exch EXCEPT ![i] = [st |-> "sent", conn |-> exch[i].conn, req |-> r]]
  BY <1>2 DEF ExchOK
<1> QED
  BY <1>1, <1>2 DEF Sends

LEMMA MoveStep ==
  ASSUME ExchOK, NEW i \in Id, exch[i] # None,
         NEW st \in {"sent", "arrived", "expired", "bad", "failed", "shown", "delivering"},
         st \in {"shown", "delivering"} => ~Greets(i),
         exch' = [exch EXCEPT ![i].st = st]
  PROVE  \A j \in Id : ExchangeStep(j)
<1>1. \A j \in Id \ {i} : exch'[j] = exch[j]
  BY DEF ExchOK
<1>2. exch[i] \in Exchange
  BY DEF ExchOK
<1>3. Moves(i)
  BY <1>2 DEF ExchOK, Exchange, Moves
<1> QED
  BY <1>1, <1>3 DEF ExchangeStep

LEMMA EndStep ==
  ASSUME ExchOK, NEW i \in Id, exch' = [exch EXCEPT ![i] = None]
  PROVE  \A j \in Id : ExchangeStep(j)
BY DEF ExchOK, ExchangeStep, Ends

LEMMA CutStep ==
  ASSUME NEW c, exch' = Cut(c)
  PROVE  \A j \in Id : exch'[j] \in {exch[j], None}
BY DEF Cut

LEMMA HandlerSteps ==
  ASSUME ExchOK, KindInv, NEW i \in Id, Handle(i)
  PROVE  \A j \in Id : ExchangeStep(j)
<1>a. exch[i] # None
  BY DEF Handle, Greet, HandleConnect, HandleLogin, HandleExpired, HandleError, Publish, Deliver,
         FinishDeliver, At
<1>b. exch[i] \in Exchange
  BY <1>a DEF ExchOK
<1>1. CASE Greet(i)
  <2>1. CASE Sends(i, exch[i].conn, exch[i].req)
    <3>1. /\ \A j \in Id \ {i} : exch'[j] = exch[j]
          /\ Ends(i) \/ Moves(i)
      BY <1>a, <2>1, ReplyStep DEF Ends, Moves
    <3> QED
      BY <3>1 DEF ExchangeStep
  <2>2. CASE exch' = [exch EXCEPT ![i].st = "failed"]
    BY <1>a, <2>2, MoveStep
  <2> QED
    BY <1>1, <2>1, <2>2 DEF Greet
<1>2. CASE HandleConnect(i)
  <2>1. CASE Sends(i, exch[i].conn, Req("login", exch[i].conn, 0, 0))
    <3>1. Greets(i)
      BY <1>a, <1>2 DEF HandleConnect, Greets, KindOf
    <3>2. \/ exch'[i] = None
          \/ /\ exch'[i].st = "sent" /\ exch'[i].conn = exch[i].conn
             /\ exch'[i].req = Req("login", exch[i].conn, 0, 0)
      BY <2>1, ReplyStep
    <3>3. \A j \in Id \ {i} : exch'[j] = exch[j]
      BY <2>1, ReplyStep
    <3>4. Ends(i) \/ LogsIn(i)
      BY <3>1, <3>2 DEF Ends, LogsIn
    <3> QED
      BY <3>3, <3>4 DEF ExchangeStep
  <2>2. CASE exch' = [exch EXCEPT ![i].st = "failed"]
    BY <1>a, <2>2, MoveStep
  <2> QED
    BY <1>2, <2>1, <2>2 DEF HandleConnect
<1>3. CASE HandleLogin(i) \/ HandleExpired(i) \/ HandleError(i) \/ FinishDeliver(i)
  BY <1>3, EndStep DEF HandleLogin, HandleExpired, HandleError, FinishDeliver
<1>4. CASE Publish(i)
  <2>1. CASE UNCHANGED exch
    BY <2>1 DEF ExchangeStep
  <2> QED
    BY <1>4, <1>a, <2>1, EndStep, MoveStep DEF Publish, Greets, KindOf
<1>5. CASE Deliver(i)
  <2>1. ~Greets(i)
    BY <1>5, <1>a DEF Deliver, At, KindInv, Greets, KindOf
  <2> QED
    BY <1>5, <1>a, <2>1, EndStep, MoveStep DEF Deliver
<1> QED
  BY <1>1, <1>2, <1>3, <1>4, <1>5 DEF Handle

LEMMA PollSteps ==
  ASSUME LoopOK, ExchOK, NEW e \in Epoch, Poll(e)
  PROVE  \A j \in Id : ExchangeStep(j)
<1>a. Req("list", e, 0, 0) \in Request /\ Req("data", e, dev[e], stage[e]) \in Request
  BY ReqType, SessionAssumption DEF LoopOK, Waiter, Kind
<1>1. CASE LoopList(e)
  <2>1. CASE Free # {} /\ Sends(NextFree, conn, Req("list", e, 0, 0)) /\ LoopTo(e, "listWait") /\ conn # 0
    <3>1. loop'[e] = "listWait"
      BY <2>1 DEF LoopTo, LoopOK
    <3> QED
      BY <1>1, <1>a, <2>1, <3>1, NextFreeIsFree, SendsStep DEF LoopList, LoopAt, ExchangeStep, Ends, Polled
  <2>2. CASE UNCHANGED exch
    BY <2>2 DEF ExchangeStep
  <2> QED
    BY <1>1, <2>1, <2>2 DEF LoopList, netVars
<1>2. CASE LoopQuery(e)
  <2>1. CASE /\ Free # {} /\ conn # 0
             /\ Sends(NextFree, conn, Req("data", e, dev[e], stage[e])) /\ LoopTo(e, "dataWait")
    <3>1. loop'[e] = "dataWait"
      BY <2>1 DEF LoopTo, LoopOK
    <3> QED
      BY <1>2, <1>a, <2>1, <3>1, NextFreeIsFree, SendsStep DEF LoopQuery, LoopAt, ExchangeStep, Ends, Polled
  <2>2. CASE UNCHANGED exch
    BY <2>2 DEF ExchangeStep
  <2> QED
    BY <1>2, <2>1, <2>2 DEF LoopQuery, netVars
<1>3. CASE ~LoopList(e) /\ ~LoopQuery(e)
  <2>1. UNCHANGED exch
    BY <1>3 DEF Poll, LoopEnter, LoopLoggedIn, LoopStop, LoopListFailed,
         LoopListReturns, LoopDevice, LoopRegister, LoopQueryFailed,
         LoopQueryReturns, LoopTick, netVars
  <2> QED
    BY <2>1 DEF ExchangeStep
<1> QED
  BY <1>1, <1>2, <1>3

LEMMA ExchangeSteps ==
  ASSUME TypeOK, KindInv, Next, ~Supervise
  PROVE  \A j \in Id : ExchangeStep(j)
<1>0. LoopOK /\ ExchOK
  BY DEF TypeOK
<1>1. ASSUME NEW e \in Epoch, Break(e) \/ Notice(e) PROVE \A j \in Id : ExchangeStep(j)
  BY <1>1, CutStep DEF Break, Notice, ExchangeStep, Ends
<1>2. ASSUME NEW e \in Epoch, Poll(e) PROVE \A j \in Id : ExchangeStep(j)
  BY <1>0, <1>2, PollSteps
<1>3. ASSUME NEW i \in Id, Receive(i) \/ NoAnswer(i) PROVE \A j \in Id : ExchangeStep(j)
  <2>1. exch[i] # None
    BY <1>3 DEF Receive, NoAnswer, At
  <2> QED
    BY <1>0, <1>3, <2>1, MoveStep, EndStep DEF Receive, NoAnswer
<1>4. ASSUME NEW i \in Id, Handle(i) PROVE \A j \in Id : ExchangeStep(j)
  BY <1>0, <1>4, HandlerSteps
<1>5. CASE exch' = exch
  BY <1>5 DEF ExchangeStep
<1>6. ASSUME NEW k \in Command, CmdSend(k) PROVE \A j \in Id : ExchangeStep(j)
  <2>1. CASE Free # {} /\ Sends(NextFree, conn, Req("param", k, 0, 0)) /\ conn # 0
    BY <1>0, <2>1, NextFreeIsFree, SendsStep DEF ExchangeStep, Ends, Commanded
  <2>2. CASE UNCHANGED exch
    BY <1>5, <2>2
  <2> QED
    BY <1>6, <2>1, <2>2 DEF CmdSend, netVars
<1>7. ASSUME NEW w \in Waiter, Wait(w) \/ GetAnswer(w) \/ GiveUp(w) PROVE \A j \in Id : ExchangeStep(j)
  BY <1>5, <1>7 DEF Wait, GetAnswer, GiveUp, netVars
<1>8. ASSUME NEW k \in Command, CmdCheck(k) \/ CmdReturns(k) PROVE \A j \in Id : ExchangeStep(j)
  BY <1>5, <1>8 DEF CmdCheck, CmdReturns, netVars
<1>9. CASE Shutdown
  BY <1>5, <1>9 DEF Shutdown, netVars
<1> QED
  BY <1>1, <1>2, <1>3, <1>4, <1>6, <1>7, <1>8, <1>9 DEF Next
-----------------------------------------------------------------------------
(* What a step other than the supervisor's leaves of who asks and who greets. *)
AskedBy(i, e) ==
    /\ Owner(i)' = e /\ Polls(e) /\ loop[e] \in {"list", "query"} /\ loop'[e] # loop[e]
    /\ conn # 0 /\ exch[i] = None /\ exch'[i].conn = conn

LEMMA AsksStep ==
  ASSUME NEW i \in Id, ExchangeStep(i), Asks(i)'
  PROVE  \/ Asks(i) /\ exch'[i].req = exch[i].req /\ exch'[i].conn = exch[i].conn
         \/ \E e \in Epoch : AskedBy(i, e)
<1> USE DEF Asks, KindOf, Owner
<1>1. ~Ends(i)
  BY DEF Ends
<1>2. CASE Moves(i)
  BY <1>2 DEF Moves
<1>3. ~LogsIn(i)
  BY DEF LogsIn, Req
<1>4. ASSUME NEW e \in Epoch, NEW r \in Request, Polled(i, e, r)
      PROVE  AskedBy(i, e)
  BY <1>4 DEF Polled, AskedBy, Polls, Req
<1>5. ASSUME NEW k \in Command PROVE ~Commanded(i, k)
  BY DEF Commanded, Req
<1> QED
  BY <1>1, <1>2, <1>3, <1>4, <1>5 DEF ExchangeStep

LEMMA GreetsStep ==
  ASSUME NEW i \in Id, ExchangeStep(i), Greets(i)'
  PROVE  Greets(i) /\ exch'[i].conn = exch[i].conn
<1> USE DEF Greets, KindOf
<1>1. ~Ends(i)
  BY DEF Ends
<1>2. CASE Moves(i)
  BY <1>2 DEF Moves
<1>3. CASE LogsIn(i)
  BY <1>3 DEF LogsIn
<1>4. ASSUME NEW e \in Epoch, NEW r \in Request PROVE ~Polled(i, e, r)
  BY DEF Polled, Req
<1>5. ASSUME NEW k \in Command PROVE ~Commanded(i, k)
  BY DEF Commanded, Req
<1> QED
  BY <1>1, <1>2, <1>3, <1>4, <1>5 DEF ExchangeStep

LEMMA KindStep ==
  ASSUME ExchOK, KindInv, \A i \in Id : ExchangeStep(i)
  PROVE  KindInv'
<1> SUFFICES ASSUME NEW i \in Id, exch'[i] # None
             PROVE  /\ KindOf(i)' = "param" <=> Owner(i)' \in Command
                    /\ exch'[i].st \in {"shown", "delivering"} => ~Greets(i)'
  BY DEF KindInv
<1> USE DEF KindInv, KindOf, Owner, Greets
<1>1. CASE exch'[i] = exch[i]
  BY <1>1
<1>2. CASE Moves(i)
  BY <1>2 DEF Moves
<1>3. CASE LogsIn(i)
  <2>1. exch[i].conn \in Epoch
    BY <1>3 DEF LogsIn, ExchOK, Exchange
  <2> QED
    BY <1>3, <2>1, SessionAssumption DEF LogsIn, Req
<1>4. ASSUME NEW e \in Epoch, NEW r \in Request, Polled(i, e, r)
      PROVE  /\ KindOf(i)' = "param" <=> Owner(i)' \in Command
             /\ exch'[i].st \notin {"shown", "delivering"}
  <2>1. e \notin Command
    BY SessionAssumption
  <2> QED
    BY <1>4, <2>1 DEF Polled, Req
<1>5. ASSUME NEW k \in Command, Commanded(i, k)
      PROVE  /\ KindOf(i)' = "param" <=> Owner(i)' \in Command
             /\ exch'[i].st \notin {"shown", "delivering"}
  BY <1>5 DEF Commanded, Req
<1> QED
  BY <1>1, <1>2, <1>3, <1>4, <1>5 DEF ExchangeStep, Ends

(* What a step other than the supervisor's does to the login state: a message *)
(* handler keeps a token and may let a poll loop pass its gate.               *)
TokenStep ==
    \/ UNCHANGED <<token, loggedIn, stale>>
    \/ \E i \in Id :
          /\ Greets(i) /\ token' = exch[i].conn
          /\ stale' = IF exch[i].conn = epoch THEN stale ELSE stale \cup {epoch}
          /\ \/ UNCHANGED loggedIn
             \/ loggedIn' = loggedIn \cup {epoch} /\ exch' = [exch EXCEPT ![i] = None]

GateStep(e) ==
    \/ gate'[e] = gate[e] /\ loop'[e] = loop[e]
    \/ gate'[e] = gate[e] /\ Polls(e) /\ loop'[e] = "exited"
    \/ gate'[e] = epoch /\ loop'[e] = "login" /\ loop[e] = "spawned"
    \/ gate'[e] = gate[e] /\ loop[e] = "login" /\ gate[e] \in loggedIn /\ loop'[e] = "list"
    \/ gate'[e] = gate[e] /\ loop[e] \notin {"none", "exited", "spawned", "login"}

LEMMA TokenSteps ==
  ASSUME Next, ~Supervise
  PROVE  TokenStep
<1> USE DEF TokenStep, connVars, loopVars
<1>1. ASSUME NEW e \in Epoch, Break(e) \/ Notice(e) PROVE TokenStep
  BY <1>1 DEF Break, Notice
<1>2. ASSUME NEW e \in Epoch, Poll(e) PROVE TokenStep
  BY <1>2 DEF Poll, LoopEnter, LoopLoggedIn, LoopStop, LoopList, LoopListFailed,
              LoopListReturns, LoopDevice, LoopRegister, LoopQuery, LoopQueryFailed,
              LoopQueryReturns, LoopTick
<1>3. ASSUME NEW i \in Id, Receive(i) \/ NoAnswer(i) PROVE TokenStep
  BY <1>3 DEF Receive, NoAnswer
<1>4. ASSUME NEW i \in Id, HandleConnect(i) \/ HandleLogin(i) PROVE TokenStep
  BY <1>4 DEF HandleConnect, HandleLogin, NoteStale, Greets, KindOf, At
<1>5. ASSUME NEW i \in Id, Handle(i), ~HandleConnect(i), ~HandleLogin(i) PROVE TokenStep
  BY <1>5 DEF Handle, Greet, HandleExpired, HandleError, Publish, Deliver, FinishDeliver
<1>6. ASSUME NEW w \in Waiter, Wait(w) \/ GetAnswer(w) \/ GiveUp(w) PROVE TokenStep
  BY <1>6 DEF Wait, GetAnswer, GiveUp
<1>7. ASSUME NEW k \in Command, CmdCheck(k) \/ CmdSend(k) \/ CmdReturns(k) PROVE TokenStep
  BY <1>7 DEF CmdCheck, CmdSend, CmdReturns
<1>8. CASE Shutdown
  BY <1>8 DEF Shutdown
<1> QED
  BY <1>1, <1>2, <1>3, <1>4, <1>5, <1>6, <1>7, <1>8 DEF Next

LEMMA OwnLoopOnly ==
  ASSUME NEW e \in Epoch, Poll(e)
  PROVE  \E pc : LoopTo(e, pc)
BY DEF Poll, EndCycle, LoopEnter, LoopLoggedIn, LoopStop, LoopList, LoopListFailed,
       LoopListReturns, LoopDevice, LoopRegister, LoopQuery, LoopQueryFailed,
       LoopQueryReturns, LoopTick

LEMMA GateSteps ==
  ASSUME LoopOK, Next, ~Supervise
  PROVE  \A e \in Epoch : GateStep(e)
<1> USE DEF GateStep, loopVars
<1>1. ASSUME NEW e \in Epoch, Break(e) \/ Notice(e) PROVE UNCHANGED loopVars
  BY <1>1 DEF Break, Notice
<1>2. ASSUME NEW e \in Epoch, Poll(e) PROVE \A f \in Epoch : GateStep(f)
  <2>1. \A f \in Epoch \ {e} : loop'[f] = loop[f] /\ gate'[f] = gate[f]
    <3>1. \A f \in Epoch \ {e} : loop'[f] = loop[f]
      BY <1>2, OwnLoopOnly DEF LoopOK, LoopTo
    <3>2. gate' = gate \/ gate' = [gate EXCEPT ![e] = epoch]
      BY <1>2 DEF Poll, LoopEnter, LoopLoggedIn, LoopStop, LoopList, LoopListFailed,
              LoopListReturns, LoopDevice, LoopRegister, LoopQuery, LoopQueryFailed,
              LoopQueryReturns, LoopTick
    <3> QED
      BY <3>1, <3>2 DEF LoopOK
  <2>2. GateStep(e)
    <3>1. CASE LoopEnter(e)
      BY <3>1 DEF LoopEnter, LoopAt, LoopTo, LoopOK
    <3>2. CASE LoopLoggedIn(e)
      BY <3>2 DEF LoopLoggedIn, LoopAt, LoopTo, LoopOK
    <3>3. CASE LoopStop(e)
      BY <3>3 DEF LoopStop, LoopTo, LoopOK, Polls
    <3>4. CASE ~LoopEnter(e) /\ ~LoopLoggedIn(e) /\ ~LoopStop(e)
      BY <1>2, <3>4
         DEF Poll, LoopAt, LoopList, LoopListFailed, LoopListReturns, LoopDevice, LoopRegister,
             LoopQuery, LoopQueryFailed, LoopQueryReturns, LoopTick
    <3> QED
      BY <3>1, <3>2, <3>3, <3>4
  <2> QED
    BY <2>1, <2>2
<1>3. ASSUME NEW i \in Id, Receive(i) \/ NoAnswer(i) PROVE UNCHANGED loopVars
  BY <1>3 DEF Receive, NoAnswer
<1>4. ASSUME NEW i \in Id, Handle(i) PROVE UNCHANGED loopVars
  BY <1>4 DEF Handle, Greet, HandleConnect, HandleLogin, HandleExpired, HandleError, Publish,
              Deliver, FinishDeliver
<1>5. ASSUME NEW w \in Waiter, Wait(w) \/ GetAnswer(w) \/ GiveUp(w) PROVE UNCHANGED loopVars
  BY <1>5 DEF Wait, GetAnswer, GiveUp
<1>6. ASSUME NEW k \in Command, CmdCheck(k) \/ CmdSend(k) \/ CmdReturns(k) PROVE UNCHANGED loopVars
  BY <1>6 DEF CmdCheck, CmdSend, CmdReturns
<1>7. CASE Shutdown
  BY <1>7 DEF Shutdown
<1>8. UNCHANGED loopVars => \A f \in Epoch : GateStep(f)
  OBVIOUS
<1> QED
  BY <1>1, <1>2, <1>3, <1>4, <1>5, <1>6, <1>7, <1>8 DEF Next

LEMMA GreetStep ==
  ASSUME TypeOK, GreetInv, Gentle, TokenStep, \A i \in Id : ExchangeStep(i)
  PROVE  GreetInv'
<1>0. UNCHANGED <<sup, epoch>> /\ Dialling' = Dialling
  BY DEF Gentle, Dialling
<1>1. \A i \in Id : Greets(i)' => Greets(i) /\ exch'[i].conn = exch[i].conn
  BY GreetsStep
<1>2. ASSUME NEW j \in Id, Greets(j), loggedIn' = loggedIn \cup {epoch},
             exch' = [exch EXCEPT ![j] = None], exch[j].conn = epoch
      PROVE  ~Dialling' /\ \A i \in Id : Greets(i)' => exch'[i].conn # epoch
  <2>1. exch'[j] = None
    BY <1>2 DEF TypeOK, ExchOK
  <2> QED
    BY <1>0, <1>1, <1>2, <2>1 DEF GreetInv, Greets
<1>3. ASSUME NEW j \in Id, Greets(j), stale' = stale \cup {epoch} PROVE Unlogged'
  BY <1>0, <1>3 DEF Unlogged
<1>4. Unlogged => \/ Unlogged'
                  \/ ~Dialling' /\ \A i \in Id : Greets(i)' => exch'[i].conn # epoch
  BY <1>0, <1>2, <1>3 DEF TokenStep, Unlogged
<1>5. (\A i, j \in Id : Greets(i) /\ Greets(j) /\ exch[i].conn = exch[j].conn => i = j)'
  BY <1>1 DEF GreetInv
<1>6. (\A i \in Id : Greets(i) => exch[i].conn <= epoch)'
  BY <1>0, <1>1 DEF GreetInv
<1>7. (\A i \in Id : Greets(i) /\ exch[i].conn = epoch => ~Dialling /\ Unlogged)'
  BY <1>0, <1>1, <1>4 DEF GreetInv
<1>8. (Dialling => Unlogged)'
  BY <1>0, <1>4 DEF GreetInv
<1> QED
  BY <1>5, <1>6, <1>7, <1>8 DEF GreetInv

LEMMA LoginStep ==
  ASSUME TypeOK, LoginInv, Gentle, TokenStep
  PROVE  LoginInv'
<1>1. epoch \in 0..MaxEpoch /\ MaxEpoch \in Nat /\ loggedIn \subseteq Epoch
  BY SessionAssumption DEF TypeOK, SupOK, ConnOK
<1>2. loggedIn' \in {loggedIn, loggedIn \cup {epoch}} /\ epoch' = epoch
  BY DEF TokenStep, Gentle
<1>3. (\A g \in loggedIn : g <= epoch)'
  BY <1>1, <1>2 DEF LoginInv, Epoch
<1>4. (epoch \in loggedIn => token = epoch \/ epoch \in stale)'
  BY <1>2 DEF TokenStep, LoginInv
<1> QED
  BY <1>3, <1>4 DEF LoginInv

LEMMA LoopStep ==
  ASSUME TypeOK, SessionInv, LoopInv, Gentle, TokenStep, \A e \in Epoch : GateStep(e)
  PROVE  LoopInv'
<1>0. UNCHANGED <<sup, epoch, conn, cancelled, cancelFn>> /\ Dialling' = Dialling
  BY DEF Gentle, Dialling
<1>1. \A e \in Epoch : loop'[e] # "none" => loop[e] # "none"
  BY DEF GateStep, Polls
<1>2. \A e \in Epoch : loop[e] = "none" => loop'[e] = "none"
  BY DEF GateStep, Polls
<1>3. (Dialling \/ sup \in {"install", "start"} => loop[epoch] = "none")'
  <2>1. Dialling \/ sup \in {"install", "start"} => epoch \in Epoch
    BY SessionAssumption DEF Dialling, SessionInv, ConnInv, Shape, Epoch
  <2> QED
    BY <1>0, <1>2, <2>1 DEF LoopInv
<1>4. loggedIn \subseteq loggedIn'
  BY DEF TokenStep
<1>5. ASSUME NEW e \in Epoch, Polls(e)', e \notin cancelled
      PROVE  /\ loop'[e] # "spawned" => gate'[e] = e
             /\ loop'[e] \notin {"spawned", "login"} => e \in loggedIn'
  <2>1. Polls(e) /\ e = epoch
    BY <1>5, SessionAssumption DEF Gentle, SessionInv, PollInv, LoopInv, Epoch
  <2>2. CASE gate'[e] = gate[e] /\ loop'[e] \in {loop[e], "exited"}
    BY <1>4, <1>5, <2>1, <2>2 DEF LoopInv, Polls
  <2>3. CASE gate'[e] = epoch /\ loop'[e] = "login" /\ loop[e] = "spawned"
    BY <2>1, <2>3
  <2>4. CASE gate'[e] = gate[e] /\ loop[e] = "login" /\ gate[e] \in loggedIn /\ loop'[e] = "list"
    BY <1>4, <1>5, <2>1, <2>4 DEF LoopInv
  <2>5. CASE gate'[e] = gate[e] /\ loop[e] \notin {"none", "exited", "spawned", "login"}
    BY <1>4, <1>5, <2>1, <2>5 DEF LoopInv
  <2> QED
    BY <2>2, <2>3, <2>4, <2>5 DEF GateStep
<1> QED
  BY <1>0, <1>1, <1>3, <1>5 DEF LoopInv
-----------------------------------------------------------------------------
(* The supervisor's own steps.                                                *)

(* Those that leave the connections, the poll loops and the exchanges alone.  *)
LEMMA IdleKeepsHandshake ==
  ASSUME HandshakeInv, UNCHANGED <<connVars, loopVars, exch, epoch>>,
         Dialling' => Dialling,
         (Dialling \/ sup \in {"install", "start"})' => Dialling \/ sup \in {"install", "start"}
  PROVE  HandshakeInv'
<1>1. /\ \A i \in Id : Greets(i)' = Greets(i)
      /\ \A e \in Epoch : Polls(e)' = Polls(e)
      /\ Unlogged' = Unlogged
  BY DEF loopVars, connVars, Greets, KindOf, Polls, Unlogged
<1>2. KindInv'
  BY DEF HandshakeInv, KindInv, KindOf, Owner, Greets
<1>3. GreetInv'
  BY <1>1 DEF HandshakeInv, GreetInv, connVars
<1>4. LoginInv'
  BY DEF HandshakeInv, LoginInv, connVars
<1>5. LoopInv'
  BY <1>1 DEF HandshakeInv, LoopInv, connVars, loopVars
<1> QED
  BY <1>2, <1>3, <1>4, <1>5 DEF HandshakeInv

LEMMA CancelKeepsHandshake ==
  ASSUME TypeOK, SessionInv, HandshakeInv, CancelPoll
  PROVE  HandshakeInv'
<1>0. /\ epoch \in Nat /\ epoch' = epoch + 1 /\ epoch' \in Epoch
      /\ loggedIn \subseteq Nat /\ Epoch \subseteq Nat
      /\ UNCHANGED <<loggedIn, conn, token, stale, exch, loop, gate>>
      /\ cancelFn' = 0 /\ cancelled \subseteq cancelled'
  BY SessionAssumption
     DEF CancelPoll, TypeOK, SupOK, ConnOK, SessionInv, Shape, Epoch, netVars, loopVars
<1>1. epoch' \notin loggedIn' /\ \A g \in loggedIn' : g <= epoch'
  BY <1>0 DEF HandshakeInv, LoginInv
<1>2. KindInv'
  BY <1>0 DEF HandshakeInv, KindInv, KindOf, Owner, Greets
<1>3. GreetInv'
  <2>1. \A i \in Id : /\ Greets(i)' = Greets(i)
                      /\ Greets(i) => exch[i].conn \in Nat /\ exch[i].conn <= epoch
    BY <1>0 DEF Greets, KindOf, HandshakeInv, GreetInv, TypeOK, ExchOK, Exchange
  <2> QED
    BY <1>0, <1>1, <2>1 DEF HandshakeInv, GreetInv, Unlogged
<1>4. LoginInv'
  BY <1>1 DEF LoginInv
<1>5. LoopInv'
  <2>1. \A e \in Epoch : loop[e] # "none" => e <= epoch
    BY DEF HandshakeInv, LoopInv
  <2>2. loop'[epoch'] = "none"
    BY <1>0, <2>1
  <2> QED
    BY <1>0, <2>1, <2>2 DEF HandshakeInv, LoopInv, Polls
<1> QED
  BY <1>2, <1>3, <1>4, <1>5 DEF HandshakeInv

LEMMA CloseKeepsHandshake ==
  ASSUME SessionInv, HandshakeInv, CloseOld
  PROVE  HandshakeInv'
<1>0. /\ sup = "close" /\ sup' = "dial" /\ cancelFn = 0
      /\ UNCHANGED <<epoch, loggedIn, stale, cancelFn, cancelled, loop, gate>>
  BY DEF CloseOld, loopVars, SessionInv, PollInv
<1>1. \A i \in Id : exch'[i] \in {exch[i], None}
  BY CutStep DEF CloseOld
<1>2. KindInv'
  BY <1>1 DEF HandshakeInv, KindInv, KindOf, Owner, Greets
<1>3. Unlogged /\ Unlogged' /\ Dialling /\ Dialling'
  BY <1>0 DEF HandshakeInv, GreetInv, Dialling, Unlogged
<1>4. GreetInv'
  <2>1. \A i \in Id : Greets(i)' => Greets(i) /\ exch'[i] = exch[i]
    BY <1>1 DEF Greets, KindOf
  <2> QED
    BY <1>0, <1>3, <2>1 DEF HandshakeInv, GreetInv
<1>5. LoginInv'
  BY <1>0, <1>3 DEF HandshakeInv, LoginInv, Unlogged
<1>6. LoopInv'
  BY <1>0, <1>3 DEF HandshakeInv, LoopInv, Polls
<1> QED
  BY <1>2, <1>4, <1>5, <1>6 DEF HandshakeInv

LEMMA DialKeepsHandshake ==
  ASSUME TypeOK, SessionInv, HandshakeInv, DialSucceeds
  PROVE  HandshakeInv'
<1>0. /\ sup = "dial" /\ sup' = "install" /\ epoch \in Epoch
      /\ UNCHANGED <<epoch, loggedIn, token, stale, cancelFn, cancelled, conn, loop, gate>>
  BY SessionAssumption DEF DialSucceeds, connVars, loopVars, SessionInv, Shape, ConnInv, Epoch
<1>1. NextFree \in Id /\ exch[NextFree] = None
  BY NextFreeIsFree DEF DialSucceeds
<1>2. /\ \A j \in Id \ {NextFree} : exch'[j] = exch[j]
      /\ exch'[NextFree] = [st |-> "todo", conn |-> epoch, req |-> Req("connect", epoch, 0, 0)]
  BY <1>1 DEF DialSucceeds, TypeOK, ExchOK
<1>3. Unlogged' /\ Dialling /\ ~Dialling'
  BY <1>0 DEF HandshakeInv, GreetInv, Dialling, Unlogged
<1>4. KindInv'
  <2>1. epoch \notin Command
    BY <1>0, SessionAssumption
  <2> QED
    BY <1>2, <2>1 DEF HandshakeInv, KindInv, KindOf, Owner, Greets, Req
<1>5. GreetInv'
  <2>1. \A i \in Id : Greets(i)' => \/ i # NextFree /\ Greets(i) /\ exch'[i] = exch[i]
                                              /\ exch[i].conn # epoch /\ exch[i].conn <= epoch
                                    \/ i = NextFree /\ exch'[i].conn = epoch
    BY <1>2, <1>3 DEF Greets, KindOf, HandshakeInv, GreetInv
  <2>2. epoch <= epoch
    BY <1>0 DEF Epoch
  <2> QED
    BY <1>0, <1>3, <2>1, <2>2 DEF HandshakeInv, GreetInv
<1>6. LoginInv'
  BY <1>0 DEF HandshakeInv, LoginInv
<1>7. LoopInv'
  BY <1>0, <1>3 DEF HandshakeInv, LoopInv, Polls
<1> QED
  BY <1>4, <1>5, <1>6, <1>7 DEF HandshakeInv

LEMMA InstallKeepsHandshake ==
  ASSUME SessionInv, HandshakeInv, Install \/ StartPoll
  PROVE  HandshakeInv'
<1>0. /\ sup \in {"install", "start"} /\ sup' \in {"start", "return"} /\ epoch \in Epoch
      /\ UNCHANGED <<epoch, loggedIn, token, stale, cancelled, gate, exch>>
  BY SessionAssumption DEF Install, StartPoll, loopVars, netVars, SessionInv, Shape, ConnInv, Epoch
<1>1. KindInv'
  BY <1>0 DEF HandshakeInv, KindInv, KindOf, Owner, Greets
<1>2. GreetInv'
  <2>1. ~Dialling' /\ Unlogged' = Unlogged /\ \A i \in Id : Greets(i)' = Greets(i)
    BY <1>0 DEF Dialling, Unlogged, Greets, KindOf
  <2> QED
    BY <1>0, <2>1 DEF HandshakeInv, GreetInv
<1>3. LoginInv'
  BY <1>0 DEF HandshakeInv, LoginInv
<1>4. CASE Install
  <2>1. cancelFn = 0 /\ UNCHANGED <<cancelFn, loop>> /\ ~Dialling'
    BY <1>4 DEF Install, loopVars, SessionInv, PollInv, Dialling
  <2>2. LoopInv'
    BY <1>0, <1>4, <2>1 DEF Install, HandshakeInv, LoopInv, Polls
  <2> QED
    BY <1>1, <1>2, <1>3, <2>2 DEF HandshakeInv
<1>5. CASE StartPoll
  <2>1. /\ cancelFn' = epoch /\ conn = epoch /\ conn' = conn /\ sup' = "return"
        /\ loop' = [loop EXCEPT ![epoch] = "spawned"]
    BY <1>5 DEF StartPoll, SessionInv, HealthInv
  <2>2. loop'[epoch] = "spawned" /\ \A e \in Epoch \ {epoch} : loop'[e] = loop[e]
    BY <1>0, <2>1 DEF SessionInv, Shape
  <2>3. LoopInv'
    BY <1>0, <2>1, <2>2, SessionAssumption DEF HandshakeInv, LoopInv, Polls, Dialling, Epoch
  <2> QED
    BY <1>1, <1>2, <1>3, <2>3 DEF HandshakeInv
<1> QED
  BY <1>4, <1>5

LEMMA SupervisorKeepsHandshake ==
  ASSUME TypeOK, SessionInv, HandshakeInv, Supervise
  PROVE  HandshakeInv'
<1>1. CASE \/ Check \/ FetchProperties \/ DialFails \/ ConnectReturns \/ ConnectFails
           \/ BackoffElapses \/ TakeEvent \/ SeeDone
  BY <1>1, IdleKeepsHandshake
     DEF Check, FetchProperties, DialFails, ConnectReturns, ConnectFails, BackoffElapses, TakeEvent,
         SeeDone, netVars, Dialling
<1> QED
  BY <1>1, CancelKeepsHandshake, CloseKeepsHandshake, DialKeepsHandshake, InstallKeepsHandshake
     DEF Supervise

(* However sessions overlap, the logins and the loop in service keep to this. *)
LEMMA HandshakeInvariant == Spec => []HandshakeInv
<1>1. Init => HandshakeInv
  BY SessionAssumption
     DEF Init, HandshakeInv, KindInv, GreetInv, LoginInv, LoopInv, Greets, Polls, Dialling, Epoch
<1>2. TypeOK /\ SessionInv /\ HandshakeInv /\ [Next]_vars => HandshakeInv'
  <2> SUFFICES ASSUME TypeOK, SessionInv, HandshakeInv, [Next]_vars
               PROVE  HandshakeInv'
    OBVIOUS
  <2>1. CASE Supervise
    BY <2>1, SupervisorKeepsHandshake
  <2>2. CASE Next /\ ~Supervise
    <3>1. Gentle
      <4>1. ASSUME NEW e \in Epoch, Poll(e) PROVE Gentle
        BY <4>1, PollLoopsAreGentle DEF SessionInv
      <4> QED
        BY <2>2, <4>1, HandlersAreGentle, CommandsAreGentle DEF SessionInv, Next
    <3>2. /\ \A i \in Id : ExchangeStep(i)
          /\ TokenStep
          /\ \A e \in Epoch : GateStep(e)
      BY <2>2, ExchangeSteps, TokenSteps, GateSteps DEF TypeOK, HandshakeInv
    <3>3. KindInv'
      BY <3>2, KindStep DEF TypeOK, HandshakeInv
    <3>4. GreetInv' /\ LoginInv' /\ LoopInv'
      BY <3>1, <3>2, GreetStep, LoginStep, LoopStep DEF HandshakeInv
    <3> QED
      BY <3>3, <3>4 DEF HandshakeInv
  <2>3. CASE UNCHANGED vars
    <3>1. UNCHANGED <<connVars, loopVars, exch, epoch, sup>>
      BY <2>3 DEF vars, supVars, netVars
    <3> QED
      BY <3>1, IdleKeepsHandshake DEF Dialling
  <2> QED
    BY <2>1, <2>2, <2>3
<1> QED
  BY <1>1, <1>2, SessionTypeCorrect, SessionInvInvariant, PTL DEF Spec

(* The panics of login handlers and of commands.                              *)
LEMMA PanicSteps ==
  ASSUME Next
  PROVE  /\ panic' = "closed channel" => \E i \in Id : HandleLogin(i)
         /\ panic' = "nil pointer" => conn = 0 /\ \E k \in Command : CmdSend(k)
<1> USE DEF flags
<1>0. panic = "none"
  BY DEF Next
<1>1. CASE Supervise \/ Shutdown
  BY <1>0, <1>1
     DEF Supervise, Check, CancelPoll, FetchProperties, CloseOld, DialFails, DialSucceeds, Install,
         StartPoll, ConnectReturns, ConnectFails, BackoffElapses, TakeEvent, SeeDone, Shutdown
<1>2. ASSUME NEW e \in Epoch, Break(e) \/ Notice(e) PROVE UNCHANGED panic
  BY <1>2 DEF Break, Notice
<1>3. ASSUME NEW e \in Epoch, Poll(e) PROVE UNCHANGED panic
  BY <1>3 DEF Poll, LoopEnter, LoopLoggedIn, LoopStop, LoopList, LoopListFailed,
              LoopListReturns, LoopDevice, LoopRegister, LoopQuery, LoopQueryFailed,
              LoopQueryReturns, LoopTick
<1>4. ASSUME NEW i \in Id, Receive(i) \/ NoAnswer(i) PROVE UNCHANGED panic
  BY <1>4 DEF Receive, NoAnswer
<1>5. ASSUME NEW i \in Id, Handle(i), ~HandleLogin(i) PROVE panic' \in {panic, "nil number"}
  BY <1>5 DEF Handle, Greet, HandleConnect, HandleExpired, HandleError, Publish, Deliver,
              FinishDeliver
<1>a. ASSUME NEW i \in Id, HandleLogin(i) PROVE panic' \in {"none", "closed channel"}
  BY <1>a DEF HandleLogin
<1>6. ASSUME NEW w \in Waiter, Wait(w) \/ GetAnswer(w) \/ GiveUp(w) PROVE UNCHANGED panic
  BY <1>6 DEF Wait, GetAnswer, GiveUp
<1>7. ASSUME NEW k \in Command, CmdCheck(k) \/ CmdSend(k) \/ CmdReturns(k)
      PROVE  UNCHANGED panic \/ (panic' = "nil pointer" /\ conn = 0 /\ CmdSend(k))
  BY <1>7 DEF CmdCheck, CmdSend, CmdReturns
<1> QED
  BY <1>0, <1>1, <1>2, <1>3, <1>4, <1>5, <1>a, <1>6, <1>7 DEF Next
-----------------------------------------------------------------------------
(* The requests of the poll loop in service go out on the connection it was   *)
(* started for and with the token of that connection's handshake, whatever    *)
(* cancelled loops, commands and handlers of sessions before do meanwhile;    *)
(* only a login message of a session before, handled since Connect began, can *)
(* have replaced the token (poller.go, runPollLoop; login.go).                *)
THEOREM PollsStayInTheirSession == Spec => PollsOwnSession
<1>1. TypeOK /\ SessionInv /\ HandshakeInv /\ [Next]_vars
        => [\A i \in Id :
              exch[i] = None /\ exch'[i] # None /\ exch'[i].req.kind \in {"list", "data"} =>
                LET e == exch'[i].req.owner IN
                  ~Done(e) => exch'[i].conn = e /\ (token = e \/ e \in stale)]_vars
  <2> SUFFICES ASSUME TypeOK, SessionInv, HandshakeInv, Next, NEW i \in Id, exch[i] = None, Asks(i)',
                      ~Done(Owner(i)')
               PROVE  exch'[i].conn = Owner(i)' /\ (token = Owner(i)' \/ Owner(i)' \in stale)
    BY DEF Asks, KindOf, Owner
  <2>1. ~Supervise
    <3>1. CASE DialSucceeds
      <4>1. exch'[i] \in {None, [st |-> "todo", conn |-> epoch, req |-> Req("connect", epoch, 0, 0)]}
        BY <3>1 DEF DialSucceeds, TypeOK, ExchOK
      <4> QED
        BY <4>1 DEF Asks, KindOf, Req
    <3>2. CASE Supervise /\ ~DialSucceeds
      <4>1. exch'[i] \in {exch[i], None}
        BY <3>2, CutStep
           DEF Supervise, Check, CancelPoll, FetchProperties, CloseOld, DialFails, Install, StartPoll,
               ConnectReturns, ConnectFails, BackoffElapses, TakeEvent, SeeDone, netVars
      <4> QED
        BY <4>1 DEF Asks
    <3> QED
      BY <3>1, <3>2
  <2>2. ExchangeStep(i)
    BY <2>1, ExchangeSteps DEF HandshakeInv
  <2>3. PICK e \in Epoch : AskedBy(i, e)
    BY <2>2, AsksStep DEF Asks
  <2>4. Owner(i)' = e /\ Polls(e) /\ e \notin cancelled /\ e # 0
    BY <2>3, SessionAssumption DEF AskedBy, Done, Epoch
  <2>5. e = epoch /\ e = conn
    BY <2>4 DEF SessionInv, PollInv, HandshakeInv, LoopInv
  <2>6. e \in loggedIn
    BY <2>3, <2>4 DEF AskedBy, HandshakeInv, LoopInv
  <2> QED
    BY <2>3, <2>4, <2>5, <2>6 DEF AskedBy, HandshakeInv, LoginInv
<1> QED
  BY <1>1, SessionTypeCorrect, SessionInvInvariant, HandshakeInvariant, PTL DEF Spec, PollsOwnSession

(* No login handler finds loginReady closed unless a login message of a       *)
(* session before was handled since Connect began (login.go,                  *)
(* handleLoginMessage).                                                       *)
THEOREM NoDoubleClose == Spec => []ClosedOnce
<1>1. Init => ClosedOnce
  BY DEF Init, ClosedOnce
<1>2. HandshakeInv /\ ClosedOnce /\ [Next]_vars => ClosedOnce'
  <2> SUFFICES ASSUME HandshakeInv, ClosedOnce, [Next]_vars, panic' = "closed channel"
               PROVE  epoch' \in stale'
    BY DEF ClosedOnce
  <2>1. CASE UNCHANGED vars
    BY <2>1 DEF vars, flags, supVars, connVars, ClosedOnce
  <2>2. CASE Next
    <3>1. PICK i \in Id : HandleLogin(i)
      BY <2>2, PanicSteps
    <3>2. epoch \in loggedIn /\ epoch' = epoch /\ Greets(i)
      BY <3>1 DEF HandleLogin, supVars, At, Greets, KindOf
    <3>3. CASE exch[i].conn = epoch
      BY <3>1, <3>2, <3>3 DEF HandshakeInv, GreetInv, Unlogged, HandleLogin, NoteStale
    <3>4. CASE exch[i].conn # epoch
      BY <3>1, <3>2, <3>4 DEF HandleLogin, NoteStale
    <3> QED
      BY <3>3, <3>4
  <2> QED
    BY <2>1, <2>2
<1> QED
  BY <1>1, <1>2, HandshakeInvariant, PTL DEF Spec

(* A command runs into a missing connection only while /health does not claim *)
(* one (inverter_commands.go:54).                                             *)
THEOREM PanicsOnlyWhileAway == Spec => []NilWhileAway
<1>1. Init => NilWhileAway
  BY DEF Init, NilWhileAway
<1>2. SessionInv /\ NilWhileAway /\ [Next]_vars => NilWhileAway'
  <2> SUFFICES ASSUME SessionInv, NilWhileAway, [Next]_vars, panic' = "nil pointer"
               PROVE  health' # "connected"
    BY DEF NilWhileAway
  <2>1. CASE UNCHANGED vars
    BY <2>1 DEF vars, flags, supVars, NilWhileAway
  <2>2. CASE Next
    <3>1. conn = 0 /\ \E k \in Command : CmdSend(k)
      BY <2>2, PanicSteps
    <3>2. health' = health
      BY <3>1 DEF CmdSend, supVars
    <3> QED
      BY <3>1, <3>2 DEF SessionInv, HealthInv
  <2> QED
    BY <2>1, <2>2
<1> QED
  BY <1>1, <1>2, SessionInvInvariant, PTL DEF Spec
-----------------------------------------------------------------------------
(* Answers.  The request r is the one the poll loop of epoch e waits for now. *)
Right(e, r) ==
    \/ loop[e] = "listWait" /\ r = Req("list", e, 0, 0)
    \/ loop[e] = "dataWait" /\ r = Req("data", e, dev[e], stage[e])

Asking(e) == {i \in Id : Asks(i) /\ Owner(i) = e}

(* A poll loop is inside wait only when it waits, and its channel and answer  *)
(* are in use only there.  As long as it is in service and not adrift, at     *)
(* most one request of it is under way, the one it waits for; an answer to it *)
(* in the channel is that to this request, and then none is under way; and    *)
(* the answer taken from the channel is of this kind.                         *)
TurnInv(e) ==
    /\ phase[e] # "idle" => loop[e] \in {"listWait", "dataWait"}
    /\ chan[e] # None => phase[e] = "waiting"
    /\ answer[e] # None => phase[e] = "leaving"
    /\ ~Done(e) /\ e \notin adrift =>
        /\ \A i \in Asking(e) : Right(e, exch[i].req) /\ \A j \in Asking(e) : i = j
        /\ phase[e] = "leaving" => Asking(e) = {}
        /\ chan[e] # None /\ chan[e].owner = e => Right(e, chan[e]) /\ Asking(e) = {}
        /\ answer[e] \notin {None, Failed} => Right(e, answer[e])

(* The current device is the one whose data the poll loop in service is       *)
(* after, or one a cancelled loop has set.                                    *)
DeviceOf(e) == device = <<e, dev[e]>> \/ device \in cancelled \X (0..NumDevices)

DeviceInv ==
    \A e \in Epoch \ cancelled :
        loop[e] \in {"register", "query", "dataFailed", "dataWait"} => DeviceOf(e)

AnswerInv == (\A e \in Epoch : TurnInv(e)) /\ DeviceInv

(* A step that does not touch the poll loop of epoch e nor its call of wait.  *)
LEMMA Untouched ==
  ASSUME NEW e \in Epoch, TurnInv(e),
         loop'[e] = loop[e], dev'[e] = dev[e], stage'[e] = stage[e],
         phase'[e] = phase[e], chan'[e] = chan[e], answer'[e] = answer[e],
         Done(e) => Done(e)', adrift \subseteq adrift',
         \A i \in Id : Asks(i)' /\ Owner(i)' = e => Asks(i) /\ exch'[i].req = exch[i].req
  PROVE  TurnInv(e)'
<1>1. \A i \in Asking(e)' : i \in Asking(e) /\ exch'[i].req = exch[i].req
  BY DEF Asking, Owner
<1>2. \A r : Right(e, r) => Right(e, r)'
  BY DEF Right, Req
<1> QED
  BY <1>1, <1>2 DEF TurnInv

(* A poll loop that is not waiting has no call and, in service, no request.   *)
LEMMA NotWaiting ==
  ASSUME NEW e \in Epoch, TurnInv(e), loop[e] \notin {"listWait", "dataWait"}
  PROVE  /\ phase[e] = "idle" /\ chan[e] = None /\ answer[e] = None
         /\ Done(e) \/ e \in adrift \/ Asking(e) = {}
BY DEF TurnInv, Right

(* The same after a step: nothing is called and nothing is under way.         *)
LEMMA Resting ==
  ASSUME NEW e \in Epoch, phase'[e] = "idle", chan'[e] = None, answer'[e] = None,
         Done(e)' \/ e \in adrift' \/ Asking(e)' = {}
  PROVE  TurnInv(e)'
BY DEF TurnInv

(* Steps that leave the poll loops and the device alone.                      *)
LEMMA DeviceKept ==
  ASSUME DeviceInv, UNCHANGED <<loop, dev, device>>, cancelled \subseteq cancelled'
  PROVE  DeviceInv'
BY DEF DeviceInv, DeviceOf

(* Steps that leave the slot alone besides, and start no request of a poll    *)
(* loop.                                                                      *)
LEMMA OthersKeepAnswers ==
  ASSUME AnswerInv, UNCHANGED <<loopVars, chan, phase, answer, adrift, device>>,
         cancelled \subseteq cancelled', ctxDone => ctxDone',
         \A i \in Id : Asks(i)' => Asks(i) /\ exch'[i].req = exch[i].req
  PROVE  AnswerInv'
<1>1. ASSUME NEW e \in Epoch PROVE TurnInv(e)'
  BY Untouched DEF AnswerInv, loopVars, Done
<1> QED
  BY <1>1, DeviceKept DEF AnswerInv, loopVars

LEMMA SupervisorKeepsAnswers ==
  ASSUME TypeOK, SessionInv, HandshakeInv, AnswerInv, Supervise
  PROVE  AnswerInv'
<1>1. CASE StartPoll
  <2>1. epoch \in Epoch /\ loop[epoch] = "none"
    BY <1>1 DEF StartPoll, SessionInv, HealthInv, TypeOK, SupOK, Epoch, HandshakeInv, LoopInv
  <2>2. UNCHANGED <<pendVars, dev, stage, device, ctxDone, cancelled, exch>>
    BY <1>1 DEF StartPoll, flags, netVars
  <2>3. loop'[epoch] = "spawned" /\ \A e \in Epoch \ {epoch} : loop'[e] = loop[e]
    BY <1>1, <2>1 DEF StartPoll, TypeOK, LoopOK
  <2>4. \A e \in Epoch : Asking(e)' = Asking(e) /\ Done(e)' = Done(e)
    BY <2>2 DEF Asking, Asks, KindOf, Owner, Done
  <2>5. ASSUME NEW e \in Epoch, e = epoch PROVE TurnInv(e)'
    <3>1. /\ phase[e] = "idle" /\ chan[e] = None /\ answer[e] = None
          /\ Done(e) \/ e \in adrift \/ Asking(e) = {}
      BY <2>1, <2>5, NotWaiting DEF AnswerInv
    <3> QED
      BY <2>2, <2>4, <3>1, Resting DEF pendVars
  <2>6. ASSUME NEW e \in Epoch, e # epoch PROVE TurnInv(e)'
    BY <2>2, <2>3, <2>6, Untouched DEF AnswerInv, pendVars, Done, Asks, KindOf
  <2>7. DeviceInv'
    BY <2>1, <2>2, <2>3 DEF AnswerInv, DeviceInv, DeviceOf
  <2> QED
    BY <2>5, <2>6, <2>7 DEF AnswerInv
<1>2. CASE DialSucceeds
  <2>1. ASSUME NEW i \in Id, Asks(i)' PROVE Asks(i) /\ exch'[i].req = exch[i].req
    <3>1. CASE i = NextFree
      <4>1. exch'[i] = [st |-> "todo", conn |-> epoch, req |-> Req("connect", epoch, 0, 0)]
        BY <1>2, <3>1 DEF DialSucceeds, TypeOK, ExchOK
      <4> QED
        BY <2>1, <4>1 DEF Asks, KindOf, Req
    <3>2. CASE i # NextFree
      <4>1. exch'[i] = exch[i]
        BY <1>2, <3>2 DEF DialSucceeds, TypeOK, ExchOK
      <4> QED
        BY <2>1, <4>1 DEF Asks, KindOf
    <3> QED
      BY <3>1, <3>2
  <2> QED
    BY <1>2, <2>1, OthersKeepAnswers DEF DialSucceeds, connVars, pendVars, flags
<1>3. CASE Supervise /\ ~StartPoll /\ ~DialSucceeds
  <2>1. \A i \in Id : exch'[i] \in {exch[i], None}
    BY <1>3, CutStep
       DEF Supervise, Check, CancelPoll, FetchProperties, CloseOld, DialFails, Install,
           ConnectReturns, ConnectFails, BackoffElapses, TakeEvent, SeeDone, netVars
  <2>2. \A i \in Id : Asks(i)' => Asks(i) /\ exch'[i].req = exch[i].req
    BY <2>1 DEF Asks, KindOf
  <2>3. /\ UNCHANGED <<loopVars, chan, phase, answer, adrift, device, ctxDone>>
        /\ cancelled \subseteq cancelled'
    BY <1>3
       DEF Supervise, Check, CancelPoll, FetchProperties, CloseOld, DialFails, Install,
           ConnectReturns, ConnectFails, BackoffElapses, TakeEvent, SeeDone, pendVars, connVars, flags
  <2> QED
    BY <2>2, <2>3, OthersKeepAnswers
<1> QED
  BY <1>1, <1>2, <1>3

(* pending.deliver makes its send: an answer to a request of the poll loop    *)
(* whose channel it reaches is the answer to its only request.                *)
LEMMA DeliveryKeepsAnswers ==
  ASSUME TypeOK, HandshakeInv, AnswerInv, NEW i \in Id, FinishDeliver(i)
  PROVE  AnswerInv'
<1>0. /\ UNCHANGED <<loopVars, phase, answer, adrift, device, ctxDone, cancelled>>
      /\ \A e \in Epoch : Done(e)' = Done(e)
  BY DEF FinishDeliver, P!Push, connVars, flags, Done
<1>1. exch' = [exch EXCEPT ![i] = None] /\ P!Push(i, exch[i].req) /\ exch[i] # None
  BY DEF FinishDeliver, At
<1>2. \A j \in Id : Asks(j)' => j # i /\ Asks(j) /\ exch'[j].req = exch[j].req
  <2>1. \A j \in Id \ {i} : exch'[j] = exch[j]
    BY <1>1 DEF TypeOK, ExchOK
  <2>2. exch'[i] = None
    BY <1>1 DEF TypeOK, ExchOK
  <2> QED
    BY <2>1, <2>2 DEF Asks, KindOf
<1>3. chan \in [Waiter -> Request \cup {None}]
  BY DEF TypeOK, SlotOK, P!PendingTypeOK
<1>4. ASSUME NEW w \in Epoch, chan'[w] # chan[w] PROVE TurnInv(w)'
  <2>1. phase[w] = "waiting" /\ chan[w] = None /\ chan'[w] = exch[i].req
    BY <1>1, <1>3, <1>4 DEF P!Push, P!Reads
  <2>2. answer[w] = None /\ loop[w] \in {"listWait", "dataWait"}
    BY <2>1 DEF AnswerInv, TurnInv
  <2>3. CASE Done(w) \/ w \in adrift
    BY <1>0, <2>1, <2>2, <2>3 DEF TurnInv, loopVars
  <2>4. CASE ~Done(w) /\ w \notin adrift /\ Owner(i) # w
    <3>1. \A j \in Asking(w)' : j \in Asking(w) /\ exch'[j].req = exch[j].req
      BY <1>2 DEF Asking, Owner
    <3>2. \A r : Right(w, r) => Right(w, r)'
      BY <1>0 DEF Right, Req, loopVars
    <3>3. chan'[w].owner # w
      BY <2>1, <2>4 DEF Owner
    <3> QED
      BY <1>0, <2>1, <2>2, <2>4, <3>1, <3>2, <3>3 DEF AnswerInv, TurnInv, loopVars
  <2>5. CASE ~Done(w) /\ w \notin adrift /\ Owner(i) = w
    <3>1. exch[i].st = "delivering" /\ exch[i].req.kind \in Kind /\ exch[i].req.owner \in Waiter
      BY <1>1 DEF FinishDeliver, At, TypeOK, ExchOK, Exchange, Request
    <3>2. w \notin Command
      BY SessionAssumption
    <3>3. i \in Asking(w)
      BY <1>1, <2>5, <3>1, <3>2
         DEF HandshakeInv, KindInv, KindOf, Owner, Greets, Asks, Kind, Asking
    <3>4. Right(w, exch[i].req) /\ \A j \in Asking(w) : j = i
      BY <2>5, <3>3 DEF AnswerInv, TurnInv
    <3>5. Asking(w)' = {}
      <4> SUFFICES ASSUME NEW j \in Id, Asks(j)', Owner(j)' = w PROVE FALSE
        BY DEF Asking
      <4>1. j \in Asking(w)
        BY <1>2 DEF Asking, Owner
      <4> QED
        BY <1>2, <3>4, <4>1
    <3>6. Right(w, chan[w])'
      BY <1>0, <2>1, <3>4 DEF Right, Req, loopVars
    <3> QED
      BY <1>0, <2>1, <2>2, <3>5, <3>6 DEF TurnInv, loopVars
  <2> QED
    BY <2>3, <2>4, <2>5
<1>5. ASSUME NEW w \in Epoch, chan'[w] = chan[w] PROVE TurnInv(w)'
  BY <1>0, <1>2, <1>5, Untouched DEF AnswerInv, loopVars
<1>6. DeviceInv'
  BY <1>0, DeviceKept DEF AnswerInv, loopVars
<1> QED
  BY <1>4, <1>5, <1>6 DEF AnswerInv

(* The calls of wait: a call is registered, takes an answer, or gives up.     *)
LEMMA CallsKeepAnswers ==
  ASSUME TypeOK, AnswerInv, NEW w \in Waiter, Wait(w) \/ GetAnswer(w) \/ GiveUp(w)
  PROVE  AnswerInv'
<1>0. /\ UNCHANGED <<loopVars, exch, device, ctxDone, cancelled>> /\ adrift \subseteq adrift'
      /\ \A e \in Epoch : Done(e)' = Done(e) /\ Asking(e)' = Asking(e)
  BY DEF Wait, GetAnswer, GiveUp, NoteAdrift, connVars, netVars, flags, Done, Asking, Asks, Owner, KindOf
<1>1. /\ phase \in [Waiter -> {"idle", "waiting", "leaving"}]
      /\ chan \in [Waiter -> Request \cup {None}]
      /\ answer \in [Waiter -> Request \cup {Failed, None}]
      /\ Epoch \subseteq Waiter
  BY DEF TypeOK, SlotOK, P!PendingTypeOK, Waiter
<1>2. \A e \in Epoch \ {w} : phase'[e] = phase[e] /\ chan'[e] = chan[e] /\ answer'[e] = answer[e]
  BY <1>1 DEF Wait, GetAnswer, GiveUp, P!Register, P!TakeValue, P!GiveUp
<1>3. ASSUME NEW e \in Epoch, e # w PROVE TurnInv(e)'
  BY <1>0, <1>2, <1>3, Untouched DEF AnswerInv, loopVars, Asks, KindOf
<1>4. DeviceInv'
  BY <1>0, DeviceKept DEF AnswerInv, loopVars
<1>5. ASSUME w \in Epoch PROVE TurnInv(w)'
  <2>0. TurnInv(w) /\ \A r : Right(w, r) => Right(w, r)'
    BY <1>0, <1>5 DEF AnswerInv, Right, Req, loopVars
  <2>1. CASE Wait(w)
    <3>1. /\ loop[w] \in {"listWait", "dataWait"} /\ phase[w] = "idle"
          /\ phase'[w] = "waiting" /\ chan'[w] = None /\ answer'[w] = answer[w]
      BY <1>1, <1>5, <2>1, SessionAssumption DEF Wait, Waits, P!Register
    <3>2. answer[w] = None
      BY <2>0, <3>1 DEF TurnInv
    <3> QED
      BY <1>0, <1>5, <2>0, <3>1, <3>2 DEF TurnInv, loopVars
  <2>2. CASE GetAnswer(w)
    <3>1. /\ phase[w] = "waiting" /\ chan[w] # None
          /\ phase'[w] = "leaving" /\ chan'[w] = None /\ answer'[w] = chan[w]
      BY <1>1, <2>2 DEF GetAnswer, P!TakeValue
    <3>2. Done(w) \/ w \in adrift' \/ chan[w].owner = w
      BY <2>2 DEF GetAnswer, NoteAdrift, CtxDone, Done
    <3> QED
      BY <1>0, <1>5, <2>0, <3>1, <3>2 DEF TurnInv, loopVars
  <2>3. CASE GiveUp(w)
    <3>1. /\ phase[w] = "waiting"
          /\ phase'[w] = "leaving" /\ chan'[w] = None /\ answer'[w] = Failed
      BY <1>1, <2>3 DEF GiveUp, P!GiveUp
    <3>2. Done(w) \/ w \in adrift' \/ Asking(w) = {}
      BY <2>3 DEF GiveUp, NoteAdrift, CtxDone, Done, Awaited, Asking, Asks, KindOf, Owner
    <3> QED
      BY <1>0, <1>5, <2>0, <3>1, <3>2 DEF TurnInv, loopVars
  <2> QED
    BY <2>1, <2>2, <2>3
<1> QED
  BY <1>3, <1>4, <1>5 DEF AnswerInv

LEMMA AsksKept ==
  ASSUME NEW i \in Id, ExchangeStep(i), UNCHANGED loop, Asks(i)'
  PROVE  Asks(i) /\ exch'[i].req = exch[i].req
BY AsksStep DEF AskedBy

(* The poll loop itself.                                                      *)
LEMMA PollKeepsAnswers ==
  ASSUME TypeOK, SessionInv, AnswerInv, NEW e \in Epoch, Poll(e), \A i \in Id : ExchangeStep(i)
  PROVE  AnswerInv'
<1>0. LoopOK /\ P!PendingTypeOK /\ e \in Waiter
  BY DEF TypeOK, SlotOK, Waiter
<1>a. /\ UNCHANGED <<ctxDone, cancelled, adrift>>
      /\ \A f \in Epoch : Done(f)' = Done(f)
  BY DEF Poll, connVars, pendVars, flags, Done, LoopEnter, LoopLoggedIn, LoopStop, LoopList,
         LoopListFailed, LoopListReturns, LoopDevice, LoopRegister, LoopQuery, LoopQueryFailed,
         LoopQueryReturns, LoopTick
<1>b. Polls(e)
  BY DEF Poll, Polls, LoopAt, LoopEnter, LoopLoggedIn, LoopStop, LoopList, LoopListFailed,
         LoopListReturns, LoopDevice, LoopRegister, LoopQuery, LoopQueryFailed,
         LoopQueryReturns, LoopTick
<1>c. \/ UNCHANGED pendVars /\ loop[e] \notin {"listWait", "dataWait"}
      \/ P!Leave(e) /\ exch' = exch
  BY DEF Poll, LoopAt, netVars, LoopEnter, LoopLoggedIn, LoopStop, LoopList, LoopListFailed,
         LoopListReturns, LoopDevice, LoopRegister, LoopQuery, LoopQueryFailed,
         LoopQueryReturns, LoopTick
<1>d. PICK pc : LoopTo(e, pc)
  BY OwnLoopOnly
<1>e. \A f \in Epoch \ {e} : loop'[f] = loop[f]
  BY <1>0, <1>d DEF LoopOK, LoopTo
<1>f. \A f \in Epoch \ {e} : dev'[f] = dev[f] /\ stage'[f] = stage[f]
  BY <1>0
     DEF Poll, LoopOK, EndCycle, LoopEnter, LoopLoggedIn, LoopStop, LoopList, LoopListFailed,
         LoopListReturns, LoopDevice, LoopRegister, LoopQuery, LoopQueryFailed,
         LoopQueryReturns, LoopTick
<1>g. \A f \in Epoch \ {e} : phase'[f] = phase[f] /\ chan'[f] = chan[f] /\ answer'[f] = answer[f]
  BY <1>0, <1>c DEF P!PendingTypeOK, P!Leave, pendVars, Waiter
<1>h. \A i \in Id : Asks(i)' => \/ Asks(i) /\ exch'[i].req = exch[i].req
                                \/ Owner(i)' = e /\ loop[e] \in {"list", "query"}
  BY <1>e, AsksStep DEF AskedBy
<1>1. ASSUME NEW f \in Epoch, f # e PROVE TurnInv(f)'
  <2>1. \A i \in Id : Asks(i)' /\ Owner(i)' = f => Asks(i) /\ exch'[i].req = exch[i].req
    BY <1>1, <1>h
  <2> QED
    BY <1>1, <1>a, <1>e, <1>f, <1>g, <2>1, Untouched DEF AnswerInv
<1>2. TurnInv(e)'
  <2>1. CASE P!Leave(e) /\ exch' = exch
    <3>1. /\ phase[e] = "leaving" /\ phase'[e] = "idle" /\ answer'[e] = None /\ chan'[e] = chan[e]
      BY <1>0, <2>1 DEF P!Leave, P!PendingTypeOK
    <3>2. chan[e] = None /\ (Done(e) \/ e \in adrift \/ Asking(e) = {})
      BY <3>1 DEF AnswerInv, TurnInv
    <3>3. Asking(e)' = Asking(e)
      BY <2>1 DEF Asking, Asks, Owner, KindOf
    <3> QED
      BY <1>a, <3>1, <3>2, <3>3, Resting
  <2>2. CASE UNCHANGED pendVars /\ loop[e] \notin {"listWait", "dataWait"}
    <3>1. /\ phase'[e] = "idle" /\ chan'[e] = None /\ answer'[e] = None
          /\ Done(e) \/ e \in adrift \/ Asking(e) = {}
      BY <2>2, NotWaiting DEF AnswerInv, pendVars
    <3>2. CASE Done(e) \/ e \in adrift \/ Asking(e)' = {}
      BY <1>a, <3>1, <3>2, Resting
    <3>3. CASE ~Done(e) /\ e \notin adrift /\ Asking(e)' # {}
      <4>1. ASSUME NEW i \in Id, Asks(i)', Owner(i)' = e
            PROVE  exch[i] = None /\ loop[e] \in {"list", "query"}
        <5>1. ~(Asks(i) /\ exch'[i].req = exch[i].req)
          BY <3>1, <3>3, <4>1 DEF Asking, Owner
        <5>2. PICK f \in Epoch : AskedBy(i, f)
          BY <4>1, <5>1, AsksStep
        <5> QED
          BY <4>1, <5>2 DEF AskedBy
      <4>2. loop[e] \in {"list", "query"}
        BY <3>3, <4>1 DEF Asking
      <4>3. LoopList(e) \/ LoopQuery(e)
        BY <4>2 DEF Poll, LoopAt, LoopEnter, LoopLoggedIn, LoopStop, LoopList, LoopListFailed,
                    LoopListReturns, LoopDevice, LoopRegister, LoopQuery, LoopQueryFailed,
                    LoopQueryReturns, LoopTick
      <4>4. \A i \in Id \ {NextFree} : exch'[i] = exch[i]
        BY <4>3 DEF LoopList, LoopQuery, Sends, netVars, TypeOK, ExchOK
      <4>5. ASSUME NEW i \in Id, Asks(i)', Owner(i)' = e PROVE i = NextFree /\ Right(e, exch[i].req)'
        <5>1. i = NextFree
          BY <4>1, <4>4, <4>5 DEF Asks
        <5>2. PICK f \in Epoch, r \in Request : Polled(i, f, r)
          <6>1. exch[i] = None /\ exch'[i] # None /\ KindOf(i)' \in {"list", "data"}
            BY <4>1, <4>5 DEF Asks
          <6>2. ~Ends(i) /\ ~Moves(i) /\ ~LogsIn(i) /\ exch'[i] # exch[i]
            BY <6>1 DEF Ends, Moves, LogsIn, Greets
          <6>3. ASSUME NEW k \in Command PROVE ~Commanded(i, k)
            BY <6>1 DEF Commanded, KindOf, Req
          <6> QED
            BY <6>2, <6>3 DEF ExchangeStep
        <5>3. f = e
          BY <4>5, <5>2 DEF Polled, Owner, Req
        <5>4. dev'[e] = dev[e] /\ stage'[e] = stage[e]
          BY <4>3, <5>2, <5>3, <1>0, <1>d DEF Polled, LoopList, LoopQuery, EndCycle, LoopTo, LoopOK
        <5> QED
          BY <5>1, <5>2, <5>3, <5>4 DEF Polled, Right, Req
      <4> QED
        BY <3>1, <4>5 DEF TurnInv, Asking
    <3> QED
      BY <3>2, <3>3
  <2> QED
    BY <1>c, <2>1, <2>2
<1>3. DeviceInv'
  <2>1. CASE LoopDevice(e)
    <3>1. device' = <<e, dev[e]>> /\ dev' = dev
      BY <2>1 DEF LoopDevice
    <3>2. device' \in {e} \X (0..NumDevices)
      BY <1>0, <3>1 DEF LoopOK
    <3>3. ASSUME NEW f \in Epoch \ cancelled, f # e,
                 loop[f] \in {"register", "query", "dataFailed", "dataWait"}
          PROVE  e \in cancelled
      BY <1>b, <3>3 DEF SessionInv, PollInv, Polls
    <3> QED
      BY <1>a, <1>e, <3>1, <3>2, <3>3 DEF DeviceInv, DeviceOf
  <2>2. CASE ~LoopDevice(e)
    <3>1. device' = device
      BY <2>2 DEF Poll, connVars, LoopEnter, LoopLoggedIn, LoopStop, LoopList, LoopListFailed,
                  LoopListReturns, LoopRegister, LoopQuery, LoopQueryFailed,
                  LoopQueryReturns, LoopTick
    <3>2. loop'[e] \in {"register", "query", "dataFailed", "dataWait"}
            => /\ loop[e] \in {"register", "query", "dataFailed", "dataWait"}
               /\ dev'[e] = dev[e]
      BY <1>0, <2>2
         DEF LoopOK, LoopAt, LoopTo, EndCycle, Poll, LoopEnter, LoopLoggedIn, LoopStop, LoopList,
             LoopListFailed, LoopListReturns, LoopRegister, LoopQuery, LoopQueryFailed,
             LoopQueryReturns, LoopTick
    <3> QED
      BY <1>a, <1>e, <1>f, <3>1, <3>2 DEF AnswerInv, DeviceInv, DeviceOf
  <2> QED
    BY <2>1, <2>2
<1> QED
  BY <1>1, <1>2, <1>3 DEF AnswerInv

(* The connections, the device and the message handlers up to the send.       *)
LEMMA HandlersKeepAnswers ==
  ASSUME AnswerInv, \A i \in Id : ExchangeStep(i),
         \/ Shutdown
         \/ \E e \in Epoch : Break(e) \/ Notice(e)
         \/ \E i \in Id : Receive(i) \/ NoAnswer(i) \/ (Handle(i) /\ ~FinishDeliver(i))
         \/ \E k \in Command : CmdCheck(k) \/ CmdSend(k)
  PROVE  AnswerInv'
<1> USE DEF connVars, loopVars, pendVars, flags
<1>1. UNCHANGED <<loopVars, chan, phase, answer, adrift, device, cancelled>> /\ (ctxDone => ctxDone')
  <2>1. CASE Shutdown
    BY <2>1 DEF Shutdown
  <2>2. ASSUME NEW e \in Epoch, Break(e) \/ Notice(e)
        PROVE  UNCHANGED <<loopVars, chan, phase, answer, adrift, device, cancelled, ctxDone>>
    BY <2>2 DEF Break, Notice
  <2>3. ASSUME NEW i \in Id, Receive(i) \/ NoAnswer(i) \/ (Handle(i) /\ ~FinishDeliver(i))
        PROVE  UNCHANGED <<loopVars, chan, phase, answer, adrift, device, cancelled, ctxDone>>
    BY <2>3 DEF Receive, NoAnswer, Handle, Greet, HandleConnect, HandleLogin, HandleExpired,
                HandleError, Publish, Deliver, P!Snapshot
  <2>4. ASSUME NEW k \in Command, CmdCheck(k) \/ CmdSend(k)
        PROVE  UNCHANGED <<loopVars, chan, phase, answer, adrift, device, cancelled, ctxDone>>
    BY <2>4 DEF CmdCheck, CmdSend
  <2> QED
    BY <2>1, <2>2, <2>3, <2>4
<1>2. \A i \in Id : Asks(i)' => Asks(i) /\ exch'[i].req = exch[i].req
  BY <1>1, AsksKept
<1> QED
  BY <1>1, <1>2, OthersKeepAnswers

(* A command that returns leaves only its own call of wait.                   *)
LEMMA CommandKeepsAnswers ==
  ASSUME TypeOK, AnswerInv, NEW k \in Command, CmdReturns(k)
  PROVE  AnswerInv'
<1>1. UNCHANGED <<loopVars, connVars, ctxDone, adrift, exch>> /\ P!Leave(k)
  BY DEF CmdReturns, flags, netVars
<1>2. ASSUME NEW e \in Epoch PROVE TurnInv(e)'
  <2>1. e # k /\ e \in Waiter
    BY SessionAssumption DEF Waiter
  <2>2. phase'[e] = phase[e] /\ chan'[e] = chan[e] /\ answer'[e] = answer[e]
    BY <1>1, <2>1 DEF P!Leave, TypeOK, SlotOK, P!PendingTypeOK
  <2> QED
    BY <1>1, <2>2, Untouched DEF AnswerInv, loopVars, connVars, Done, Asks, KindOf
<1> QED
  BY <1>1, <1>2, DeviceKept DEF AnswerInv, loopVars, connVars

LEMMA AnswerInvariant == Spec => []AnswerInv
<1>1. Init => AnswerInv
  <2> SUFFICES ASSUME Init PROVE AnswerInv
    OBVIOUS
  <2>1. \A e \in Epoch : phase[e] = "idle" /\ chan[e] = None /\ answer[e] = None /\ loop[e] = "none"
    BY DEF Init, P!PendingInit, Waiter
  <2>2. \A e \in Epoch : Asking(e) = {}
    BY DEF Init, Asking, Asks
  <2> QED
    BY <2>1, <2>2 DEF AnswerInv, TurnInv, DeviceInv
<1>2. TypeOK /\ SessionInv /\ HandshakeInv /\ AnswerInv /\ [Next]_vars => AnswerInv'
  <2> SUFFICES ASSUME TypeOK, SessionInv, HandshakeInv, AnswerInv, [Next]_vars
               PROVE  AnswerInv'
    OBVIOUS
  <2>1. CASE Supervise
    BY <2>1, SupervisorKeepsAnswers
  <2>2. CASE Next /\ ~Supervise
    <3>1. \A i \in Id : ExchangeStep(i)
      BY <2>2, ExchangeSteps DEF HandshakeInv
    <3>2. ASSUME NEW e \in Epoch, Poll(e) PROVE AnswerInv'
      BY <3>1, <3>2, PollKeepsAnswers
    <3>3. ASSUME NEW i \in Id, FinishDeliver(i) PROVE AnswerInv'
      BY <3>3, DeliveryKeepsAnswers
    <3>4. ASSUME NEW w \in Waiter, Wait(w) \/ GetAnswer(w) \/ GiveUp(w) PROVE AnswerInv'
      BY <3>4, CallsKeepAnswers
    <3>5. ASSUME NEW k \in Command, CmdReturns(k) PROVE AnswerInv'
      BY <3>5, CommandKeepsAnswers
    <3> QED
      BY <2>2, <3>1, <3>2, <3>3, <3>4, <3>5, HandlersKeepAnswers DEF Next
  <2>3. CASE UNCHANGED vars
    <3>1. UNCHANGED <<loopVars, chan, phase, answer, adrift, device, ctxDone, cancelled, exch>>
      BY <2>3 DEF vars, connVars, pendVars, flags, netVars
    <3> QED
      BY <3>1, OthersKeepAnswers DEF Asks, KindOf
  <2> QED
    BY <2>1, <2>2, <2>3
<1> QED
  BY <1>1, <1>2, SessionTypeCorrect, SessionInvInvariant, HandshakeInvariant, PTL DEF Spec

(* A poll loop in service that takes an answer from the slot takes the one to *)
(* its last request, although nothing in an answer is compared with the       *)
(* request and whatever commands, cancelled loops and late handlers do with   *)
(* the slot meanwhile, unless it has given up on an answer that came later or *)
(* has taken that of another caller before (winet.go, pendingCmd; poller.go,  *)
(* queryDevices).                                                             *)
THEOREM AlwaysRightAnswer == Spec => []RightAnswer
<1>1. AnswerInv => RightAnswer
  BY DEF AnswerInv, TurnInv, RightAnswer, Right
<1> QED
  BY <1>1, AnswerInvariant, PTL

(* The data such a loop asked for is published under the device it was asked  *)
(* of, or under one that a cancelled loop has set: the loop itself does not   *)
(* move on before the answer is in (real.go, handleRealMessage; poller.go,    *)
(* queryDevices).                                                             *)
THEOREM DataFindsItsDevice == Spec => DataUnderItsDevice
<1>1. TypeOK /\ HandshakeInv /\ AnswerInv /\ [Next]_vars
        => [\A i \in Id : At(i, "arrived") /\ exch[i].req.kind = "data" /\ exch'[i] # exch[i] =>
              LET r == exch[i].req IN
                \/ Done(r.owner) \/ r.owner \in adrift
                \/ device = <<r.owner, r.dev>>
                \/ device \in cancelled \X (0..NumDevices)]_vars
  <2> SUFFICES ASSUME TypeOK, HandshakeInv, AnswerInv, NEW i \in Id, At(i, "arrived"),
                      KindOf(i) = "data", ~Done(Owner(i)), Owner(i) \notin adrift
               PROVE  \/ device = <<Owner(i), exch[i].req.dev>>
                      \/ device \in cancelled \X (0..NumDevices)
    BY DEF KindOf, Owner
  <2>1. PICK e \in Epoch : e = Owner(i)
    BY DEF TypeOK, ExchOK, Exchange, Request, At, Owner, KindOf, Waiter, HandshakeInv, KindInv
  <2>2. i \in Asking(e) /\ ~Done(e) /\ e \notin adrift
    BY <2>1 DEF At, Asking, Asks
  <2>3. Right(e, exch[i].req)
    BY <2>2 DEF AnswerInv, TurnInv
  <2>4. loop[e] = "dataWait" /\ exch[i].req.dev = dev[e] /\ e \notin cancelled
    BY <2>2, <2>3 DEF Right, Req, KindOf, Done
  <2> QED
    BY <2>1, <2>4 DEF AnswerInv, DeviceInv, DeviceOf
<1> QED
  BY <1>1, SessionTypeCorrect, HandshakeInvariant, AnswerInvariant, PTL DEF Spec, DataUnderItsDevice
=============================================================================
