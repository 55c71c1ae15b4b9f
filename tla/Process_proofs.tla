--------------------------- MODULE Process_proofs ---------------------------
(* What holds of startWinetService for any maxConnAttempts, and of the        *)
(* requests and the process for any number of requests, any deadlines with    *)
(* RequestLimit < ShutdownLimit and any limit of failures.                    *)
EXTENDS Process, TLAPS

-----------------------------------------------------------------------------
(* The supervisor.                                                            *)

(* The inductive invariant: the counter is below the limit until the          *)
(* goroutine gives up, it is zero in a session and on the way out of one, and *)
(* the health follows the goroutine.                                          *)
SupInv ==
    /\ SupTypeOK
    /\ StopsForAReason
    /\ HealthIsHonest
    /\ sup # "stopped" => fails < MaxFails

LEMMA SupInvInit == SupInit => SupInv
<1> SUFFICES ASSUME SupInit PROVE SupInv
  OBVIOUS
<1>1. SupTypeOK
  <2>1. fails \in 0..MaxFails
    BY MaxFailsAssumption DEF SupInit
  <2> QED
    BY <2>1 DEF SupInit, SupTypeOK
<1>2. StopsForAReason
  BY DEF SupInit, StopsForAReason
<1>3. HealthIsHonest
  BY DEF SupInit, HealthIsHonest
<1>4. sup # "stopped" => fails < MaxFails
  BY MaxFailsAssumption DEF SupInit
<1> QED
  BY <1>1, <1>2, <1>3, <1>4 DEF SupInv

LEMMA SupInvStep == SupInv /\ [SupNext]_supVars => SupInv'
<1> SUFFICES ASSUME SupInv, [SupNext]_supVars
             PROVE  SupInv'
  OBVIOUS
<1> USE MaxFailsAssumption DEF SupInv, SupTypeOK, StopsForAReason, HealthIsHonest
<1>1. CASE Check
  BY <1>1 DEF Check
<1>2. CASE ConnectFails
  BY <1>2 DEF ConnectFails
<1>3. CASE ConnectReturns
  BY <1>3 DEF ConnectReturns
<1>4. CASE BackoffElapses
  BY <1>4 DEF BackoffElapses
<1>5. CASE TakeEvent
  BY <1>5 DEF TakeEvent
<1>6. CASE SeeDone
  BY <1>6 DEF SeeDone
<1>7. CASE Signal
  BY <1>7 DEF Signal
<1>8. CASE Shutdown
  BY <1>8 DEF Shutdown
<1>9. CASE UNCHANGED supVars
  BY <1>9 DEF supVars
<1> QED
  BY <1>1, <1>2, <1>3, <1>4, <1>5, <1>6, <1>7, <1>8, <1>9 DEF SupNext, SupStep

LEMMA SupInvInvariant == SupSpec => []SupInv
BY SupInvInit, SupInvStep, PTL DEF SupSpec

(* consecutiveFails never exceeds maxConnAttempts, and the other variables    *)
(* keep to their types.                                                       *)
THEOREM SupTypeCorrect == SupSpec => []SupTypeOK
BY SupInvInvariant, PTL DEF SupInv

(* The process ends only on request or after maxConnAttempts failures in a    *)
(* row, whatever the limit.                                                   *)
THEOREM AlwaysStopsForAReason == SupSpec => []StopsForAReason
BY SupInvInvariant, PTL DEF SupInv

(* GET /health never claims a connection that is being replaced or given up.  *)
THEOREM HealthAlwaysHonest == SupSpec => []HealthIsHonest
BY SupInvInvariant, PTL DEF SupInv

(* No failure is dropped from the count before a Connect succeeds.            *)
THEOREM FailsAlwaysCounted == SupSpec => FailsAreCounted
<1> DEFINE Counted == fails' # fails => \/ fails' = fails + 1 /\ sup' # "session"
                                        \/ fails' = 0 /\ sup' = "session"
<1>1. SupInv /\ [SupNext]_supVars => [Counted]_supVars
  <2> SUFFICES ASSUME SupInv, SupNext
               PROVE  Counted
    OBVIOUS
  <2>1. CASE ConnectFails
    BY <2>1 DEF ConnectFails
  <2>2. CASE ConnectReturns
    BY <2>2 DEF ConnectReturns
  <2>3. CASE ~ConnectFails /\ ~ConnectReturns
    BY <2>3 DEF SupNext, SupStep, Check, BackoffElapses, TakeEvent, SeeDone, Signal, Shutdown
  <2> QED
    BY <2>1, <2>2, <2>3
<1> QED
  BY <1>1, SupInvInvariant, PTL DEF SupSpec, FailsAreCounted
-----------------------------------------------------------------------------
(* The requests.                                                              *)

(* Before a request arrives nothing of it is anywhere.                        *)
Untouched == \A r \in Request :
    /\ door[r] = "free" => age[r] = 0
    /\ door[r] \in {"free", "accepted"} =>
        status[r] = None /\ told[r] = None /\ hand[r] = "none" /\ flight[r] = "none"

(* Once a handler is done something has been said.                            *)
Spoken == \A r \in Request : hand[r] = "done" => status[r] # None

(* Only commands are on the way, an answer of success follows an execution,   *)
(* and whoever is registered in the slot is waiting.                          *)
OnTheWay ==
    /\ \A r \in Request : flight[r] # "none" => ask[r] \in Commands
    /\ \A r \in Request : flight[r] = "success" => r \in executed
    /\ \A r \in Request : hand[r] \in {"checked", "sent", "wait"} => ask[r] \in Commands
    /\ \A r \in Request : hand[r] = "parse" => ask[r] \in Asks
    /\ slot # None => hand[slot] = "wait"

(* Commands made one at a time: at most one is under way, so that the answer  *)
(* that comes is the answer to the request in the slot.                       *)
Serially == turns =>
    /\ \A q, r \in Request : UnderWay(q) /\ UnderWay(r) => q = r
    /\ \A r \in Request : hand[r] = "ok" /\ ask[r] \in Commands => r \in executed
    /\ \A r \in Request : status[r] = "ok" /\ ask[r] \in Commands => r \in executed
    /\ \A r \in Request : told[r] = "ok" /\ ask[r] \in Commands => r \in executed

AnswersInv == RequestsTypeOK /\ Untouched /\ Spoken /\ OnTheWay /\ Serially

LEMMA AnswersInit == RequestsInit => AnswersInv
BY RequestsAssumption
DEF RequestsInit, AnswersInv, RequestsTypeOK, Limit, Untouched, Spoken, OnTheWay, Serially, UnderWay,
    Commands, Verdict, Status

LEMMA AnswersStep == AnswersInv /\ [RequestsNext]_reqVars => AnswersInv'
<1> SUFFICES ASSUME AnswersInv, [RequestsNext]_reqVars
             PROVE  AnswersInv'
  OBVIOUS
<1> USE RequestsAssumption
    DEF AnswersInv, RequestsTypeOK, Limit, Untouched, Spoken, OnTheWay, Serially, UnderWay, Verdict,
        Status
<1>1. ASSUME NEW r \in Request, TurnAway(r) PROVE AnswersInv'
  BY <1>1 DEF TurnAway, handVars, deviceVars
<1>2. ASSUME NEW r \in Request, Arrive(r) PROVE AnswersInv'
  BY <1>2 DEF Arrive, deviceVars
<1>3. ASSUME NEW r \in Request, CloseDoor(r) PROVE AnswersInv'
  <2>1. /\ UNCHANGED <<age, handVars, deviceVars>>
        /\ door' = [door EXCEPT ![r] = "closed"]
        /\ door[r] = "open"
    BY <1>3 DEF CloseDoor
  <2>2. PICK code \in Status : status' = status \/ Says(r, code)
    BY <1>3 DEF CloseDoor
  <2>3. \A q \in Request : q # r \/ status[q] # None => status'[q] = status[q]
    BY <2>2 DEF Says
  <2>4. told' = [told EXCEPT ![r] = "gone"] \/ told' = [told EXCEPT ![r] = status'[r]]
    BY <1>3 DEF CloseDoor, Sends
  <2>5. status' \in [Request -> Status \cup {None}] /\ told' \in [Request -> Status \cup {None}]
    BY <2>2, <2>4 DEF Says
  <2>6. \A q \in Request : status'[q] = "ok" => status[q] = "ok"
    BY <1>3 DEF CloseDoor, Says
  <2>7. \A q \in Request : told'[q] = "ok" => told[q] = "ok" \/ status'[q] = "ok"
    BY <2>4
  <2>8. RequestsTypeOK'
    <3>1. \A q \in Request : age'[q] <= Limit(q)'
      BY <2>1
    <3> QED
      BY <2>1, <2>5, <3>1 DEF handVars, deviceVars
  <2>9. (Untouched /\ Spoken /\ OnTheWay)'
    BY <2>1, <2>3, <2>4 DEF handVars, deviceVars
  <2>10. Serially'
    BY <2>1, <2>6, <2>7 DEF handVars, deviceVars
  <2> QED
    BY <2>8, <2>9, <2>10
<1>4. ASSUME NEW r \in Request, Decide(r) PROVE AnswersInv'
  <2>1. \A a \in {"unknown", "bad", "read", "login"} : Verdicts(a) \subseteq Verdict
    BY DEF Verdicts
  <2>2. ask[r] \in {"unknown", "bad", "read", "login"}
    BY <1>4 DEF Decide, AllAsks
  <2> QED
    BY <1>4, <2>1, <2>2 DEF Decide, doorVars, deviceVars
<1>5. ASSUME NEW r \in Request, NEW away \in BOOLEAN, Command(r, away) PROVE AnswersInv'
  BY <1>5 DEF Command, doorVars, deviceVars
<1>6. ASSUME NEW r \in Request, Register(r) PROVE AnswersInv'
  BY <1>6 DEF Register, doorVars, deviceVars
<1>7. ASSUME NEW r \in Request, NEW stopped \in BOOLEAN, GiveUp(r, stopped) PROVE AnswersInv'
  BY <1>7 DEF GiveUp, doorVars, deviceVars
<1>8. ASSUME NEW r \in Request, Reply(r) PROVE AnswersInv'
  BY <1>8 DEF Reply, Says, deviceVars
<1>9. ASSUME NEW r \in Request, Execute(r) PROVE AnswersInv'
  BY <1>9 DEF Execute, doorVars
<1>10. ASSUME NEW r \in Request, Answer(r) PROVE AnswersInv'
  BY <1>10 DEF Answer, doorVars, deviceVars
<1>11. ASSUME NEW r \in Request, Lose(r) PROVE AnswersInv'
  BY <1>11 DEF Lose, doorVars, deviceVars
<1>12. CASE PollLoop
  BY <1>12 DEF PollLoop, doorVars, deviceVars
<1>13. CASE Older
  BY <1>13 DEF Older, Ages, Busy, Served, handVars, deviceVars
<1>14. CASE UNCHANGED reqVars
  BY <1>14 DEF reqVars, handVars, doorVars, deviceVars
<1>15. ASSUME NEW r \in Request, Accept(r) PROVE AnswersInv'
  BY <1>15 DEF Accept, handVars, deviceVars
<1>17. ASSUME NEW r \in Request, HangUp(r) PROVE AnswersInv'
  BY <1>17 DEF HangUp, handVars, deviceVars
<1>16. ASSUME NEW r \in Request, FindConn(r) PROVE AnswersInv'
  BY <1>16 DEF FindConn, doorVars, deviceVars
<1> HIDE DEF AnswersInv
<1> QED
  BY <1>1, <1>2, <1>3, <1>4, <1>5, <1>6, <1>7, <1>8, <1>9, <1>10, <1>11, <1>12, <1>13, <1>14,
     <1>15, <1>16, <1>17
  DEF RequestsNext, Serve, Handler, Surroundings

LEMMA AnswersInvariant == RequestsSpec => []AnswersInv
BY AnswersInit, AnswersStep, PTL DEF RequestsSpec

(* Requests, answers and the inverter keep to their types.                    *)
THEOREM RequestsTypes == RequestsSpec => []RequestsTypeOK
BY AnswersInvariant, PTL DEF AnswersInv

(* With commands made one at a time nobody is told 204 for nothing, however   *)
(* many requests there are and whatever the poll loop does to the slot.       *)
THEOREM AnswersAreTruthful == RequestsSpec => []TruthfulAnswers
<1>1. AnswersInv => TruthfulAnswers
  BY DEF AnswersInv, Serially, TruthfulAnswers
<1> QED
  BY <1>1, AnswersInvariant, PTL

-----------------------------------------------------------------------------
(* The registers.                                                             *)

Registers == {"mode", "order", "power", "feedin", "feed", "switch"}
RegOK == reg = [x \in Registers |-> reg[x]]

(* After a command the registers show it ...                                  *)
LEMMA ShowsItself ==
    ASSUME RegOK, NEW a \in Commands, reg' = Written(a)
    PROVE  Shows(a)' /\ RegOK'
<1>1. reg' = [x \in Registers |-> IF x \in DOMAIN Writes(a) THEN Writes(a)[x] ELSE reg[x]]
  BY DEF Written, RegOK
<1>2. RegOK'
  BY <1>1 DEF RegOK
<1>3. CASE a = "self"
  <2>1. Writes(a) = [mode |-> 0] /\ DOMAIN Writes(a) = {"mode"}
    BY <1>3 DEF Writes
  <2> QED
    BY <1>1, <1>3, <1>2, <2>1 DEF Shows, Registers
<1>4. CASE a = "discharge"
  <2>1. Writes(a) = [mode |-> 2, order |-> 187, power |-> Power] /\ DOMAIN Writes(a) = {"mode", "order", "power"}
    BY <1>4 DEF Writes
  <2> QED
    BY <1>1, <1>4, <1>2, <2>1 DEF Shows, Registers
<1>5. CASE a = "charge"
  <2>1. Writes(a) = [mode |-> 2, order |-> 170, power |-> Power] /\ DOMAIN Writes(a) = {"mode", "order", "power"}
    BY <1>5 DEF Writes
  <2> QED
    BY <1>1, <1>5, <1>2, <2>1 DEF Shows, Registers
<1>6. CASE a = "stop"
  <2>1. Writes(a) = [mode |-> 2, order |-> 204] /\ DOMAIN Writes(a) = {"mode", "order"}
    BY <1>6 DEF Writes
  <2> QED
    BY <1>1, <1>6, <1>2, <2>1 DEF Shows, Registers
<1>7. CASE a = "limit"
  <2>1. Writes(a) = [feedin |-> 170, feed |-> 0] /\ DOMAIN Writes(a) = {"feedin", "feed"}
    BY <1>7 DEF Writes
  <2> QED
    BY <1>1, <1>7, <1>2, <2>1 DEF Shows, Registers
<1>8. CASE a = "unlimit"
  <2>1. Writes(a) = [feedin |-> 85] /\ DOMAIN Writes(a) = {"feedin"}
    BY <1>8 DEF Writes
  <2> QED
    BY <1>1, <1>8, <1>2, <2>1 DEF Shows, Registers
<1>9. CASE a = "off"
  <2>1. Writes(a) = [switch |-> 0] /\ DOMAIN Writes(a) = {"switch"}
    BY <1>9 DEF Writes
  <2> QED
    BY <1>1, <1>9, <1>2, <2>1 DEF Shows, Registers
<1>10. CASE a = "on"
  <2>1. Writes(a) = [switch |-> 1] /\ DOMAIN Writes(a) = {"switch"}
    BY <1>10 DEF Writes
  <2> QED
    BY <1>1, <1>10, <1>2, <2>1 DEF Shows, Registers
<1> QED
  BY <1>2, <1>3, <1>4, <1>5, <1>6, <1>7, <1>8, <1>9, <1>10 DEF Commands

(* ... and what other concerns showed is untouched.                           *)
LEMMA ShowsOthers ==
    ASSUME RegOK, NEW a \in Commands, NEW b \in Commands \ Replaces(a), Shows(b),
           reg' = Written(a)
    PROVE  Shows(b)'
<1> DEFINE Battery == {"self", "discharge", "charge", "stop"}
           Feedin == {"limit", "unlimit"}
           Switch == {"off", "on"}
<1>1. reg' = [x \in Registers |-> IF x \in DOMAIN Writes(a) THEN Writes(a)[x] ELSE reg[x]]
  BY DEF Written, RegOK
<1>2. ASSUME NEW c \in Concerns, a \in c PROVE b \notin c
  BY <1>2 DEF Replaces
<1>3. CASE a \in Battery
  <2>1. b \notin Battery
    BY <1>2, <1>3 DEF Concerns
  <2>2. DOMAIN Writes(a) \subseteq {"mode", "order", "power"}
    BY <1>3 DEF Writes
  <2>3. reg'.feedin = reg.feedin /\ reg'.feed = reg.feed /\ reg'.switch = reg.switch
    BY <1>1, <2>2 DEF Registers
  <2> QED
    BY <2>1, <2>3 DEF Shows, Commands
<1>4. CASE a \in Feedin
  <2>1. b \notin Feedin
    BY <1>2, <1>4 DEF Concerns
  <2>2. DOMAIN Writes(a) \subseteq {"feedin", "feed"}
    BY <1>4 DEF Writes
  <2>3. reg'.mode = reg.mode /\ reg'.order = reg.order /\ reg'.power = reg.power
        /\ reg'.switch = reg.switch
    BY <1>1, <2>2 DEF Registers
  <2> QED
    BY <2>1, <2>3 DEF Shows, Commands
<1>5. CASE a \in Switch
  <2>1. b \notin Switch
    BY <1>2, <1>5 DEF Concerns
  <2>2. DOMAIN Writes(a) \subseteq {"switch"}
    BY <1>5 DEF Writes
  <2>3. reg'.mode = reg.mode /\ reg'.order = reg.order /\ reg'.power = reg.power
        /\ reg'.feedin = reg.feedin /\ reg'.feed = reg.feed
    BY <1>1, <2>2 DEF Registers
  <2> QED
    BY <2>1, <2>3 DEF Shows, Commands
<1> QED
  BY <1>3, <1>4, <1>5 DEF Commands

(* No command leaves the registers in a state in which another one means      *)
(* something else.                                                            *)
THEOREM CommandsAlwaysCompose == RequestsSpec => []CommandsCompose
<1> DEFINE ComposeInv == RegOK /\ inForce \subseteq Commands /\ CommandsCompose
<1>1. RequestsInit => ComposeInv
  BY DEF RequestsInit, RegOK, Registers, CommandsCompose
<1>2. AnswersInv /\ ComposeInv /\ [RequestsNext]_reqVars => ComposeInv'
  <2> SUFFICES ASSUME AnswersInv, ComposeInv, [RequestsNext]_reqVars
               PROVE  ComposeInv'
    OBVIOUS
  <2>1. CASE UNCHANGED <<reg, inForce>>
    BY <2>1 DEF RegOK, CommandsCompose, Shows
  <2>2. ASSUME NEW r \in Request, Execute(r), ~UNCHANGED <<reg, inForce>> PROVE ComposeInv'
    <3>1. PICK a \in Commands : a = ask[r]
      BY <2>2 DEF Execute, AnswersInv, OnTheWay
    <3>2. /\ reg' = Written(a)
          /\ inForce' = (inForce \ Replaces(a)) \cup {a}
      BY <2>2, <3>1 DEF Execute
    <3>3. Shows(a)' /\ RegOK'
      BY <3>2, ShowsItself
    <3>4. ASSUME NEW b \in inForce \ Replaces(a) PROVE Shows(b)'
      <4>1. b \in Commands /\ Shows(b)
        BY DEF CommandsCompose
      <4> QED
        BY <3>2, <4>1, ShowsOthers
    <3>5. ASSUME NEW b \in inForce' PROVE Shows(b)'
      <4>1. CASE b = a
        BY <3>3, <4>1
      <4>2. CASE b # a
        BY <3>2, <3>4, <4>2
      <4> QED
        BY <4>1, <4>2
    <3> QED
      BY <3>1, <3>2, <3>3, <3>5 DEF CommandsCompose
  <2> QED
    BY <2>1, <2>2 DEF RequestsNext, Serve, Accept, HangUp, TurnAway, Arrive, CloseDoor, Handler,
       Decide, FindConn, Command, Register, GiveUp, Reply, Surroundings, Answer, Lose, PollLoop, Older, reqVars,
       deviceVars
<1>3. ComposeInv => CommandsCompose
  OBVIOUS
<1> QED
  BY <1>1, <1>2, <1>3, AnswersInvariant, PTL DEF RequestsSpec

-----------------------------------------------------------------------------
(* The process.                                                               *)

(* Every step is one of startWinetService with its service and context, or    *)
(* leaves them alone; so Supervisor_proofs holds of the process.              *)
LEMMA SupervisorStep == [Next]_vars => [SupNext]_supVars
BY DEF Next, Winet, World, Tick, Interrupt, GroupCancels, ErrorsEnd, Exit, ListenFails, BeginDrain,
   EndDrain, Converse, SessionPanics, SupNext, vars

LEMMA ProcessSupInv == Spec => []SupInv
<1>1. Init => SupInv
  BY SupInvInit DEF Init
<1>2. SupInv /\ [Next]_vars => SupInv'
  BY SupervisorStep, SupInvStep
<1> QED
  BY <1>1, <1>2, PTL DEF Spec

(* While the process runs no handler has panicked.                            *)
Alive == Running => \A r \in Request : hand[r] # "panicked"

(* Every step is one of the requests, or leaves them alone.                   *)
LEMMA RequestsStep ==
    SupInv /\ AnswersInv /\ Alive /\ [Next]_vars => [RequestsNext]_reqVars
<1> SUFFICES ASSUME SupInv, AnswersInv, Alive, [Next]_vars PROVE [RequestsNext]_reqVars
  OBVIOUS
<1>0. CASE UNCHANGED vars
  BY <1>0 DEF vars
<1>1. CASE Next
  <2>0. \A r \in Request : hand[r] # "panicked"
    BY <1>1 DEF Next, Alive
  <2>1. CASE Winet
    BY <2>1 DEF Winet
  <2>2. CASE World
    BY <2>0, <2>2 DEF World, RequestsNext
  <2>3. CASE Tick
    <3>1. CASE \E r \in Request : Ages(r)
      BY <2>0, <2>3, <3>1 DEF Tick, RequestsNext
    <3>2. CASE ~ \E r \in Request : Ages(r)
      <4>1. age' = age
        BY <2>3, <3>2 DEF Tick, Older, AnswersInv, RequestsTypeOK
      <4> QED
        BY <2>3, <4>1 DEF Tick, Older, reqVars, doorVars
    <3> QED
      BY <3>1, <3>2
  <2>4. CASE \/ Interrupt \/ GroupCancels \/ ErrorsEnd \/ Exit \/ ListenFails \/ BeginDrain
             \/ EndDrain \/ SessionPanics
    BY <2>4 DEF Interrupt, GroupCancels, ErrorsEnd, Exit, ListenFails, BeginDrain, EndDrain,
       SessionPanics
  <2>5. ASSUME NEW r \in Request, Converse(r) PROVE RequestsNext
    <3>1. ctxDone \in BOOLEAN /\ (health # "connected") \in BOOLEAN
      BY DEF SupInv, SupTypeOK
    <3>2. Serve(r)
      BY <2>5, <3>1 DEF Converse, Serve
    <3> QED
      BY <2>0, <3>2 DEF RequestsNext
  <2> QED
    BY <1>1, <2>1, <2>2, <2>3, <2>4, <2>5 DEF Next
<1> QED
  BY <1>0, <1>1

LEMMA AliveStep ==
    AnswersInv /\ Alive /\ [Next]_vars => Alive'
<1> SUFFICES ASSUME AnswersInv, Alive, [Next]_vars PROVE Alive'
  OBVIOUS
<1> USE DEF Alive, Running, AnswersInv, RequestsTypeOK
<1>0. CASE UNCHANGED vars
  BY <1>0 DEF vars, reqVars, handVars, procVars
<1>1. CASE World
  BY <1>1 DEF World, Surroundings, PollLoop, Execute, Answer, Lose, procVars
<1>2. ASSUME NEW r \in Request, Converse(r) PROVE Alive'
  <2>1. \A q \in Request \ {r} : hand'[q] = hand[q]
    BY <1>2 DEF Converse, Accept, HangUp, TurnAway, Arrive, CloseDoor, Handler, Decide, FindConn,
       Command, Register, GiveUp, Reply, handVars
  <2> QED
    BY <1>2, <2>1 DEF Converse
<1>3. CASE UNCHANGED hand /\ (run' = run \/ run' # "running")
  BY <1>3
<1> QED
  BY <1>0, <1>1, <1>2, <1>3
     DEF Next, Winet, Tick, Older, Interrupt, GroupCancels, ErrorsEnd, Exit, ListenFails, BeginDrain,
         EndDrain, SessionPanics, reqVars, handVars, procVars

(* The process keeps its context to itself: what is proved of the requests    *)
(* holds of the requests of the process, with its listener, its shutdown and  *)
(* the winet service beside them.                                             *)
LEMMA ProcessAnswersInv == Spec => [](AnswersInv /\ Alive)
<1>1. Init => AnswersInv /\ Alive
  <2>1. Init => AnswersInv
    BY AnswersInit DEF Init
  <2>2. Init => Alive
    BY DEF Init, RequestsInit, Alive
  <2> QED
    BY <2>1, <2>2
<1>2. SupInv /\ AnswersInv /\ Alive /\ [Next]_vars => AnswersInv' /\ Alive'
  BY RequestsStep, AnswersStep, AliveStep
<1> QED
  BY <1>1, <1>2, ProcessSupInv, PTL DEF Spec

(* Process implements Requests: its truthful answers and composing commands   *)
(* are those of the program.                                                  *)
THEOREM ProcessImplementsRequests == Spec => RequestsSpec
<1>1. Init => RequestsInit
  BY DEF Init
<1> QED
  BY <1>1, RequestsStep, ProcessSupInv, ProcessAnswersInv, PTL DEF Spec, RequestsSpec

(* While Shutdown waits, a connection still without a header is at least as   *)
(* old as the draining, and so is a request that was open before; a request   *)
(* that came late is at most the time for a header younger.                   *)
DrainInv ==
    /\ run \in {"running", "exited", "crashed"}
    /\ http \in {"listening", "deaf", "draining", "closed"}
    /\ errh \in {"waiting", "ended"}
    /\ sig \in BOOLEAN
    /\ drain \in 0..ShutdownLimit
    /\ late \subseteq Request
    /\ http \in {"listening", "deaf"} => drain = 0 /\ late = {}
    /\ http = "draining" => \A r \in Request :
        /\ door[r] = "accepted" => drain <= age[r]
        /\ door[r] = "open" => drain <= age[r] + (IF r \in late THEN ReadLimit ELSE 0)
    /\ http = "closed" => \A r \in Request : Served(r) =>
        /\ door[r] = "accepted" \/ r \in late
        /\ ReadLimit + RequestLimit >= ShutdownLimit
    /\ run = "exited" => sup = "stopped" /\ http = "closed"

(* The context is cancelled for a reason, and only then does anything end.    *)
ReasonInv ==
    /\ ctxDone => sig \/ fails = MaxFails
    /\ http \in {"draining", "closed"} \/ errh = "ended" => ctxDone

LEMMA DrainInvariant == Spec => []DrainInv
<1>1. Init => DrainInv
  <2>1. 0 \in 0..ShutdownLimit
    BY ShutdownAssumption
  <2> QED
    BY <2>1 DEF Init, DrainInv
<1>2. AnswersInv /\ DrainInv /\ [Next]_vars => DrainInv'
  <2> SUFFICES ASSUME AnswersInv, DrainInv, [Next]_vars PROVE DrainInv'
    OBVIOUS
  <2> USE RequestsAssumption, ShutdownAssumption
      DEF AnswersInv, RequestsTypeOK, Limit, DrainInv, Served
  <2>0. run = "running" \/ UNCHANGED vars
    BY DEF Next, Running
  <2>1. CASE Running /\ (Winet \/ World)
    <3>1. UNCHANGED <<doorVars, procVars>>
      BY <2>1 DEF Winet, World, Surroundings, PollLoop, Execute, Answer, Lose, reqVars
    <3> QED
      BY <2>1, <3>1 DEF Running, doorVars, procVars
  <2>2. CASE Running /\ Tick
    <3>1. UNCHANGED <<run, http, errh, sig, late, door>> /\ Older
      BY <2>2 DEF Tick, Older
    <3>2. drain' = (IF Draining THEN drain + 1 ELSE drain) /\ (http = "draining" => Draining)
      BY <2>2 DEF Tick, Draining
    <3>3. \A r \in Request : Served(r) => age'[r] = age[r] + 1
      BY <3>1 DEF Older, Ages, Busy
    <3>4. drain' \in 0..ShutdownLimit /\ (http # "draining" => drain' = drain)
          /\ (http = "draining" => drain' = drain + 1)
      BY <3>2 DEF Draining
    <3> QED
      BY <2>2, <3>1, <3>3, <3>4 DEF Running
  <2>3. CASE Running /\ (Interrupt \/ GroupCancels \/ ErrorsEnd \/ ListenFails \/ SessionPanics)
    <3>1. UNCHANGED <<drain, door, age, late>>
      BY <2>3 DEF Interrupt, GroupCancels, ErrorsEnd, ListenFails, SessionPanics, procVars, reqVars,
         doorVars
    <3>2. errh' \in {"waiting", "ended"} /\ sig' \in BOOLEAN /\ run' \in {"running", "crashed"}
      BY <2>3 DEF Running, Interrupt, GroupCancels, ErrorsEnd, ListenFails, SessionPanics, procVars
    <3>3. http' = http \/ (http = "listening" /\ http' = "deaf")
      BY <2>3 DEF Interrupt, GroupCancels, ErrorsEnd, ListenFails, SessionPanics, procVars
    <3> QED
      BY <2>3, <3>1, <3>2, <3>3
  <2>4. CASE Running /\ Exit
    BY <2>4 DEF Exit, reqVars, doorVars, supVars
  <2>5. CASE Running /\ BeginDrain
    BY <2>5 DEF Running, BeginDrain, reqVars, doorVars
  <2>6. CASE Running /\ EndDrain
    <3>1. UNCHANGED <<run, errh, drain, sig, late, door, age>> /\ http = "draining" /\ http' = "closed"
      BY <2>6 DEF EndDrain, reqVars, doorVars
    <3>2. ASSUME NEW r \in Request, Served(r)
          PROVE  (door[r] = "accepted" \/ r \in late) /\ ReadLimit + RequestLimit >= ShutdownLimit
      <4>1. drain = ShutdownLimit
        BY <2>6, <3>2 DEF EndDrain
      <4> QED
        BY <3>1, <3>2, <4>1
    <3> QED
      BY <2>6, <3>1, <3>2 DEF Running
  <2>7. ASSUME NEW r \in Request, Running, Converse(r) PROVE DrainInv'
    <3>1. http' = http /\ errh' = errh /\ sig' = sig /\ drain' = drain /\ sup' = sup
          /\ run' \in {"running", "crashed"}
      BY <2>7 DEF Converse, procVars, supVars, Running
    <3>2. CASE Accept(r) /\ http = "listening" /\ UNCHANGED late
      BY <2>7, <3>1, <3>2 DEF Accept
    <3>3. CASE Arrive(r) /\ late' = IF http \in {"listening", "deaf"} THEN late ELSE late \cup {r}
      <4>1. /\ door[r] = "accepted" /\ door' = [door EXCEPT ![r] = "open"]
            /\ age' = [age EXCEPT ![r] = 0]
        BY <3>3 DEF Arrive
      <4>2. age[r] <= ReadLimit
        BY <4>1
      <4>3. http = "draining" => drain <= ReadLimit
        BY <4>1, <4>2
      <4> QED
        BY <3>1, <3>3, <4>1, <4>3
    <3>4. CASE (HangUp(r) \/ TurnAway(r) \/ CloseDoor(r)) /\ UNCHANGED late
      <4>1. door' = [door EXCEPT ![r] = "closed"] /\ \A q \in Request \ {r} : age'[q] = age[q]
        BY <3>4 DEF HangUp, TurnAway, CloseDoor
      <4> QED
        BY <3>1, <3>4, <4>1
    <3>5. CASE Handler(r, ctxDone, health # "connected") /\ UNCHANGED late
      <4>1. UNCHANGED <<door, age>>
        BY <3>5 DEF Handler, Decide, FindConn, Command, Register, GiveUp, Reply, doorVars
      <4> QED
        BY <3>1, <3>5, <4>1
    <3> QED
      BY <2>7, <3>2, <3>3, <3>4, <3>5 DEF Converse
  <2>8. CASE UNCHANGED vars
    BY <2>8 DEF vars, procVars, reqVars, doorVars, supVars
  <2> QED
    BY <2>1, <2>2, <2>3, <2>4, <2>5, <2>6, <2>7, <2>8 DEF Next
<1> QED
  BY <1>1, <1>2, ProcessAnswersInv, PTL DEF Spec

(* Every variable of the process keeps to its type.                           *)
THEOREM ProcessTypes == Spec => []TypeOK
<1>1. SupInv /\ AnswersInv /\ DrainInv => TypeOK
  BY DEF SupInv, AnswersInv, DrainInv, TypeOK
<1> QED
  BY <1>1, ProcessSupInv, ProcessAnswersInv, DrainInvariant, PTL

(* Of the requests open when a shutdown begins none is cut off, however many  *)
(* there are, as long as the middleware's deadline is shorter than that of    *)
(* Shutdown; and of those that come later none either, if the time for a      *)
(* header and the middleware's deadline together are shorter than that.       *)
THEOREM NobodyCutOff == Spec => []NotCutOff
<1>1. DrainInv => NotCutOff
  BY DEF DrainInv, NotCutOff, Served
<1> QED
  BY <1>1, DrainInvariant, PTL

(* Run returns only on a signal or after MaxFails failures in a row, however  *)
(* many that is and whatever the requests and the listener do; a crash is the *)
(* only other end.                                                            *)
THEOREM AlwaysExitsForAReason == Spec => []ExitsForAReason
<1>1. Init => ReasonInv
  BY DEF Init, SupInit, ReasonInv
<1>2. SupInv /\ ReasonInv /\ [Next]_vars => ReasonInv'
  <2> SUFFICES ASSUME SupInv, ReasonInv, [Next]_vars PROVE ReasonInv'
    OBVIOUS
  <2> USE DEF ReasonInv
  <2>1. CASE Winet
    <3>1. UNCHANGED <<http, errh, sig>> /\ ctxDone' = ctxDone
      BY <2>1 DEF Winet, procVars, SupStep, Check, ConnectFails, ConnectReturns, BackoffElapses,
         TakeEvent, SeeDone, Signal
    <3>2. fails' = fails \/ sup = "connect"
      BY <2>1 DEF Winet, SupStep, Check, ConnectFails, ConnectReturns, BackoffElapses, TakeEvent,
         SeeDone, Signal
    <3>3. sup = "connect" => fails # MaxFails
      BY MaxFailsAssumption DEF SupInv, SupTypeOK
    <3> QED
      BY <3>1, <3>2, <3>3
  <2>2. CASE World \/ Tick \/ \E r \in Request : Converse(r)
    BY <2>2 DEF World, Tick, Converse, procVars, supVars
  <2>3. CASE Interrupt
    BY <2>3 DEF Interrupt, Shutdown
  <2>4. CASE GroupCancels
    BY <2>4 DEF GroupCancels, Shutdown, procVars, SupInv, StopsForAReason
  <2>5. CASE ErrorsEnd \/ Exit \/ ListenFails \/ BeginDrain \/ EndDrain \/ SessionPanics
    BY <2>5 DEF ErrorsEnd, Exit, ListenFails, BeginDrain, EndDrain, SessionPanics, supVars
  <2>6. CASE UNCHANGED vars
    BY <2>6 DEF vars, procVars, supVars
  <2> QED
    BY <2>1, <2>2, <2>3, <2>4, <2>5, <2>6 DEF Next
<1>3. DrainInv /\ ReasonInv => ExitsForAReason
  BY DEF DrainInv, ReasonInv, ExitsForAReason
<1> QED
  BY <1>1, <1>2, <1>3, ProcessSupInv, DrainInvariant, PTL DEF Spec

(* GET /health is honest in the process too.                                  *)
THEOREM ProcessHealthHonest == Spec => []HealthIsHonest
BY ProcessSupInv, PTL DEF SupInv
=============================================================================
