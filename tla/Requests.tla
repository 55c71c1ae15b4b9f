------------------------------ MODULE Requests ------------------------------
(* The HTTP requests of internal/pkg/server with the inverter commands they   *)
(* become (internal/pkg/winet/inverter_commands.go).                          *)
(*                                                                            *)
(* A request has two goroutines.  The one of net/http reads the header and    *)
(* runs the middleware: it refuses a request without a valid token and        *)
(* otherwise waits for the handler, for at most five seconds; the "door" is   *)
(* open until it returns, and what was written is sent then, unless the write *)
(* deadline of the server has passed.  The other one, the "hand", runs the    *)
(* handler: it goes on when the door closes before it.  A command is one      *)
(* message to the inverter and one wait in the single slot of PendingCmd,     *)
(* which the poll loop uses as well; PendingCmd and WinetSession have the     *)
(* steps that are taken together here.                                        *)
EXTENDS Naturals

CONSTANTS Request,       \* the requests that are ever made
          Asks,          \* what they may ask for, see AllAsks
          ReadLimit,     \* ticks of the server's ReadTimeout (5 s)
          WriteLimit,    \* ticks of its WriteTimeout (5 s)
          RequestLimit,  \* ticks of the timeout of the middleware (5 s)
          Power,         \* the power of a charge or discharge command
          None

Commands == {"self", "discharge", "charge", "stop",  \* POST /battery/{state}
             "limit", "unlimit",                     \* POST /inverter/feedin
             "off", "on"}                            \* POST /inverter/{state}

AllAsks == Commands \cup
    {"unknown",  \* a battery state that is none of the four, POST /auth/logout
     "bad",      \* a payload that does not unmarshal, a charge without power
     "read",     \* GET /properties and GET /property/{identifier}/{slug}
     "login"}    \* POST /auth/login and /auth/refresh

Verdict == {"ok", "refused", "bad", "unauthorized"}  \* 200 or 204, 500, 400, 401
Status == Verdict \cup {"timeout", "gone"}            \* and 504, and no answer

ASSUME RequestsAssumption ==
    /\ Asks \subseteq AllAsks
    /\ ReadLimit \in Nat \ {0} /\ WriteLimit \in Nat /\ RequestLimit \in Nat \ {0}
    /\ None \notin Request \cup Asks \cup Status

VARIABLES ask,       \* ask[r]: what r asks for
          door,      \* door[r]: "free" before r, "accepted" while net/http waits for
                     \*   its header, "open" while it serves r, "closed"
          age,       \* ticks since the connection of r was accepted, or since r arrived
          status,    \* status[r]: what was written first for r, or None
          told,      \* told[r]: what has reached the client, or None
          hand,      \* hand[r]: where the handler of r is, or the verdict it came to
          flight,    \* flight[r]: the message of r, then its answer, on the way
          slot,      \* p.ch: the command whose channel is registered, or None
          reg,       \* the registers of the inverter
          executed,  \* requests whose command the inverter has executed
          inForce,   \* the asks last executed, one of each concern
          turns      \* TRUE: a command is made when the one before is over

handVars == <<ask, hand, flight, slot>>
doorVars == <<door, age, status, told>>
deviceVars == <<reg, executed, inForce, turns>>
reqVars == <<handVars, doorVars, deviceVars>>

(* A factory-new inverter: self-consumption, with registers left behind by a  *)
(* stop at some power.                                                        *)
RequestsInit ==
    /\ ask = [r \in Request |-> None]
    /\ door = [r \in Request |-> "free"]
    /\ age = [r \in Request |-> 0]
    /\ status = [r \in Request |-> None]
    /\ told = [r \in Request |-> None]
    /\ hand = [r \in Request |-> "none"]
    /\ flight = [r \in Request |-> "none"]
    /\ slot = None
    /\ reg = [mode |-> 0, order |-> 204, power |-> 0, feedin |-> 85, feed |-> 1, switch |-> 1]
    /\ executed = {}
    /\ inForce = {}
    /\ turns \in BOOLEAN
-----------------------------------------------------------------------------
(* The registers (addresses 33146, 33147, 33148, 31221, 31222, power_switch)  *)
(* that a command writes, all in one message.                                 *)

(* Not the code: a stop relies on the mode the last command left.             *)
Writes_StopOnly(a) ==
    CASE a = "self"      -> [mode |-> 0]
      [] a = "discharge" -> [mode |-> 2, order |-> 187, power |-> Power]
      [] a = "charge"    -> [mode |-> 2, order |-> 170, power |-> Power]
      [] a = "stop"      -> [order |-> 204]
      [] a = "limit"     -> [feedin |-> 170, feed |-> 0]
      [] a = "unlimit"   -> [feedin |-> 85]
      [] a = "off"       -> [switch |-> 0]
      [] a = "on"        -> [switch |-> 1]

Writes(a) ==
    CASE a = "self"      -> [mode |-> 0]
      [] a = "discharge" -> [mode |-> 2, order |-> 187, power |-> Power]
      [] a = "charge"    -> [mode |-> 2, order |-> 170, power |-> Power]
      [] a = "stop"      -> [mode |-> 2, order |-> 204]
      [] a = "limit"     -> [feedin |-> 170, feed |-> 0]
      [] a = "unlimit"   -> [feedin |-> 85]
      [] a = "off"       -> [switch |-> 0]
      [] a = "on"        -> [switch |-> 1]

Written(a) ==
    [x \in DOMAIN reg |-> IF x \in DOMAIN Writes(a) THEN Writes(a)[x] ELSE reg[x]]

(* The commands that take the place of one another.                           *)
Concerns == {{"self", "discharge", "charge", "stop"}, {"limit", "unlimit"}, {"off", "on"}}
Replaces(a) == UNION {c \in Concerns : a \in c}
-----------------------------------------------------------------------------
(* net/http and the middleware.                                               *)

Accept(r) ==
    /\ door[r] = "free"
    /\ door' = [door EXCEPT ![r] = "accepted"]
    /\ UNCHANGED <<age, status, told, handVars, deviceVars>>

(* The header does not come before the read deadline, or the client leaves.   *)
HangUp(r) ==
    /\ door[r] = "accepted"
    /\ door' = [door EXCEPT ![r] = "closed"]
    /\ age' = [age EXCEPT ![r] = 0]
    /\ told' = [told EXCEPT ![r] = "gone"]
    /\ UNCHANGED <<status, handVars, deviceVars>>

(* The wrapper cannot bind a parameter of the path, or AuthMiddleware finds   *)
(* no valid token.                                                            *)
TurnAway(r) ==
    /\ door[r] = "accepted"
    /\ door' = [door EXCEPT ![r] = "closed"]
    /\ age' = [age EXCEPT ![r] = 0]
    /\ \E code \in {"refused", "unauthorized"} :
        status' = [status EXCEPT ![r] = code] /\ told' = [told EXCEPT ![r] = code]
    /\ UNCHANGED <<handVars, deviceVars>>

(* TimeoutMiddleware starts the goroutine of the handler.                     *)
Arrive(r) ==
    /\ door[r] = "accepted"
    /\ door' = [door EXCEPT ![r] = "open"]
    /\ age' = [age EXCEPT ![r] = 0]
    /\ hand' = [hand EXCEPT ![r] = "parse"]
    /\ \E a \in Asks : ask' = [ask EXCEPT ![r] = a]
    /\ UNCHANGED <<status, told, flight, slot, deviceVars>>

(* A status is sent once; a later WriteHeader is "superfluous".               *)
Says(r, code) ==
    status' = IF status[r] = None THEN [status EXCEPT ![r] = code] ELSE status

(* What was written is sent when the middleware returns.  The write deadline  *)
(* counts from the header: it comes a little before a deadline of as many     *)
(* ticks that the middleware has set.                                         *)
Sends(r, code) ==
    \/ /\ age[r] < WriteLimit \/ (age[r] = WriteLimit /\ code # "timeout")
       /\ told' = [told EXCEPT ![r] = code]
    \/ age[r] >= WriteLimit /\ told' = [told EXCEPT ![r] = "gone"]

(* The select of TimeoutMiddleware takes done, the deadline, or the end of    *)
(* the request's own context, when it writes nothing to a client that left.   *)
CloseDoor(r) ==
    /\ door[r] = "open"
    /\ \/ hand[r] = "done" /\ UNCHANGED status /\ Sends(r, status[r])
       \/ age[r] = RequestLimit /\ Says(r, "timeout") /\ Sends(r, status'[r])
       \/ Says(r, "gone") /\ told' = [told EXCEPT ![r] = "gone"]
    /\ door' = [door EXCEPT ![r] = "closed"]
    /\ UNCHANGED <<age, handVars, deviceVars>>
-----------------------------------------------------------------------------
(* The handlers.                                                              *)

(* Those that send nothing to the inverter.                                   *)
Verdicts(a) ==
    CASE a = "unknown" -> {"ok"}
      [] a = "bad"     -> {"bad"}
      [] a = "read"    -> {"ok", "refused"}
      [] a = "login"   -> {"ok", "unauthorized"}

Decide(r) ==
    /\ hand[r] = "parse" /\ ask[r] \notin Commands
    /\ \E v \in Verdicts(ask[r]) : hand' = [hand EXCEPT ![r] = v]
    /\ UNCHANGED <<ask, flight, slot, doorVars, deviceVars>>

UnderWay(q) == hand[q] \in {"sent", "wait"} \/ flight[q] # "none"

(* Send...Command, SetFeedInLimitation: there is a connection, or none.       *)
FindConn(r) ==
    /\ hand[r] = "parse" /\ ask[r] \in Commands
    /\ \E there \in BOOLEAN : hand' = [hand EXCEPT ![r] = IF there THEN "checked" ELSE "refused"]
    /\ UNCHANGED <<ask, flight, slot, doorVars, deviceVars>>

(* s.conn is read again for the Send: the message is sent, or the Send fails, *)
(* or a reconnect has set s.conn to nil in the meantime.                      *)
Command(r, away) ==
    /\ hand[r] = "checked"
    /\ \/ /\ turns => \A q \in Request : ~UnderWay(q)
          /\ flight' = [flight EXCEPT ![r] = "sent"]
          /\ hand' = [hand EXCEPT ![r] = "sent"]
       \/ hand' = [hand EXCEPT ![r] = "refused"] /\ UNCHANGED flight
       \/ away /\ hand' = [hand EXCEPT ![r] = "panicked"] /\ UNCHANGED flight
    /\ UNCHANGED <<ask, slot, doorVars, deviceVars>>

(* pending.wait registers its channel, after the message is out.              *)
Register(r) ==
    /\ hand[r] = "sent"
    /\ hand' = [hand EXCEPT ![r] = "wait"]
    /\ slot' = r
    /\ UNCHANGED <<ask, flight, doorVars, deviceVars>>

(* Not the code: the wait has no timer of its own.                            *)
GiveUp_NoTimer(r, stopped) ==
    /\ hand[r] = "wait" /\ stopped
    /\ hand' = [hand EXCEPT ![r] = "refused"]
    /\ slot' = None
    /\ UNCHANGED <<ask, flight, doorVars, deviceVars>>

(* pending.wait returns an error: its context is cancelled, or its 30 s are   *)
(* over, and so are the 5 s of the request.  The slot is reset, whoever is    *)
(* registered in it.                                                          *)
GiveUp(r, stopped) ==
    /\ hand[r] = "wait" /\ (stopped \/ age[r] = RequestLimit)
    /\ hand' = [hand EXCEPT ![r] = "refused"]
    /\ slot' = None
    /\ UNCHANGED <<ask, flight, doorVars, deviceVars>>

(* The handler writes its status and returns.                                 *)
Reply(r) ==
    /\ hand[r] \in Verdict
    /\ Says(r, hand[r])
    /\ hand' = [hand EXCEPT ![r] = "done"]
    /\ UNCHANGED <<ask, flight, slot, door, age, told, deviceVars>>

(* stopped: the context of Run is cancelled; away: s.conn may be nil.         *)
Handler(r, stopped, away) ==
    \/ Decide(r) \/ FindConn(r) \/ Command(r, away) \/ Register(r) \/ GiveUp(r, stopped)
    \/ Reply(r)
-----------------------------------------------------------------------------
(* The inverter, its messages, and the other user of the slot.                *)

(* The inverter executes the command of r, or refuses it.                     *)
Execute(r) ==
    /\ flight[r] = "sent"
    /\ \/ /\ flight' = [flight EXCEPT ![r] = "success"]
          /\ reg' = Written(ask[r])
          /\ executed' = executed \cup {r}
          /\ inForce' = (inForce \ Replaces(ask[r])) \cup {ask[r]}
       \/ flight' = [flight EXCEPT ![r] = "failure"] /\ UNCHANGED <<reg, executed, inForce>>
    /\ UNCHANGED <<ask, hand, slot, doorVars, turns>>

(* Not the code: that an answer came is taken for success.                    *)
Answer_AnyWillDo(r) ==
    /\ flight[r] \in {"success", "failure"}
    /\ flight' = [flight EXCEPT ![r] = "none"]
    /\ IF slot = None THEN UNCHANGED hand ELSE hand' = [hand EXCEPT ![slot] = "ok"]
    /\ slot' = None
    /\ UNCHANGED <<ask, doorVars, deviceVars>>

(* handleParamMessage delivers the answer to whoever is registered.           *)
Answer(r) ==
    /\ flight[r] \in {"success", "failure"}
    /\ flight' = [flight EXCEPT ![r] = "none"]
    /\ IF slot = None THEN UNCHANGED hand
       ELSE hand' = [hand EXCEPT ![slot] = IF flight[r] = "success" THEN "ok" ELSE "refused"]
    /\ slot' = None
    /\ UNCHANGED <<ask, doorVars, deviceVars>>

(* The message or its answer is lost with the connection.                     *)
Lose(r) ==
    /\ flight[r] # "none"
    /\ flight' = [flight EXCEPT ![r] = "none"]
    /\ UNCHANGED <<ask, hand, slot, doorVars, deviceVars>>

(* The poll loop registers in the slot or resets it; or an answer of its own  *)
(* reaches the command, which finds a response of another type.               *)
PollLoop ==
    /\ slot # None
    /\ slot' = None
    /\ hand' \in {hand, [hand EXCEPT ![slot] = "refused"]}
    /\ UNCHANGED <<ask, flight, doorVars, deviceVars>>

Surroundings == PollLoop \/ \E r \in Request : Execute(r) \/ Answer(r) \/ Lose(r)

Served(r) == door[r] \in {"accepted", "open"}
Busy(r) == Served(r) \/ hand[r] \notin {"none", "done"}
Limit(r) == IF door[r] = "accepted" THEN ReadLimit ELSE RequestLimit
Ages(r) == Busy(r) /\ age[r] < Limit(r)

(* Time passes, but not past a deadline of net/http or of the middleware that *)
(* is due; the handlers may be late.                                          *)
Older ==
    /\ \A r \in Request : Served(r) => age[r] < Limit(r)
    /\ age' = [r \in Request |-> IF Ages(r) THEN age[r] + 1 ELSE age[r]]
    /\ UNCHANGED <<door, status, told, handVars, deviceVars>>

(* The requests by themselves: any wait may be cancelled and the connection   *)
(* go away at any time.  Process says when.  Nothing recovers a panic of the  *)
(* hand: the process is gone.                                                 *)
Serve(r) ==
    \/ Accept(r) \/ HangUp(r) \/ TurnAway(r) \/ Arrive(r) \/ CloseDoor(r)
    \/ \E stopped, away \in BOOLEAN : Handler(r, stopped, away)

RequestsNext ==
    /\ \A r \in Request : hand[r] # "panicked"
    /\ \/ \E r \in Request : Serve(r)
       \/ Surroundings
       \/ Older /\ \E r \in Request : Ages(r)

RequestsSpec == RequestsInit /\ [][RequestsNext]_reqVars
-----------------------------------------------------------------------------
RequestsTypeOK ==
    /\ ask \in [Request -> Asks \cup {None}]
    /\ door \in [Request -> {"free", "accepted", "open", "closed"}]
    /\ age \in [Request -> Nat] /\ \A r \in Request : age[r] <= Limit(r)
    /\ status \in [Request -> Status \cup {None}]
    /\ told \in [Request -> Status \cup {None}]
    /\ hand \in [Request -> Verdict \cup {"none", "parse", "checked", "sent", "wait", "panicked", "done"}]
    /\ flight \in [Request -> {"none", "sent", "success", "failure"}]
    /\ slot \in Request \cup {None}
    /\ executed \subseteq Request
    /\ inForce \subseteq Commands
    /\ turns \in BOOLEAN

(* With commands made one at a time, a client is told 204 only if the         *)
(* inverter has executed the command of that client: neither an answer that   *)
(* comes after its middleware timed out, nor one meant for the poll loop, nor *)
(* a refusal is taken for it (inverter_commands.go, result.ResultMessage ==   *)
(* "success" of the answer the single slot hands out).                        *)
TruthfulAnswers ==
    turns => \A r \in Request : told[r] = "ok" /\ ask[r] \in Commands => r \in executed

(* What the registers make the inverter do.                                   *)
Shows(a) ==
    /\ a = "self"      => reg.mode = 0
    /\ a = "discharge" => reg.mode = 2 /\ reg.order = 187 /\ reg.power = Power
    /\ a = "charge"    => reg.mode = 2 /\ reg.order = 170 /\ reg.power = Power
    /\ a = "stop"      => reg.mode = 2 /\ reg.order = 204
    /\ a = "limit"     => reg.feedin = 170 /\ reg.feed = 0
    /\ a = "unlimit"   => reg.feedin = 85
    /\ a = "off"       => reg.switch = 0
    /\ a = "on"        => reg.switch = 1

(* Whatever commands were executed before, in whatever order, the registers   *)
(* make the inverter do what the last command of each concern asked for: no   *)
(* command depends on what another one left behind (inverter_commands.go, the *)
(* lists of parameters).                                                      *)
CommandsCompose == \A a \in inForce : Shows(a)
=============================================================================
