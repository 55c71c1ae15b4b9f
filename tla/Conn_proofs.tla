----------------------------- MODULE Conn_proofs -----------------------------
(* Theorems about one connection, for any number of senders.                  *)
EXTENDS Conn, TLAPS

(* The mutex belongs to the one goroutine that is in WriteMessage.            *)
MutexInv == \A w \in Writer : writer[w] = "writing" <=> mu = w

(* closed and done say what the websocket is, once it has been dialled.       *)
ClosedInv ==
    /\ closed <=> ws = "closed"
    /\ done <=> closed
    /\ client \in {"dialled", "closing", "closed"} => ws # "none"
    /\ reader = "failed" => ws \in {"broken", "closed"}

(* readLoop pops a callback only when there is one: nobody else takes any.    *)
QueueInv == reader = "popping" => queue > 0

(* The inductive invariant of the connection.                                 *)
ConnInv == TypeOK /\ MutexInv /\ ClosedInv /\ NoWriteOnClosed /\ QueueInv

USE ConnAssumption DEF Writer

LEMMA InitConnInv == Init => ConnInv
<1> SUFFICES ASSUME Init PROVE ConnInv
  OBVIOUS
<1> USE DEF Init
<1>1. TypeOK
  <2>1. writer \in [Writer -> {"none", "idle", "writing", "exited"}]
    OBVIOUS
  <2>2. queue \in 0..MaxQueue /\ told \in Nat
    OBVIOUS
  <2> QED BY <2>1, <2>2 DEF TypeOK
<1>2. MutexInv
  BY DEF MutexInv
<1>3. ClosedInv
  BY DEF ClosedInv
<1> QED BY <1>1, <1>2, <1>3 DEF ConnInv, NoWriteOnClosed, QueueInv

LEMMA StepClient ==
    ASSUME ConnInv, DialFails \/ DialSucceeds \/ CloseBegins \/ Close
    PROVE  ConnInv'
<1> USE DEF ConnInv, TypeOK, MutexInv, ClosedInv, NoWriteOnClosed, QueueInv
<1>1. CASE DialFails BY <1>1 DEF DialFails
<1>2. CASE DialSucceeds BY <1>2 DEF DialSucceeds
<1>3. CASE CloseBegins BY <1>3 DEF CloseBegins
<1>4. CASE Close BY <1>4 DEF Close, CloseUnsafe
<1> QED BY <1>1, <1>2, <1>3, <1>4

LEMMA StepWriter ==
    ASSUME ConnInv, NEW w \in Writer, SendBegins(w) \/ SendReturns(w) \/ PingStops
    PROVE  ConnInv'
<1> USE DEF ConnInv, TypeOK, MutexInv, ClosedInv, NoWriteOnClosed, QueueInv, Transition
<1>1. CASE SendBegins(w) BY <1>1 DEF SendBegins
<1>2. CASE SendWrites(w) BY <1>2 DEF SendWrites
<1>3. CASE SendFails(w) BY <1>3 DEF SendFails, CloseUnsafe, OnError
<1>4. CASE PingStops BY <1>4 DEF PingStops
<1> QED BY <1>1, <1>2, <1>3, <1>4 DEF SendReturns

LEMMA StepReader ==
    ASSUME ConnInv,
           Select \/ ReadsMessage \/ LooksAtQueue \/ PopsCallback \/ ReadFails \/ ReaderCloses
    PROVE  ConnInv'
<1> USE DEF ConnInv, TypeOK, MutexInv, ClosedInv, NoWriteOnClosed, QueueInv
<1>1. CASE Select BY <1>1 DEF Select
<1>2. CASE ReadsMessage BY <1>2 DEF ReadsMessage
<1>3. CASE LooksAtQueue BY <1>3 DEF LooksAtQueue
<1>4. CASE PopsCallback
  <2>1. queue' \in 0..MaxQueue
    BY <1>4 DEF PopsCallback
  <2> QED BY <1>4, <2>1 DEF PopsCallback
<1>5. CASE ReadFails BY <1>5 DEF ReadFails
<1>6. CASE ReaderCloses
  <2>1. CASE closed BY <1>6, <2>1 DEF ReaderCloses
  <2>2. CASE ~closed
    <3>1. ws' = "closed" /\ closed' /\ done' /\ reader' = "exited"
      BY <1>6, <2>2 DEF ReaderCloses, CloseUnsafe
    <3>2. told' = told + 1 /\ event' = (event \/ ~ctxDone)
      BY <1>6, <2>2, Zenon DEF ReaderCloses, OnError
    <3>3. UNCHANGED <<mu, client, writer, queue, ctxDone>> /\ mu = None
      BY <1>6 DEF ReaderCloses
    <3> QED BY <3>1, <3>2, <3>3
  <2> QED BY <2>1, <2>2
<1> QED BY <1>1, <1>2, <1>3, <1>4, <1>5, <1>6

LEMMA StepSurroundings ==
    ASSUME ConnInv, Break \/ TakeEvent \/ Shutdown \/ UNCHANGED vars
    PROVE  ConnInv'
<1> USE DEF ConnInv, TypeOK, MutexInv, ClosedInv, NoWriteOnClosed, QueueInv
<1>1. CASE Break BY <1>1 DEF Break
<1>2. CASE TakeEvent
  <2>1. /\ event' \in BOOLEAN
        /\ UNCHANGED <<ws, closed, done, mu, client, reader, writer, queue, told, ctxDone>>
    BY <1>2 DEF TakeEvent
  <2> QED BY <2>1
<1>3. CASE Shutdown BY <1>3 DEF Shutdown
<1>4. CASE UNCHANGED vars BY <1>4 DEF vars
<1> QED BY <1>1, <1>2, <1>3, <1>4

(* The connection's flags, mutex, goroutines and queue fit together in every  *)
(* reachable state (sockets.go, struct Conn).                                 *)
THEOREM ConnInvariant == Spec => []ConnInv
<1>1. ConnInv /\ [Next]_vars => ConnInv'
  BY StepClient, StepWriter, StepReader, StepSurroundings DEF Next
<1> QED BY InitConnInv, <1>1, PTL DEF Spec

(* Types, for any set of senders.                                             *)
THEOREM ConnTypes == Spec => []TypeOK
BY ConnInvariant, PTL DEF ConnInv

(* Close waits for the Send in progress, so nothing is written to a closed    *)
(* connection (sockets.go:54 and 79).                                         *)
THEOREM ClosedMeansQuiet == Spec => []NoWriteOnClosed
BY ConnInvariant, PTL DEF ConnInv

(* A loss is signalled at most once, and never after a deliberate Close.      *)
THEOREM SignalledOnce == Spec => ToldAtMostOnce
<1>1. ConnInv /\ [Next]_vars => [closed => told' = told]_<<told, closed>>
  <2> SUFFICES ASSUME ConnInv, [Next]_vars, closed PROVE told' = told
    OBVIOUS
  <2> USE DEF ConnInv, MutexInv, NoWriteOnClosed, Transition
  <2>1. CASE DialFails \/ DialSucceeds \/ CloseBegins \/ Close
    BY <2>1 DEF DialFails, DialSucceeds, CloseBegins, Close, CloseUnsafe
  <2>2. ASSUME NEW w \in Writer, SendBegins(w) \/ SendReturns(w) PROVE told' = told
    <3>1. ~SendFails(w) BY DEF SendFails
    <3> QED BY <2>2, <3>1 DEF SendBegins, SendReturns, SendWrites
  <2>3. CASE PingStops BY <2>3 DEF PingStops
  <2>4. CASE Select \/ ReadsMessage \/ LooksAtQueue \/ PopsCallback \/ ReadFails \/ ReaderCloses
    BY <2>4 DEF Select, ReadsMessage, LooksAtQueue, PopsCallback, ReadFails, ReaderCloses
  <2>5. CASE Break \/ TakeEvent \/ Shutdown \/ UNCHANGED vars
    BY <2>5 DEF Break, TakeEvent, Shutdown, vars
  <2> QED BY <2>1, <2>2, <2>3, <2>4, <2>5 DEF Next
<1> QED BY ConnInvariant, <1>1, PTL DEF Spec, ToldAtMostOnce

(* Conn implements Link: opened once, closed as asked or with a signal.       *)
THEOREM ConnImplementsLink == Spec => KeepsLink
<1>1. Init => Abstract!LinkInit
  BY DEF Init, Abstract!LinkInit
<1>2. ConnInv /\ [Next]_vars => [Abstract!LinkNext]_(Abstract!linkVars)
  <2> SUFFICES ASSUME ConnInv, [Next]_vars PROVE Abstract!LinkNext \/ UNCHANGED Abstract!linkVars
    OBVIOUS
  <2> USE DEF ConnInv, TypeOK, Abstract!LinkNext, Abstract!linkVars, Abstract!Surroundings, Abstract!Signals
  <2>1. CASE DialFails BY <2>1 DEF DialFails, Abstract!Refused
  <2>2. CASE DialSucceeds BY <2>2 DEF DialSucceeds, Abstract!Opens
  <2>3. CASE CloseBegins BY <2>3 DEF CloseBegins
  <2>4. CASE Close BY <2>4 DEF Close, CloseUnsafe, ClosedInv, Abstract!ClosedAsAsked
  <2>5. ASSUME NEW w \in Writer, SendBegins(w) \/ SendWrites(w)
        PROVE  UNCHANGED Abstract!linkVars
    BY <2>5 DEF SendBegins, SendWrites
  <2>6. ASSUME NEW w \in Writer, SendFails(w) PROVE Abstract!Notices
    BY <2>6 DEF SendFails, CloseUnsafe, OnError, Abstract!Notices
  <2>7. CASE PingStops BY <2>7 DEF PingStops
  <2>8. CASE Select \/ ReadsMessage \/ LooksAtQueue \/ PopsCallback \/ ReadFails
    BY <2>8 DEF Select, ReadsMessage, LooksAtQueue, PopsCallback, ReadFails
  <2>9. CASE ReaderCloses
    BY <2>9 DEF ReaderCloses, CloseUnsafe, OnError, ClosedInv, Abstract!Notices
  <2>10. CASE Break BY <2>10 DEF Break, Abstract!Breaks
  <2>11. CASE TakeEvent \/ Shutdown \/ UNCHANGED vars
    BY <2>11 DEF TakeEvent, Shutdown, vars
  <2> QED BY <2>1, <2>2, <2>3, <2>4, <2>5, <2>6, <2>7, <2>8, <2>9, <2>10, <2>11
          DEF Next, SendReturns
<1> QED BY ConnInvariant, <1>1, <1>2, PTL DEF Spec, KeepsLink, Abstract!LinkSteps
=============================================================================
