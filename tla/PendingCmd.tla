----------------------------- MODULE PendingCmd -----------------------------
(* The single-slot request/response correlator of the inverter session        *)
(* (internal/pkg/winet/winet.go, type pendingCmd).                            *)
(*                                                                            *)
(* Any goroutine may call wait: it makes a channel of capacity one, registers *)
(* it in the slot, selects on the channel, a 30 s timer and its context, and  *)
(* on the way out sets the slot to nil.  Any message handler may call deliver:*)
(* it copies the slot under the mutex and, AFTER releasing the mutex, makes a *)
(* non-blocking send on the copy.  Each critical section is one action, and   *)
(* so is each channel operation made outside of one.                          *)
(*                                                                            *)
(* A waiter makes a fresh channel on every call, so "the channel of w" is the *)
(* one of w's current call; a deliver that still holds the channel of a call  *)
(* that has returned holds Dead, a channel nobody can read any more.          *)
EXTENDS Naturals, FiniteSets

CONSTANTS Waiter,    \* goroutines that call wait
          Handler,   \* goroutines that call deliver
          Value,     \* what deliver carries
          Serial,    \* TRUE: callers never overlap their calls of wait
          None, Dead, Failed

ASSUME PendingAssumption ==
    /\ Serial \in BOOLEAN
    /\ None \notin Waiter \cup Value \cup {Dead, Failed}
    /\ Dead \notin Waiter
    /\ Failed \notin Value

VARIABLES slot,    \* p.ch: the waiter whose channel is registered, or None
          chan,    \* chan[w]: the value buffered in w's channel, or None
          phase,   \* where w is in its call of wait
          answer,  \* answer[w]: what w's select chose: a value or Failed
          target   \* target[h]: the channel deliver copied, None outside deliver

pendingVars == <<slot, chan, phase, answer, target>>

PendingTypeOK ==
    /\ slot \in Waiter \cup {None}
    /\ chan \in [Waiter -> Value \cup {None}]
    /\ phase \in [Waiter -> {"idle", "waiting", "leaving"}]
    /\ answer \in [Waiter -> Value \cup {Failed, None}]
    /\ target \in [Handler -> Waiter \cup {Dead, None}]

PendingInit ==
    /\ slot = None
    /\ chan = [w \in Waiter |-> None]
    /\ phase = [w \in Waiter |-> "idle"]
    /\ answer = [w \in Waiter |-> None]
    /\ target = [h \in Handler |-> None]

-----------------------------------------------------------------------------
(* wait: make a channel and register it, whoever was registered before.       *)
Register(w) ==
    /\ phase[w] = "idle"
    /\ Serial => \A v \in Waiter : phase[v] = "idle"
    /\ slot' = w
    /\ chan' = [chan EXCEPT ![w] = None]
    /\ phase' = [phase EXCEPT ![w] = "waiting"]
    /\ UNCHANGED <<answer, target>>

(* wait: the select takes the value in the channel.                           *)
TakeValue(w) ==
    /\ phase[w] = "waiting"
    /\ chan[w] # None
    /\ answer' = [answer EXCEPT ![w] = chan[w]]
    /\ chan' = [chan EXCEPT ![w] = None]
    /\ phase' = [phase EXCEPT ![w] = "leaving"]
    /\ UNCHANGED <<slot, target>>

(* Not the code: a select without the timer and the context.                 *)
GiveUp_NoTimer(w) == FALSE

(* wait: the timer or the context ends the select.  Go chooses at random      *)
(* among the ready cases, so this may happen with a value in the channel.     *)
GiveUp(w) ==
    /\ phase[w] = "waiting"
    /\ answer' = [answer EXCEPT ![w] = Failed]
    /\ chan' = [chan EXCEPT ![w] = None]
    /\ phase' = [phase EXCEPT ![w] = "leaving"]
    /\ UNCHANGED <<slot, target>>

(* Not the code: no deferred reset.                                           *)
Leave_SlotKept(w) ==
    /\ phase[w] = "leaving"
    /\ phase' = [phase EXCEPT ![w] = "idle"]
    /\ answer' = [answer EXCEPT ![w] = None]
    /\ target' = [h \in Handler |-> IF target[h] = w THEN Dead ELSE target[h]]
    /\ UNCHANGED <<slot, chan>>

(* Not the code: a waiter uses one channel for all its calls.                 *)
Leave_ChannelReused(w) ==
    /\ phase[w] = "leaving"
    /\ slot' = None
    /\ phase' = [phase EXCEPT ![w] = "idle"]
    /\ answer' = [answer EXCEPT ![w] = None]
    /\ UNCHANGED <<chan, target>>

(* wait: the deferred function sets the slot to nil, whoever is registered in *)
(* it by now, and the call returns.                                           *)
Leave(w) ==
    /\ phase[w] = "leaving"
    /\ slot' = None
    /\ phase' = [phase EXCEPT ![w] = "idle"]
    /\ answer' = [answer EXCEPT ![w] = None]
    /\ target' = [h \in Handler |-> IF target[h] = w THEN Dead ELSE target[h]]
    /\ UNCHANGED chan

(* deliver: copy the slot under the mutex.                                    *)
Snapshot(h) ==
    /\ target[h] = None
    /\ target' = [target EXCEPT ![h] = slot]
    /\ UNCHANGED <<slot, chan, phase, answer>>

(* A send to a channel of capacity one that is full, or that nobody reads any *)
(* more, leaves no trace.                                                     *)
Reads(w) == w \in Waiter /\ phase[w] = "waiting" /\ chan[w] = None

(* Not the code: the send replaces what is in the buffer.                     *)
Push_Replaces(h, v) ==
    /\ target[h] # None
    /\ chan' = IF target[h] \in Waiter /\ phase[target[h]] = "waiting"
               THEN [chan EXCEPT ![target[h]] = v] ELSE chan
    /\ target' = [target EXCEPT ![h] = None]
    /\ UNCHANGED <<slot, phase, answer>>

(* deliver: the non-blocking send on the copied channel.                      *)
Push(h, v) ==
    /\ target[h] # None
    /\ chan' = IF Reads(target[h]) THEN [chan EXCEPT ![target[h]] = v] ELSE chan
    /\ target' = [target EXCEPT ![h] = None]
    /\ UNCHANGED <<slot, phase, answer>>

PendingNext ==
    \/ \E w \in Waiter : Register(w) \/ TakeValue(w) \/ GiveUp(w) \/ Leave(w)
    \/ \E h \in Handler : Snapshot(h) \/ \E v \in Value : Push(h, v)

(* A waiter's timer fires and its deferred function runs: both are the Go     *)
(* runtime's business and need nothing from the other goroutines.             *)
PendingFairness == \A w \in Waiter : WF_pendingVars(GiveUp(w)) /\ WF_pendingVars(Leave(w))

PendingSpec == PendingInit /\ [][PendingNext]_pendingVars /\ PendingFairness

Abstract == INSTANCE Mailbox WITH
    open <- {w \in Waiter : phase[w] = "waiting"},
    mail <- chan,
    result <- answer
-----------------------------------------------------------------------------
(* The slot never outlives the call that registered it: no deliver can copy   *)
(* the channel of a wait that has returned (winet.go, the deferred reset).    *)
SlotIsLive == slot # None => phase[slot] # "idle"

(* A handler that copied a channel holds one that is still being read, or one *)
(* marked Dead: a late deliver never reaches the waiter's NEXT call.          *)
NoLateDelivery == \A h \in Handler : target[h] \in Waiter => phase[target[h]] # "idle"

(* With callers that take turns, every waiter inside its select is the one    *)
(* registered in the slot: an answer cannot miss it.  This is what "a single  *)
(* slot is sufficient" (winet.go, comment of pendingCmd) rests on.            *)
NoOrphan == \A w \in Waiter : phase[w] = "waiting" => slot = w

(* With callers that take turns, the calls of wait exclude each other up to   *)
(* and including the deferred reset of the slot.                              *)
OneCall == \A v, w \in Waiter : phase[v] # "idle" /\ phase[w] # "idle" => v = w

(* The slot with its channels takes only steps of Mailbox, whatever callers   *)
(* and handlers do: a value goes to one open call at most, and a call returns *)
(* a value that was handed to it (winet.go, wait and deliver).                *)
KeepsPromise == Abstract!MailSteps

(* Every call of wait returns: nobody is stuck on an answer that was lost,    *)
(* overwritten or dropped, because the 30 s timer is always in the select.    *)
(* With KeepsPromise, this is the whole of Mailbox.                           *)
EveryWaitReturns == Abstract!EveryCallReturns
=============================================================================
