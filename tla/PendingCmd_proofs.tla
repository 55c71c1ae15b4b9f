-------------------------- MODULE PendingCmd_proofs --------------------------
(* What holds of pendingCmd for any number of waiters, handlers and values.   *)
EXTENDS PendingCmd, TLAPS

(* Every variable keeps to its type, however calls of wait and deliver        *)
(* interleave (winet.go, pendingCmd).                                         *)
THEOREM PendingTypeCorrect == PendingSpec => []PendingTypeOK
<1>1. PendingInit => PendingTypeOK
  BY DEF PendingInit, PendingTypeOK
<1>2. PendingTypeOK /\ [PendingNext]_pendingVars => PendingTypeOK'
  <2> SUFFICES ASSUME PendingTypeOK, [PendingNext]_pendingVars
               PROVE  PendingTypeOK'
    OBVIOUS
  <2> USE DEF PendingTypeOK
  <2>1. ASSUME NEW w \in Waiter, Register(w) PROVE PendingTypeOK'
    BY <2>1 DEF Register
  <2>2. ASSUME NEW w \in Waiter, TakeValue(w) PROVE PendingTypeOK'
    BY <2>2 DEF TakeValue
  <2>3. ASSUME NEW w \in Waiter, GiveUp(w) PROVE PendingTypeOK'
    BY <2>3 DEF GiveUp
  <2>4. ASSUME NEW w \in Waiter, Leave(w) PROVE PendingTypeOK'
    BY <2>4 DEF Leave
  <2>5. ASSUME NEW h \in Handler, Snapshot(h) PROVE PendingTypeOK'
    BY <2>5 DEF Snapshot
  <2>6. ASSUME NEW h \in Handler, NEW v \in Value, Push(h, v) PROVE PendingTypeOK'
    BY <2>6 DEF Push, Reads
  <2>7. CASE UNCHANGED pendingVars
    BY <2>7 DEF pendingVars
  <2> QED
    BY <2>1, <2>2, <2>3, <2>4, <2>5, <2>6, <2>7 DEF PendingNext
<1> QED
  BY <1>1, <1>2, PTL DEF PendingSpec

-----------------------------------------------------------------------------
(* The slot and the copies of it only name calls of wait in progress; the one *)
(* is needed for the other, because deliver copies the slot.                  *)
NamesLiveCalls == PendingTypeOK /\ SlotIsLive /\ NoLateDelivery

LEMMA NamesLiveCallsInvariant == PendingSpec => []NamesLiveCalls
<1>1. PendingInit => NamesLiveCalls
  BY PendingAssumption
     DEF PendingInit, NamesLiveCalls, PendingTypeOK, SlotIsLive, NoLateDelivery
<1>2. NamesLiveCalls /\ PendingTypeOK' /\ [PendingNext]_pendingVars => NamesLiveCalls'
  <2> SUFFICES ASSUME NamesLiveCalls, PendingTypeOK', [PendingNext]_pendingVars
               PROVE  SlotIsLive' /\ NoLateDelivery'
    BY DEF NamesLiveCalls
  <2> USE PendingAssumption DEF NamesLiveCalls, PendingTypeOK, SlotIsLive, NoLateDelivery
  <2>1. ASSUME NEW w \in Waiter, Register(w) PROVE SlotIsLive' /\ NoLateDelivery'
    BY <2>1 DEF Register
  <2>2. ASSUME NEW w \in Waiter, TakeValue(w) PROVE SlotIsLive' /\ NoLateDelivery'
    BY <2>2 DEF TakeValue
  <2>3. ASSUME NEW w \in Waiter, GiveUp(w) PROVE SlotIsLive' /\ NoLateDelivery'
    BY <2>3 DEF GiveUp
  <2>4. ASSUME NEW w \in Waiter, Leave(w) PROVE SlotIsLive' /\ NoLateDelivery'
    BY <2>4 DEF Leave
  <2>5. ASSUME NEW h \in Handler, Snapshot(h) PROVE SlotIsLive' /\ NoLateDelivery'
    BY <2>5 DEF Snapshot
  <2>6. ASSUME NEW h \in Handler, NEW v \in Value, Push(h, v) PROVE SlotIsLive' /\ NoLateDelivery'
    BY <2>6 DEF Push, Reads
  <2>7. CASE UNCHANGED pendingVars
    BY <2>7 DEF pendingVars
  <2> QED
    BY <2>1, <2>2, <2>3, <2>4, <2>5, <2>6, <2>7 DEF PendingNext
<1> QED
  BY <1>1, <1>2, PendingTypeCorrect, PTL DEF PendingSpec

(* The slot never outlives the call of wait that filled it.                   *)
THEOREM SlotAlwaysLive == PendingSpec => []SlotIsLive
BY NamesLiveCallsInvariant, PTL DEF NamesLiveCalls

(* A slow deliver never reaches the next call of the same waiter.             *)
THEOREM NeverDeliversLate == PendingSpec => []NoLateDelivery
BY NamesLiveCallsInvariant, PTL DEF NamesLiveCalls

-----------------------------------------------------------------------------
(* pendingCmd implements Mailbox.                                             *)

(* A value waits in the channel of an open call only, and only a call that is *)
(* about to return has a result.                                              *)
PromiseInv ==
    /\ PendingTypeOK
    /\ \A w \in Waiter : chan[w] # None => phase[w] = "waiting"
    /\ \A w \in Waiter : answer[w] # None <=> phase[w] = "leaving"

LEMMA PromiseInvariant == PendingSpec => []PromiseInv
<1>1. PendingInit => PromiseInv
  BY PendingAssumption DEF PendingInit, PromiseInv, PendingTypeOK
<1>2. PromiseInv /\ PendingTypeOK' /\ [PendingNext]_pendingVars => PromiseInv'
  <2> SUFFICES ASSUME PromiseInv, PendingTypeOK', [PendingNext]_pendingVars
               PROVE  PromiseInv'
    OBVIOUS
  <2> USE PendingAssumption DEF PromiseInv, PendingTypeOK
  <2>1. ASSUME NEW w \in Waiter, Register(w) PROVE PromiseInv'
    BY <2>1 DEF Register
  <2>2. ASSUME NEW w \in Waiter, TakeValue(w) PROVE PromiseInv'
    BY <2>2 DEF TakeValue
  <2>3. ASSUME NEW w \in Waiter, GiveUp(w) PROVE PromiseInv'
    BY <2>3 DEF GiveUp
  <2>4. ASSUME NEW w \in Waiter, Leave(w) PROVE PromiseInv'
    BY <2>4 DEF Leave
  <2>5. ASSUME NEW h \in Handler, Snapshot(h) PROVE PromiseInv'
    BY <2>5 DEF Snapshot
  <2>6. ASSUME NEW h \in Handler, NEW v \in Value, Push(h, v) PROVE PromiseInv'
    BY <2>6 DEF Push, Reads
  <2>7. CASE UNCHANGED pendingVars
    BY <2>7 DEF pendingVars
  <2> QED
    BY <2>1, <2>2, <2>3, <2>4, <2>5, <2>6, <2>7 DEF PendingNext
<1> QED
  BY <1>1, <1>2, PendingTypeCorrect, PTL DEF PendingSpec

(* Whatever callers and handlers do, the slot with its channels does what     *)
(* Mailbox says: register opens a call, a send that is read hands a value to  *)
(* it, the select chooses, the deferred reset returns (winet.go, wait and     *)
(* deliver).                                                                  *)
THEOREM PendingImplementsMailbox == PendingSpec => KeepsPromise
<1>1. PendingInit => Abstract!MailInit
  BY DEF PendingInit, Abstract!MailInit
<1>2. PromiseInv /\ [PendingNext]_pendingVars => [Abstract!MailNext]_(Abstract!mailVars)
  <2> SUFFICES ASSUME PromiseInv, [PendingNext]_pendingVars
               PROVE  Abstract!MailNext \/ UNCHANGED Abstract!mailVars
    OBVIOUS
  <2> USE PendingAssumption DEF PromiseInv, PendingTypeOK
  <2>1. ASSUME NEW w \in Waiter, Register(w) PROVE Abstract!Open(w)
    BY <2>1 DEF Register, Abstract!Open
  <2>2. ASSUME NEW w \in Waiter, TakeValue(w) PROVE Abstract!Choose(w)
    BY <2>2 DEF TakeValue, Abstract!Choose
  <2>3. ASSUME NEW w \in Waiter, GiveUp(w) PROVE Abstract!Choose(w)
    BY <2>3 DEF GiveUp, Abstract!Choose
  <2>4. ASSUME NEW w \in Waiter, Leave(w) PROVE Abstract!Return(w)
    BY <2>4 DEF Leave, Abstract!Return
  <2>5. ASSUME NEW h \in Handler, Snapshot(h) PROVE UNCHANGED Abstract!mailVars
    BY <2>5 DEF Snapshot, Abstract!mailVars
  <2>6. ASSUME NEW h \in Handler, NEW v \in Value, Push(h, v)
        PROVE  Abstract!MailNext \/ UNCHANGED Abstract!mailVars
    <3>1. CASE Reads(target[h])
      <4>1. target[h] \in Waiter /\ Abstract!Hand(target[h], v)
        BY <2>6, <3>1 DEF Push, Reads, Abstract!Hand
      <4> QED
        BY <4>1 DEF Abstract!MailNext
    <3>2. CASE ~Reads(target[h])
      BY <2>6, <3>2 DEF Push, Abstract!mailVars
    <3> QED
      BY <3>1, <3>2
  <2>7. CASE UNCHANGED pendingVars
    BY <2>7 DEF pendingVars, Abstract!mailVars
  <2> QED
    BY <2>1, <2>2, <2>3, <2>4, <2>5, <2>6, <2>7 DEF PendingNext, Abstract!MailNext
<1> QED
  BY <1>1, <1>2, PromiseInvariant, PTL DEF PendingSpec, KeepsPromise, Abstract!MailSteps

-----------------------------------------------------------------------------
(* With callers that take turns: the calls exclude each other, so nobody      *)
(* overwrites or clears a registration but its owner.                         *)
TakingTurns == PendingTypeOK /\ OneCall /\ NoOrphan

(* If the callers take turns, the slot always names the one that waits: this  *)
(* is the sense in which "a single slot is sufficient" (winet.go:31-33).      *)
THEOREM SingleSlotSuffices ==
  ASSUME Serial
  PROVE  PendingSpec => []NoOrphan
<1>1. PendingInit => TakingTurns
  BY DEF PendingInit, TakingTurns, PendingTypeOK, OneCall, NoOrphan
<1>2. TakingTurns /\ PendingTypeOK' /\ [PendingNext]_pendingVars => TakingTurns'
  <2> SUFFICES ASSUME TakingTurns, PendingTypeOK', [PendingNext]_pendingVars
               PROVE  OneCall' /\ NoOrphan'
    BY DEF TakingTurns
  <2> USE DEF TakingTurns, PendingTypeOK, OneCall, NoOrphan
  <2>1. ASSUME NEW w \in Waiter, Register(w) PROVE OneCall' /\ NoOrphan'
    BY <2>1, Serial DEF Register
  <2>2. ASSUME NEW w \in Waiter, TakeValue(w) PROVE OneCall' /\ NoOrphan'
    BY <2>2 DEF TakeValue
  <2>3. ASSUME NEW w \in Waiter, GiveUp(w) PROVE OneCall' /\ NoOrphan'
    BY <2>3 DEF GiveUp
  <2>4. ASSUME NEW w \in Waiter, Leave(w) PROVE OneCall' /\ NoOrphan'
    BY <2>4 DEF Leave
  <2>5. ASSUME NEW h \in Handler, Snapshot(h) PROVE OneCall' /\ NoOrphan'
    BY <2>5 DEF Snapshot
  <2>6. ASSUME NEW h \in Handler, NEW v \in Value, Push(h, v) PROVE OneCall' /\ NoOrphan'
    BY <2>6 DEF Push
  <2>7. CASE UNCHANGED pendingVars
    BY <2>7 DEF pendingVars
  <2> QED
    BY <2>1, <2>2, <2>3, <2>4, <2>5, <2>6, <2>7 DEF PendingNext
<1>3. TakingTurns => NoOrphan
  BY DEF TakingTurns
<1> QED
  BY <1>1, <1>2, <1>3, PendingTypeCorrect, PTL DEF PendingSpec
=============================================================================
