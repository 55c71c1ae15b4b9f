------------------------------ MODULE Mailbox ------------------------------
(* What pendingCmd promises its callers, with no slot, no channel and no      *)
(* mutex: a value delivered while some calls of wait are open goes to at most *)
(* one of them, a call returns at most one value, and only a value that was   *)
(* delivered while the call was open.  It does not promise that the value is  *)
(* the answer to that call's request, nor that a value is handed over at all. *)
CONSTANTS Waiter, Value, None, Failed

VARIABLES open,   \* calls of wait whose select has not chosen yet
          mail,   \* mail[w]: the value handed to the open call of w
          result  \* result[w]: what the call of w is about to return

mailVars == <<open, mail, result>>

MailInit ==
    /\ open = {}
    /\ mail = [w \in Waiter |-> None]
    /\ result = [w \in Waiter |-> None]

Open(w) ==
    /\ w \notin open /\ result[w] = None
    /\ open' = open \cup {w}
    /\ UNCHANGED <<mail, result>>

Hand(w, v) ==
    /\ w \in open /\ mail[w] = None
    /\ mail' = [mail EXCEPT ![w] = v]
    /\ UNCHANGED <<open, result>>

Choose(w) ==
    /\ w \in open
    /\ \E r \in {Failed} \cup ({mail[w]} \ {None}) : result' = [result EXCEPT ![w] = r]
    /\ mail' = [mail EXCEPT ![w] = None]
    /\ open' = open \ {w}

Return(w) ==
    /\ result[w] # None
    /\ result' = [result EXCEPT ![w] = None]
    /\ UNCHANGED <<open, mail>>

MailNext ==
    \E w \in Waiter : Open(w) \/ Choose(w) \/ Return(w) \/ \E v \in Value : Hand(w, v)

MailSteps == MailInit /\ [][MailNext]_mailVars

(* Every call comes back, with a value or without.                            *)
EveryCallReturns ==
    \A w \in Waiter : w \in open \/ result[w] # None ~> w \notin open /\ result[w] = None

MailSpec == MailSteps /\ EveryCallReturns
=============================================================================
