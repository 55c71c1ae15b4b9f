-------------------------------- MODULE Link --------------------------------
(* What one websocket connection promises the session that dials it: it is    *)
(* opened once, and unless the session asked for it, it is only closed in a   *)
(* step that signals the loss.  Conn implements this module, and every        *)
(* connection of WinetSession behaves like it: it is what the two agree on.   *)
VARIABLES link,   \* "none", "open", "broken" (lost, unnoticed) or "closed"
          asked,  \* the session is about to close it
          event,  \* TRUE: the session has an event to take, this one's or another
          quit    \* the context of the dial is cancelled

linkVars == <<link, asked, event, quit>>

LinkInit == link = "none" /\ asked = FALSE /\ event = FALSE /\ quit = FALSE

Signals == event' = (event \/ ~quit) /\ UNCHANGED quit

Refused == link = "none" /\ UNCHANGED <<link, asked>> /\ (Signals \/ UNCHANGED <<event, quit>>)

Opens == link = "none" /\ link' = "open" /\ UNCHANGED <<asked, event, quit>>

Breaks == link = "open" /\ link' = "broken" /\ UNCHANGED <<asked, event, quit>>

Notices == link = "broken" /\ link' = "closed" /\ UNCHANGED asked /\ Signals

ClosedAsAsked ==
    /\ asked /\ link \in {"open", "broken"}
    /\ link' = "closed" /\ asked' = FALSE
    /\ UNCHANGED <<event, quit>>

(* The session takes the event or decides to close, another connection puts   *)
(* an event there, the context is cancelled.                                  *)
Surroundings == UNCHANGED link /\ asked' \in BOOLEAN /\ event' \in BOOLEAN /\ (quit => quit')

LinkNext == Refused \/ Opens \/ Breaks \/ Notices \/ ClosedAsAsked \/ Surroundings

LinkSteps == LinkInit /\ [][LinkNext]_linkVars

(* After the cancellation nobody looks any more.                              *)
LinkFairness == WF_linkVars(~quit /\ Notices)

LinkSpec == LinkSteps /\ LinkFairness
=============================================================================
