---------------------------- MODULE EventStream ----------------------------
(***************************************************************************)
(* What one WebSocket session of the backend promises its client: requests *)
(* are answered one at a time; the answer to a request is a stream of      *)
(* events delivered in the order the agent produced them, each once; the   *)
(* next request is taken only after the agent ended and every event it     *)
(* produced was delivered; and nothing is delivered after the session is   *)
(* over.  Relay.tla shows that the handlers of backend/api implement it.   *)
(***************************************************************************)
EXTENDS Naturals

VARIABLES
  phase,      \* "idle", "streaming" or "over"
  ended,      \* the agent that answers the current request has finished
  produced,   \* events the agent produced for the current request
  delivered,  \* how many of them reached the socket
  requests    \* requests begun so far

vars == <<phase, ended, produced, delivered, requests>>

Init ==
  /\ phase = "idle"
  /\ ended = TRUE
  /\ produced = 0
  /\ delivered = 0
  /\ requests = 0

Begin ==
  /\ phase = "idle"
  /\ phase' = "streaming"
  /\ ended' = FALSE
  /\ produced' = 0
  /\ delivered' = 0
  /\ requests' = requests + 1

\* The agent goes on even when the session is over: nobody stops its thread.
Produce ==
  /\ ~ended
  /\ produced' = produced + 1
  /\ UNCHANGED <<phase, ended, delivered, requests>>

AgentEnds ==
  /\ ~ended
  /\ ended' = TRUE
  /\ UNCHANGED <<phase, produced, delivered, requests>>

Deliver ==
  /\ phase = "streaming"
  /\ delivered < produced
  /\ delivered' = delivered + 1
  /\ UNCHANGED <<phase, ended, produced, requests>>

Finish ==
  /\ phase = "streaming"
  /\ ended
  /\ delivered = produced
  /\ phase' = "idle"
  /\ UNCHANGED <<ended, produced, delivered, requests>>

HangUp ==
  /\ phase # "over"
  /\ phase' = "over"
  /\ UNCHANGED <<ended, produced, delivered, requests>>

Next == Begin \/ Produce \/ AgentEnds \/ Deliver \/ Finish \/ HangUp

Spec == Init /\ [][Next]_vars
=============================================================================
