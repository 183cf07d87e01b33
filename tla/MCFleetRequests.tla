-------------------------- MODULE MCFleetRequests --------------------------
(* Instance of FleetRequests for TLC: a message to a chat session and a read  *)
(* of the transcript.                                                         *)
EXTENDS FleetRequests

CONSTANTS send, read

Operations == [c \in Calls |-> IF c = send THEN "retained" ELSE "read"]
=============================================================================
