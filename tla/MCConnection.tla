---------------------------- MODULE MCConnection ----------------------------
(***************************************************************************)
(* Small instances of Connection for TLC.  Two sockets are enough for a    *)
(* closed socket to be handed out again and for two to be open at once.    *)
(* Three retries are enough for the delay to grow, to be capped and for    *)
(* the budget to run out.                                                  *)
(***************************************************************************)
EXTENDS Connection

\* Where a program that lets the ticker reconnect calls connect(): before
\* run(), again when it is told that reconnection has failed, and again when it
\* has caught an exception and nothing is connected.
AutomaticPoints == {"main", "onReconnectFail", "unconnected"}

=============================================================================
