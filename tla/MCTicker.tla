------------------------------ MODULE MCTicker ------------------------------
(***************************************************************************)
(* Small instances of Ticker for TLC: two instruments, so that a request   *)
(* can name one or both and resubscription needs more than one message.    *)
(***************************************************************************)
EXTENDS Ticker

\* A program that leaves connecting to the ticker.
MainOnly == {"main"}

\* A program that connects by itself whenever the connection is closed,
\* although the ticker reconnects automatically, and after an exception.
Eager == {"main", "onClose", "escaped"}

=============================================================================
