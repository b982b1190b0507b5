--------------------------- MODULE AutoReconnect ---------------------------
(***************************************************************************)
(* What automatic reconnection promises to a program that uses the ticker: *)
(* one connection attempt at a time, at most MaxReconnectTries retries     *)
(* after a loss, and every loss ends in a new connection or in giving up.  *)
(* How the handlers of ticker/internal.hpp achieve it is in Connection.    *)
(***************************************************************************)
EXTENDS Naturals

CONSTANT MaxReconnectTries

VARIABLES
  phase,     \* where the connection is in its life
  retries    \* retries made since the connection was last up

vars == <<phase, retries>>

Phases == {"off", "connecting", "up", "lost"}

TypeOK == /\ phase \in Phases
          /\ retries \in 0..MaxReconnectTries

Init == phase = "off" /\ retries = 0

\* The program calls connect().
Start == phase = "off" /\ phase' = "connecting" /\ UNCHANGED retries

\* The attempt succeeds: the retry budget is whole again.
Establish == phase = "connecting" /\ phase' = "up" /\ retries' = 0

\* The attempt fails.
Fail == phase = "connecting" /\ phase' = "lost" /\ UNCHANGED retries

\* The connection breaks.
Lose == phase = "up" /\ phase' = "lost" /\ UNCHANGED retries

\* Either side closes the connection normally.
Close == phase = "up" /\ phase' = "off" /\ UNCHANGED retries

\* One more attempt, while the budget lasts.
Retry == /\ phase = "lost"
         /\ retries < MaxReconnectTries
         /\ phase' = "connecting"
         /\ retries' = retries + 1

GiveUp == /\ phase = "lost"
          /\ retries = MaxReconnectTries
          /\ phase' = "off"
          /\ UNCHANGED retries

\* The program breaks the series off: an exception of a callback of its own
\* leaves the ticker.
Abandon == phase \in {"connecting", "lost"} /\ phase' = "off" /\ UNCHANGED retries

Next == Start \/ Establish \/ Fail \/ Lose \/ Close \/ Retry \/ GiveUp
        \/ Abandon

Safety == Init /\ [][Next]_vars

\* A loss is always answered, and an attempt always ends.
Spec == /\ Safety
        /\ WF_vars(Retry \/ GiveUp)
        /\ WF_vars(Establish \/ Fail)

=============================================================================
