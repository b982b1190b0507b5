------------------------------ MODULE Messages ------------------------------
(***************************************************************************)
(* What the ticker does with a message: onMessage, processTextMessage and  *)
(* the time of the last heartbeat.  Time is counted in heartbeats.  What a *)
(* binary message of ticks says is in TickParser, what an order update     *)
(* says in Decode.                                                         *)
(***************************************************************************)
EXTENDS Naturals

CONSTANTS
  Listens,    \* the message callbacks the program has set
  MaxBeats    \* bound: heartbeats the server sends

MessageCallbacks == {"onTicks", "onOrderUpdate", "onMessage", "onError"}

VARIABLES
  beats,          \* history: the heartbeats that have arrived
  lastBeatTime    \* 0 is the epoch, where the member starts

messageVars == <<beats, lastBeatTime>>

MessagesTypeOK == beats \in 0..MaxBeats /\ lastBeatTime \in 0..MaxBeats

MessagesInit == beats = 0 /\ lastBeatTime = 0

\* Garbled is no JSON object, untyped has no type, misread is an order update
\* with a member of a type the postback does not take, unknown has a type the
\* client does not know.
TextMessages == {"order", "misread", "message", "error", "unknown",
                 "garbled", "untyped"}
BinaryMessages == {"heartbeat", "ticks"}

\* What the client does with a message: runs a callback, throws or nothing.
Nothing == "nothing"
Throws == "escaped"

If(callback, result) == IF callback \in Listens THEN result ELSE Nothing

\* processTextMessage: the postback is made before its callback runs, and only
\* for a program that has set it.
processTextMessage(m) ==
  CASE m \in {"garbled", "untyped"} -> Throws
    [] m = "order"   -> If("onOrderUpdate", "onOrderUpdate")
    [] m = "misread" -> If("onOrderUpdate", Throws)
    [] m = "message" -> If("onMessage", "onMessage")
    [] m = "error"   -> If("onError", "onError")
    [] OTHER         -> Nothing

\* Where onMessage takes a message.
Result(m) ==
  CASE m \in TextMessages -> processTextMessage(m)
    [] m = "ticks"        -> If("onTicks", "onTicks")
    [] OTHER              -> Nothing

\* The branch for binary messages, heartbeats among them.
Notices == "onTicks" \in Listens

\* What onMessage keeps of a message.
Beat(m) ==
  IF m = "heartbeat"
    THEN /\ beats < MaxBeats
         /\ beats' = beats + 1
         /\ lastBeatTime' = IF Notices THEN beats' ELSE lastBeatTime
    ELSE UNCHANGED messageVars

=============================================================================
