----------------------------- MODULE Connection -----------------------------
(***************************************************************************)
(* The connection of a ticker: connect, stop, the backoff of reconnect and *)
(* the handlers assignCallbacks installs for connection, disconnection and *)
(* connection error (include/kitepp/ticker/internal.hpp).                  *)
(*                                                                         *)
(* Everything runs on the thread that called run().  Handlers re-enter one *)
(* another: ws->close() runs the disconnection handler before it returns,  *)
(* hub.connect() may run the error handler before it returns, and every    *)
(* callback of the program may call stop() or connect().  `stack' is the   *)
(* work left on the call stack, innermost first: each element is a place   *)
(* in a handler where control is about to enter the program's callback or  *)
(* the rest of the handler.  The empty stack is the event loop.            *)
(***************************************************************************)
EXTENDS Naturals, Sequences

CONSTANTS
  EnableReconnect,     \* constructor argument
  MaxReconnectDelay,   \* constructor argument, in seconds
  MaxReconnectTries,   \* constructor argument
  Sockets,             \* the sockets uWS can hand out; a closed one is reused
  None,                \* nullptr
  ConnectPoints,       \* where the program calls connect(): see Connect
  MaxConnects          \* bound: how many times the program calls connect()

\* The places where the program's own code runs: main is everything up to
\* run(), the others are callbacks (onTicks stands for all those that deliver
\* a message of an open connection except onError).
Callbacks == {"main", "onConnect", "onTicks", "onError", "onClose",
              "onConnectError", "onTryReconnect", "onReconnectFail"}

\* The places inside a handler after a callback or a call has returned.
Resumptions == {"connectInternal", "closeIfConnected", "reconnectIfEnabled",
                "reconnectIfIdle", "reconnectingDone"}

\* An exception has left the ticker and the program has caught it.
Points == Callbacks \cup Resumptions \cup {"escaped"}

ASSUME ConstantsAssumption ==
  /\ EnableReconnect \in BOOLEAN
  /\ MaxReconnectDelay \in Nat
  /\ MaxReconnectTries \in Nat
  /\ MaxConnects \in Nat
  /\ None \notin Sockets
  /\ ConnectPoints \subseteq Callbacks \cup {"escaped", "unconnected"}

\* A program that calls connect() only when nothing is open or on its way:
\* before run(), where it learns that the ticker will not connect by itself,
\* and, when the ticker reconnects, once it has caught an exception and
\* isConnected() answers no.
Disciplined ==
  ConnectPoints \subseteq IF EnableReconnect
                            THEN {"main", "onReconnectFail", "unconnected"}
                            ELSE {"main", "onConnectError", "onClose"}

VARIABLES
  ws,               \* the connection's socket, or None
  isReconnecting,
  reconnectTries,
  reconnectDelay,   \* seconds
  stack,            \* work left on the call stack
  pending,          \* connection attempts handed to uWS and not resolved
  open,             \* sockets that are established and not closed
  connects,         \* calls of connect() so far
  retried,          \* history: automatic attempts since the last connection
  slept,            \* history: the last delay before an attempt
  stopped,          \* history: what the last stop() since connect() found
  outcome           \* history: how it has ended since the last connect()

state == <<ws, isReconnecting, reconnectTries, reconnectDelay>>
vars == <<ws, isReconnecting, reconnectTries, reconnectDelay, stack, pending,
          open, connects, retried, slept, stopped, outcome>>

Codes == {"NORMAL_CLOSURE", "NO_REASON"}
initReconnectDelay == 2

isConnected == ws # None

TypeOK ==
  /\ ws \in Sockets \cup {None}
  /\ isReconnecting \in BOOLEAN
  /\ reconnectTries \in Nat
  /\ reconnectDelay \in Nat
  /\ stack \in Seq(Points)
  /\ pending \in Nat
  /\ open \subseteq Sockets
  /\ connects \in 0..MaxConnects
  /\ retried \in Nat
  /\ slept \in Nat
  /\ stopped \in {"no", "connected", "unconnected"}
  /\ outcome \in {"none", "closed", "failed", "thrown"}

Init ==
  /\ ws = None
  /\ isReconnecting = FALSE
  /\ reconnectTries = 0
  /\ reconnectDelay = initReconnectDelay
  /\ stack = <<"main">>
  /\ pending = 0
  /\ open = {}
  /\ connects = 0
  /\ retried = 0
  /\ slept = 0
  /\ stopped = "no"
  /\ outcome = "none"

-----------------------------------------------------------------------------
(* The control points a handler goes through.                              *)

\* The lambda given to onError: the program's callback, then the close, then
\* the retry.
ErrorHandler == <<"onConnectError", "closeIfConnected", "reconnectIfEnabled">>

\* Mutation: a normal closure is taken for a loss.
DisconnectionHandlerForAnyCode(code) ==
  <<"onError", "onClose", "reconnectIfIdle">>

\* The lambda given to onDisconnection.
DisconnectionHandler(code) ==
  IF code = "NORMAL_CLOSURE"
    THEN <<"onClose">>
    ELSE <<"onError", "onClose", "reconnectIfIdle">>

At(point) == stack # <<>> /\ Head(stack) = point

\* Replace the innermost point by the points of seq.
Continue(seq) == stack' = seq \o Tail(stack)

-----------------------------------------------------------------------------
(* Operations of the program.                                              *)

\* connect(): a program calls it at most once from a callback, as the last
\* thing it does there, or once it has caught an exception ("escaped"), there
\* perhaps only if isConnected() answers no ("unconnected").
Connect ==
  /\ stack # <<>>
  /\ \/ Head(stack) \in ConnectPoints
     \/ /\ "unconnected" \in ConnectPoints
        /\ Head(stack) = "escaped" /\ ~isConnected
  /\ connects < MaxConnects
  /\ connects' = connects + 1
  /\ stopped' = "no"
  /\ outcome' = "none"
  /\ Continue(<<"connectInternal">>)
  /\ UNCHANGED <<state, pending, open, retried, slept>>

\* Mutation: ws keeps the socket that is closed.
DisconnectKeepsSocket(s, code) ==
  /\ open' = open \ {s}
  /\ outcome' = IF code = "NORMAL_CLOSURE" THEN "closed" ELSE "none"
  /\ UNCHANGED state

\* uWS closes socket s: the handler forgets ws whichever socket was closed.
Disconnect(s, code) ==
  /\ open' = open \ {s}
  /\ ws' = None
  /\ outcome' = IF code = "NORMAL_CLOSURE" THEN "closed" ELSE "none"
  /\ UNCHANGED <<isReconnecting, reconnectTries, reconnectDelay>>

\* stop(), from a callback or after run().
Stop ==
  /\ stack # <<>> /\ Head(stack) \in Callbacks \cup {"escaped"}
  /\ IF isConnected
       THEN /\ Disconnect(ws, "NORMAL_CLOSURE")
            /\ stack' = DisconnectionHandler("NORMAL_CLOSURE") \o stack
            /\ stopped' = "connected"
       ELSE /\ stopped' = IF stopped = "connected" THEN stopped
                                                   ELSE "unconnected"
            /\ UNCHANGED <<state, stack, open, outcome>>
  /\ UNCHANGED <<pending, connects, retried, slept>>

\* A callback returns to the handler that called it; main calls run().
Return ==
  /\ stack # <<>> /\ Head(stack) \in Callbacks
  /\ Continue(<<>>)
  /\ UNCHANGED <<state, pending, open, connects, retried, slept, stopped,
                 outcome>>

\* A callback throws, or lets the exception through that subscribe, unsubscribe
\* and setMode throw when nothing is connected.  No handler catches it: what
\* was left of them is not run.
Throw ==
  /\ stack # <<>> /\ Head(stack) \in Callbacks \ {"main"}
  /\ stack' = <<"escaped">>
  /\ outcome' = "thrown"
  /\ UNCHANGED <<state, pending, open, connects, retried, slept, stopped>>

\* The program calls run() again after an exception left it.
Rerun ==
  /\ At("escaped")
  /\ Continue(<<>>)
  /\ UNCHANGED <<state, pending, open, connects, retried, slept, stopped,
                 outcome>>

-----------------------------------------------------------------------------
(* The rest of the handlers.                                               *)

\* Mutation: waits for the connection on the event loop's own thread.
ConnectInternalWaits ==
  /\ At("connectInternal") /\ pending = 0
  /\ \/ pending' = 1 /\ UNCHANGED stack
     \/ Continue(ErrorHandler) /\ UNCHANGED pending
  /\ UNCHANGED <<state, open, connects, retried, slept, stopped, outcome>>

\* hub.connect(): the attempt is on its way, or has failed before the call
\* returns (no address, no socket) and the error handler runs inside it.
ConnectInternal ==
  /\ At("connectInternal")
  /\ \/ pending' = pending + 1 /\ Continue(<<>>)
     \/ Continue(ErrorHandler) /\ UNCHANGED pending
  /\ UNCHANGED <<state, open, connects, retried, slept, stopped, outcome>>

\* Mutation: the last attempt is not made.
BudgetLeftStrict == reconnectTries + 1 < MaxReconnectTries

\* The test of reconnect(), after reconnectTries++.
BudgetLeft == reconnectTries + 1 <= MaxReconnectTries

\* Mutations: the delay is not capped; the delay shrinks.
NextDelayUncapped == reconnectDelay * 2
NextDelayShrinks == reconnectDelay - 2

\* The delay before the attempt after this one.
NextDelay == IF reconnectDelay * 2 > MaxReconnectDelay THEN MaxReconnectDelay
                                                      ELSE reconnectDelay * 2

\* Mutation: tries again at once, because nothing is connected yet.
AttemptRepeats == <<"onTryReconnect", "connectInternal", "reconnectIfEnabled">>

\* An attempt of reconnect().
Attempt == <<"onTryReconnect", "connectInternal">>

\* reconnect() up to the call of onTryReconnect or onReconnectFail.
reconnect ==
  IF isConnected
    THEN /\ Continue(<<>>)
         /\ UNCHANGED <<isReconnecting, reconnectTries, reconnectDelay,
                        retried, slept, outcome>>
    ELSE /\ isReconnecting' = TRUE
         /\ reconnectTries' = reconnectTries + 1
         /\ IF BudgetLeft
              THEN /\ slept' = reconnectDelay
                   /\ reconnectDelay' = NextDelay
                   /\ retried' = retried + 1
                   /\ Continue(Attempt)
                   /\ UNCHANGED outcome
              ELSE /\ Continue(<<"onReconnectFail", "reconnectingDone">>)
                   /\ outcome' = "failed"
                   /\ UNCHANGED <<reconnectDelay, slept, retried>>

\* Mutation: retries although the program did not ask for it.
ReconnectIfEnabledAlways ==
  /\ At("reconnectIfEnabled")
  /\ reconnect
  /\ UNCHANGED <<ws, pending, open, connects, stopped>>

\* The last line of the error handler.
ReconnectIfEnabled ==
  /\ At("reconnectIfEnabled")
  /\ IF EnableReconnect
       THEN reconnect
       ELSE /\ Continue(<<>>)
            /\ UNCHANGED <<isReconnecting, reconnectTries, reconnectDelay,
                           retried, slept, outcome>>
  /\ UNCHANGED <<ws, pending, open, connects, stopped>>

\* The last lines of the disconnection handler.
ReconnectIfIdle ==
  /\ At("reconnectIfIdle")
  /\ IF EnableReconnect /\ ~isReconnecting
       THEN reconnect
       ELSE /\ Continue(<<>>)
            /\ UNCHANGED <<isReconnecting, reconnectTries, reconnectDelay,
                           retried, slept, outcome>>
  /\ UNCHANGED <<ws, pending, open, connects, stopped>>

\* The end of reconnect() once onReconnectFail has returned.
ReconnectingDone ==
  /\ At("reconnectingDone")
  /\ isReconnecting' = FALSE
  /\ Continue(<<>>)
  /\ UNCHANGED <<ws, reconnectTries, reconnectDelay, pending, open, connects,
                 retried, slept, stopped, outcome>>

\* The error handler closes the connection it finds.
CloseIfConnected ==
  /\ At("closeIfConnected")
  /\ IF isConnected
       THEN /\ Disconnect(ws, "NO_REASON")
            /\ Continue(DisconnectionHandler("NO_REASON"))
       ELSE Continue(<<>>) /\ UNCHANGED <<state, open, outcome>>
  /\ UNCHANGED <<pending, connects, retried, slept, stopped>>

-----------------------------------------------------------------------------
(* What the event loop delivers.                                           *)

EventLoop == stack = <<>>

\* Mutations: a reset that the connection handler forgets.
ResetKeepsTries ==
  /\ reconnectDelay' = initReconnectDelay /\ isReconnecting' = FALSE
  /\ UNCHANGED reconnectTries
ResetKeepsDelay ==
  /\ reconnectTries' = 0 /\ isReconnecting' = FALSE
  /\ UNCHANGED reconnectDelay
ResetKeepsReconnecting ==
  /\ reconnectTries' = 0 /\ reconnectDelay' = initReconnectDelay
  /\ UNCHANGED isReconnecting

\* What the connection handler resets.
ResetBackoff ==
  /\ reconnectTries' = 0
  /\ reconnectDelay' = initReconnectDelay
  /\ isReconnecting' = FALSE

\* An attempt succeeds: the lambda given to onConnection.  Sending the
\* subscriptions again (resubInstruments) is in Ticker.
Established(s) ==
  /\ EventLoop /\ pending > 0 /\ s \notin open
  /\ pending' = pending - 1
  /\ open' = open \cup {s}
  /\ ws' = s
  /\ ResetBackoff
  /\ stack' = <<"onConnect">>
  /\ retried' = 0
  /\ outcome' = "none"
  /\ UNCHANGED <<connects, slept, stopped>>

\* An attempt is refused, or connectTimeout passes.
AttemptFails ==
  /\ EventLoop /\ pending > 0
  /\ pending' = pending - 1
  /\ stack' = ErrorHandler
  /\ UNCHANGED <<state, open, connects, retried, slept, stopped, outcome>>

\* The server closes s, or s breaks (NO_REASON, found by a reset or a ping
\* that is not answered).
Closed(s, code) ==
  /\ EventLoop /\ s \in open
  /\ Disconnect(s, code)
  /\ stack' = DisconnectionHandler(code)
  /\ UNCHANGED <<pending, connects, retried, slept, stopped>>

\* A message runs one of the program's callbacks, or the exception that
\* processTextMessage throws leaves run().
Message(point) ==
  /\ EventLoop /\ open # {}
  /\ stack' = <<point>>
  /\ UNCHANGED <<state, pending, open, connects, retried, slept, stopped,
                 outcome>>

-----------------------------------------------------------------------------
Program == Connect \/ Stop \/ Throw \/ Rerun

Library == \/ Return \/ ConnectInternal \/ ReconnectIfEnabled
           \/ ReconnectIfIdle \/ ReconnectingDone \/ CloseIfConnected

Resolve == AttemptFails \/ \E s \in Sockets : Established(s)

Peer == \/ \E s \in Sockets, code \in Codes : Closed(s, code)
        \/ \E point \in {"onTicks", "onError", "escaped"} : Message(point)

Next == Program \/ Library \/ Resolve \/ Peer

\* Handlers run to their end and callbacks return; uWS ends every attempt,
\* because it is given a timeout.  Nothing obliges the program or the server.
Fairness == WF_vars(Library) /\ WF_vars(Resolve)

Safety == Init /\ [][Next]_vars

Spec == Safety /\ Fairness

-----------------------------------------------------------------------------
(* Correctness.                                                            *)

\* isConnected() answers whether a connection is open: no handler leaves ws
\* behind on a closed socket, and none forgets a socket that is open.
ConnectedIffOpen == IF isConnected THEN open = {ws} ELSE open = {}

\* ws is never a socket uWS has closed, so stop() and the sends that are
\* guarded by isConnected() never use a freed socket.
NoDanglingSocket == isConnected => ws \in open

\* At most one connection exists or is being made: an attempt is never in
\* flight beside another one or beside an open socket.
OneConnection == pending <= 1 /\ (pending = 1 => open = {})

\* The k-th automatic attempt since the last connection is made after
\* min(2^k, MaxReconnectDelay) seconds: the exponential backoff the
\* documentation of onTryReconnect describes, which begins afresh after every
\* connection.  The first delay is not capped.
BackoffSchedule ==
  retried > 0 =>
     slept = IF 2^retried > MaxReconnectDelay /\ retried > 1
               THEN MaxReconnectDelay ELSE 2^retried

\* onReconnectFail is called when all MaxReconnectTries automatic attempts
\* have been made since the last connection, neither earlier nor later.
GivesUpAtBudget == /\ retried <= MaxReconnectTries
                   /\ At("onReconnectFail") => retried = MaxReconnectTries

\* The ticker never falls silent: when the event loop has nothing to wait for,
\* then since the program last called connect() the connection was closed
\* normally, or the program has been told that reconnection failed, or has seen
\* an exception come out of the ticker.  A program that connects again after
\* the exception is owed an answer again, although isReconnecting may still be
\* set.
NeverSilent ==
  (EventLoop /\ EnableReconnect /\ open = {} /\ pending = 0 /\ connects > 0)
     => outcome # "none"

\* A stop() that found the connection open is final: until the program calls
\* connect() again nothing is connected and nothing will be.
StopIsFinal ==
  stopped = "connected" =>
     /\ ~isConnected /\ pending = 0
     /\ \A i \in 1..Len(stack) : stack[i] # "connectInternal"

\* A connection that is lost and an attempt that is under way come to an end:
\* a connection, or an event loop with nothing left to wait for, which
\* NeverSilent says the program has been told about (unless an exception has
\* left run() and nobody serves the loop any more).
LossIsAnswered ==
  (At("reconnectIfIdle") \/ pending > 0)
     ~> (isConnected \/ (EventLoop /\ pending = 0) \/ At("escaped"))

-----------------------------------------------------------------------------
(* The promise kept (for EnableReconnect = TRUE).                          *)

OnStack(points) == \E i \in 1..Len(stack) : stack[i] \in points

phaseBar ==
  IF isConnected THEN "up"
  ELSE IF pending > 0 \/ OnStack({"connectInternal"}) THEN "connecting"
  ELSE IF OnStack({"reconnectIfEnabled", "reconnectIfIdle"}) THEN "lost"
  ELSE "off"

retriesBar ==
  IF reconnectTries < MaxReconnectTries THEN reconnectTries
                                        ELSE MaxReconnectTries

Promise == INSTANCE AutoReconnect WITH phase <- phaseBar, retries <- retriesBar

\* The handlers implement the promise of automatic reconnection.
KeepsPromise == Promise!Spec

=============================================================================
