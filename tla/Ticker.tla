------------------------------- MODULE Ticker -------------------------------
(***************************************************************************)
(* The ticker: Connection, Subscriptions and Messages together.  Subscrip- *)
(* tions are changed from the program's callbacks while a connection is    *)
(* open, are lost by the server when it closes, and are sent again by the  *)
(* connection handler before onConnect runs.  Messages of every open       *)
(* connection run the program's callbacks, or throw.                       *)
(***************************************************************************)
EXTENDS Connection

CONSTANTS
  Tokens,
  MaxInFlight,  \* bound: requests the program leaves on their way
  Listens,
  MaxBeats

VARIABLES subbedInstruments, wire, served, unheard, beats, lastBeatTime

S == INSTANCE Subscriptions WITH Connections <- Sockets
M == INSTANCE Messages

ASSUME TickerAssumption ==
  MaxInFlight \in Nat /\ Listens \subseteq M!MessageCallbacks /\ MaxBeats \in Nat

subsVars == <<subbedInstruments, wire, served, unheard>>
messageVars == <<beats, lastBeatTime>>
tickerVars == <<vars, subsVars, messageVars>>

TickerTypeOK == TypeOK /\ S!SubsTypeOK /\ M!MessagesTypeOK

TickerInit == Init /\ S!SubsInit /\ M!MessagesInit

\* subscribe, unsubscribe and setMode from a callback or after run().  When the
\* ticker is not connected they throw and change nothing, see Throw.
Request ==
  /\ stack # <<>> /\ Head(stack) \in Callbacks \cup {"escaped"}
  /\ isConnected
  /\ Len(wire[ws]) < MaxInFlight
  /\ \E toks \in SUBSET Tokens \ {{}} :
        \/ S!subscribe(ws, toks)
        \/ S!unsubscribe(ws, toks)
        \/ \E mode \in S!Modes \cup {S!Unknown} : S!setMode(ws, mode, toks)
  /\ UNCHANGED <<vars, messageVars>>

\* The connection handler, with the resubscription it makes.
Connected(s) ==
  Established(s) /\ S!resubInstruments(s) /\ UNCHANGED messageVars

\* onMessage, for a message of any connection that is open.  onTicks stands for
\* onOrderUpdate and onMessage too in Connection.
Deliver(m) ==
  /\ EventLoop /\ open # {}
  /\ M!Beat(m)
  /\ \/ M!Result(m) = M!Nothing /\ UNCHANGED vars
     \/ M!Result(m) \in {"onError", M!Throws} /\ Message(M!Result(m))
     \/ /\ M!Result(m) \notin {M!Nothing, "onError", M!Throws}
        /\ Message("onTicks")
  /\ UNCHANGED subsVars

\* A socket that is closed takes its requests along.
Keeping == S!Forget(open \ open') /\ UNCHANGED messageVars

Handlers == Library /\ Keeping

\* Every other step of the connection.
Other ==
  /\ \/ Program \/ AttemptFails
     \/ \E s \in Sockets, code \in Codes : Closed(s, code)
  /\ Keeping

Server == (\E s \in open : S!Serve(s)) /\ UNCHANGED <<vars, messageVars>>

TickerNext ==
  \/ Request \/ Handlers \/ Other \/ Server
  \/ \E s \in Sockets : Connected(s)
  \/ \E m \in M!TextMessages \cup M!BinaryMessages : Deliver(m)

TickerSpec ==
  /\ TickerInit /\ [][TickerNext]_tickerVars
  /\ WF_tickerVars(Handlers)
  /\ WF_tickerVars(Server)

-----------------------------------------------------------------------------
(* Correctness.                                                            *)

\* Whatever is lost with a broken connection, the requests on the present one
\* bring the server to exactly what the program has asked for: nothing it put
\* in a mode before the loss is missing, nothing it gave up comes back.  The
\* instruments it has named in subscribe or unsubscribe since this connection
\* was made are another matter, see SubscribedIsServed, and so are those it has
\* put in a mode that does not exist.
InSync ==
  isConnected =>
     \A t \in Tokens \ unheard : S!WillServe(ws, t, subbedInstruments[t])

\* While a connection lasts and the program asks for nothing else, the server
\* comes to serve what the client has on record.
ServerCatchesUp ==
  \/ []<>(\/ ~isConnected
          \/ \A t \in Tokens \ unheard : served[ws][t] = subbedInstruments[t])
  \/ []<><<Request>>_tickerVars

\* The documentation of subscribe(): it subscribes.  The server comes to serve
\* whatever the client believes it is subscribed to.
SubscribedIsServed ==
  isConnected =>
     \A t \in Tokens : subbedInstruments[t] # S!NotSubscribed
                          => ~S!WillServe(ws, t, S!NotSubscribed)

=============================================================================
