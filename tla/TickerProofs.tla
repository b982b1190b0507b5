---------------------------- MODULE TickerProofs ----------------------------
(***************************************************************************)
(* Ticker is Connection with more state: every step of the ticker is a     *)
(* step of the connection or leaves it alone.  What is proved of the       *)
(* connection is therefore true of the ticker, with its requests, its      *)
(* resubscription and its messages.  What it records is proved here.       *)
(***************************************************************************)
EXTENDS Ticker, ReconnectProofs

\* A message runs a callback or throws as Connection says, or does nothing.
LEMMA DeliverIsMessage ==
  ASSUME NEW m \in M!TextMessages \cup M!BinaryMessages, Deliver(m)
  PROVE  Peer \/ UNCHANGED vars
<1>1. CASE UNCHANGED vars
  BY <1>1
<1>2. CASE M!Result(m) \in {"onError", M!Throws} /\ Message(M!Result(m))
  BY <1>2 DEF Peer, M!Throws
<1>3. CASE Message("onTicks")
  BY <1>3 DEF Peer
<1> QED BY <1>1, <1>2, <1>3 DEF Deliver

\* Every step of the ticker is a step of the connection or leaves it alone.
LEMMA TickerStep ==
  ASSUME [TickerNext]_tickerVars
  PROVE  [Next]_vars
<1>1. CASE Request
  BY <1>1 DEF Request
<1>2. CASE Handlers
  BY <1>2 DEF Handlers, Next
<1>3. CASE Other
  BY <1>3 DEF Other, Next, Resolve, Peer
<1>4. CASE Server
  BY <1>4 DEF Server
<1>5. CASE \E s \in Sockets : Connected(s)
  BY <1>5 DEF Connected, Next, Resolve
<1>6. CASE \E m \in M!TextMessages \cup M!BinaryMessages : Deliver(m)
  BY <1>6, DeliverIsMessage DEF Next
<1>7. CASE UNCHANGED tickerVars
  BY <1>7 DEF tickerVars
<1> QED BY <1>1, <1>2, <1>3, <1>4, <1>5, <1>6, <1>7 DEF TickerNext

\* The connection inside the ticker is the connection that Connection
\* specifies: the messages, requests and resubscription add no way for it to
\* change.
THEOREM TickerIsAConnection == TickerSpec => Safety
<1>1. TickerInit => Init
  BY DEF TickerInit
<1>2. [TickerNext]_tickerVars => [Next]_vars
  BY TickerStep
<1> QED BY <1>1, <1>2, PTL DEF TickerSpec, Safety

\* No request and no resubscription is ever sent on a socket uWS has closed,
\* whatever the program does in its callbacks.
THEOREM TickerNeverDangles == TickerSpec => []NoDanglingSocket
BY TickerIsAConnection, SafeSocket, PTL

\* The retry budget is kept by the whole ticker: no message, request or
\* exception makes it lose or gain an attempt.
THEOREM TickerKeepsBudget == TickerSpec => []GivesUpAtBudget
BY TickerIsAConnection, SafeBudget, PTL

\* The delays of the whole ticker double up to the cap and begin afresh with
\* every connection, whatever messages and requests come between.
THEOREM TickerKeepsSchedule == TickerSpec => []BackoffSchedule
BY TickerIsAConnection, SafeDelays, PTL

\* The whole ticker of a disciplined program never falls silent.
THEOREM TickerIsNeverSilent ==
  ASSUME Disciplined
  PROVE  TickerSpec => []NeverSilent
BY TickerIsAConnection, SafeTold, PTL

\* The whole ticker of a disciplined program keeps the promise of automatic
\* reconnection.
THEOREM TickerKeepsPromise ==
  ASSUME Disciplined, EnableReconnect
  PROVE  TickerSpec => Promise!Safety
BY TickerIsAConnection, SafePromise, PTL

-----------------------------------------------------------------------------
(* Types.                                                                  *)

\* What the operations send are requests.
LEMMA RequestsAreTyped ==
  ASSUME NEW toks \in SUBSET Tokens
  PROVE  /\ [a |-> S!field(S!LITERAL, "subscribe"), v |-> toks] \in S!Requests
         /\ [a |-> S!field(S!LITERAL, "unsubscribe"), v |-> toks] \in S!Requests
         /\ \A mode \in S!Modes \cup {S!Unknown} :
               [a |-> "mode", mode |-> mode, v |-> toks] \in S!Requests
BY DEF S!Requests, S!field, S!LITERAL, S!StoredTypes, S!Null

\* A record that is updated stays a record.
LEMMA RecordsAreUpdated ==
  ASSUME NEW record \in S!Record, NEW toks \in SUBSET Tokens,
         NEW mode \in S!Modes \cup {S!NotSubscribed}
  PROVE  S!Update(record, toks, mode) \in S!Record
BY DEF S!Update, S!Record

\* A request the program makes goes to the connection ws points to, and puts
\* some instruments in a mode of the client's record.
LEMMA RequestIs ==
  ASSUME TypeOK, Request
  PROVE  /\ ws \in Sockets /\ isConnected
         /\ UNCHANGED <<vars, messageVars, served>>
         /\ \E req \in S!Requests, toks \in SUBSET Tokens,
               mode \in S!Modes \cup {S!NotSubscribed} :
               /\ wire' = [wire EXCEPT ![ws] = Append(@, req)] /\ req.v = toks
               /\ subbedInstruments' = S!Update(subbedInstruments, toks, mode)
               /\ \/ unheard' = unheard \cup toks
                  \/ /\ unheard' = unheard \ toks
                     /\ req = [a |-> "mode", mode |-> mode, v |-> toks]
                     /\ mode \in S!Modes
<1>1. /\ ws \in Sockets /\ isConnected
  BY DEF Request, TypeOK, isConnected
<1>2. UNCHANGED <<vars, messageVars, served>>
  BY DEF Request, S!subscribe, S!unsubscribe, S!setMode
<1>3. PICK toks \in SUBSET Tokens :
        \/ S!subscribe(ws, toks)
        \/ S!unsubscribe(ws, toks)
        \/ \E mode \in S!Modes \cup {S!Unknown} : S!setMode(ws, mode, toks)
  BY DEF Request
<1>4. CASE S!subscribe(ws, toks)
  BY <1>1, <1>2, <1>4, RequestsAreTyped
     DEF S!subscribe, S!Send, S!Modes, S!DEFAULT_MODE
<1>5. CASE S!unsubscribe(ws, toks)
  BY <1>1, <1>2, <1>5, RequestsAreTyped DEF S!unsubscribe, S!Send
<1>6. CASE \E mode \in S!Modes \cup {S!Unknown} : S!setMode(ws, mode, toks)
  <2> PICK mode \in S!Modes \cup {S!Unknown} : S!setMode(ws, mode, toks)
    BY <1>6
  <2>1. mode \in S!Modes => S!Recorded(mode) = mode /\ mode # S!Unknown
    BY DEF S!Recorded, S!Modes, S!Unknown
  <2>2. S!Recorded(mode) \in S!Modes
    BY DEF S!Recorded, S!Modes
  <2>3. [a |-> "mode", mode |-> mode, v |-> toks] \in S!Requests
    BY RequestsAreTyped
  <2>4. CASE mode = S!Unknown
    BY <1>1, <1>2, <2>2, <2>3, <2>4 DEF S!setMode, S!Send, S!Unheard
  <2>5. CASE mode # S!Unknown
    <3>1. mode \in S!Modes
      BY <2>5
    <3> QED BY <1>1, <1>2, <2>1, <2>3, <3>1, <2>5 DEF S!setMode, S!Send, S!Unheard
  <2> QED BY <2>4, <2>5
<1> QED BY <1>3, <1>4, <1>5, <1>6

\* What resubInstruments sends: each mode that some instrument is in, once,
\* with the instruments that are in it.
LEMMA ResentIs ==
  /\ S!Resent \in Seq(S!Requests)
  /\ \A i \in DOMAIN S!Resent :
        \E mode \in S!Modes :
           /\ S!Resent[i] = [a |-> "mode", mode |-> mode, v |-> S!InMode(mode)]
           /\ S!InMode(mode) # {}
  /\ \A mode \in S!Modes :
        S!InMode(mode) # {} =>
          \E i \in DOMAIN S!Resent :
             /\ S!Resent[i] = [a |-> "mode", mode |-> mode, v |-> S!InMode(mode)]
             /\ \A j \in DOMAIN S!Resent : j # i => S!Resent[j].mode # mode
<1> DEFINE request(mode) == [a |-> "mode", mode |-> mode, v |-> S!InMode(mode)]
           Is(mode, s) ==
             /\ s \in Seq(S!Requests) /\ Len(s) \in {0, 1}
             /\ \A i \in DOMAIN s : s[i] = request(mode) /\ S!InMode(mode) # {}
             /\ S!InMode(mode) # {} => \E i \in DOMAIN s : s[i] = request(mode)
           All(s) ==
             /\ s \in Seq(S!Requests)
             /\ \A i \in DOMAIN s : \E mode \in S!Modes :
                   s[i] = request(mode) /\ S!InMode(mode) # {}
             /\ \A mode \in S!Modes : S!InMode(mode) # {} =>
                   \E i \in DOMAIN s :
                      /\ s[i] = request(mode)
                      /\ \A j \in DOMAIN s : j # i => s[j].mode # mode
<1>1. \A mode \in S!Modes : Is(mode, S!Resend(mode))
  <2> SUFFICES ASSUME NEW mode \in S!Modes PROVE Is(mode, S!Resend(mode))
    OBVIOUS
  <2>1. request(mode) \in S!Requests
    BY RequestsAreTyped DEF S!InMode
  <2> HIDE DEF request
  <2>2. S!Resend(mode) = IF S!InMode(mode) = {} THEN <<>> ELSE <<request(mode)>>
    BY DEF S!Resend, request
  <2> QED BY <2>1, <2>2
<1>0. \A mode : request(mode).mode = mode
  OBVIOUS
<1> HIDE DEF request
<1>2. ASSUME NEW x \in Seq(S!Requests), NEW y \in Seq(S!Requests),
             NEW z \in Seq(S!Requests),
             Is("ltp", x), Is("quote", y), Is("full", z)
      PROVE  All(x \o y \o z)
  <2> DEFINE s == x \o y \o z
  <2>1. /\ s \in Seq(S!Requests)
        /\ DOMAIN s = 1..(Len(x) + Len(y) + Len(z))
        /\ DOMAIN x = 1..Len(x) /\ DOMAIN y = 1..Len(y) /\ DOMAIN z = 1..Len(z)
        /\ Len(x) \in Nat /\ Len(y) \in Nat /\ Len(z) \in Nat
    OBVIOUS
  <2>2. /\ \A i \in 1..Len(x) : s[i] = x[i]
        /\ \A i \in 1..Len(y) : s[Len(x) + i] = y[i]
        /\ \A i \in 1..Len(z) : s[Len(x) + Len(y) + i] = z[i]
    OBVIOUS
  <2> HIDE DEF s
  <2>3. ASSUME NEW i \in DOMAIN s
        PROVE  \/ /\ i <= Len(x) /\ s[i] = request("ltp")
                  /\ S!InMode("ltp") # {}
               \/ /\ i > Len(x) /\ i <= Len(x) + Len(y) /\ s[i] = request("quote")
                  /\ S!InMode("quote") # {}
               \/ /\ i > Len(x) + Len(y) /\ s[i] = request("full")
                  /\ S!InMode("full") # {}
    <3>1. CASE i <= Len(x)
      BY <1>2, <2>1, <2>2, <3>1
    <3>2. CASE i > Len(x) /\ i <= Len(x) + Len(y)
      <4>1. i - Len(x) \in 1..Len(y) /\ i = Len(x) + (i - Len(x))
        BY <2>1, <3>2
      <4> QED BY <1>2, <2>1, <2>2, <3>2, <4>1
    <3>3. CASE i > Len(x) + Len(y)
      <4>1. /\ i - (Len(x) + Len(y)) \in 1..Len(z)
            /\ i = Len(x) + Len(y) + (i - (Len(x) + Len(y)))
        BY <2>1, <3>3
      <4> QED BY <1>2, <2>1, <2>2, <3>3, <4>1
    <3> QED BY <2>1, <3>1, <3>2, <3>3
  <2>4. ASSUME NEW mode \in S!Modes, S!InMode(mode) # {}
        PROVE  \E i \in DOMAIN s :
                  /\ s[i] = request(mode)
                  /\ \A j \in DOMAIN s : j # i => s[j].mode # mode
    <3>1. CASE mode = "ltp"
      <4>1. Len(x) = 1 /\ x[1] = request("ltp")
        BY <1>2, <2>1, <2>4, <3>1
      <4>2. 1 \in DOMAIN s /\ s[1] = request("ltp")
        BY <2>1, <2>2, <4>1
      <4>3. \A j \in DOMAIN s : j # 1 => s[j].mode # "ltp"
        BY <1>0, <2>1, <2>3, <4>1
      <4> QED BY <3>1, <4>2, <4>3
    <3>2. CASE mode = "quote"
      <4>1. Len(y) = 1 /\ y[1] = request("quote")
        BY <1>2, <2>1, <2>4, <3>2
      <4>2. Len(x) + 1 \in DOMAIN s /\ s[Len(x) + 1] = request("quote")
        BY <2>1, <2>2, <4>1
      <4>3. \A j \in DOMAIN s : j # Len(x) + 1 => s[j].mode # "quote"
        BY <1>0, <2>1, <2>3, <4>1
      <4> QED BY <3>2, <4>2, <4>3
    <3>3. CASE mode = "full"
      <4>1. Len(z) = 1 /\ z[1] = request("full")
        BY <1>2, <2>1, <2>4, <3>3
      <4>2. /\ Len(x) + Len(y) + 1 \in DOMAIN s
            /\ s[Len(x) + Len(y) + 1] = request("full")
        BY <2>1, <2>2, <4>1
      <4>3. \A j \in DOMAIN s : j # Len(x) + Len(y) + 1 => s[j].mode # "full"
        <5>1. \A j \in DOMAIN s :
                 j # Len(x) + Len(y) + 1 => j <= Len(x) + Len(y)
          BY <2>1, <4>1
        <5> QED BY <1>0, <2>1, <2>3, <5>1
      <4> QED BY <3>3, <4>2, <4>3
    <3> QED BY <3>1, <3>2, <3>3 DEF S!Modes
  <2>5. \A i \in DOMAIN s : \E mode \in S!Modes :
           s[i] = request(mode) /\ S!InMode(mode) # {}
    BY <2>3 DEF S!Modes
  <2> QED BY <2>1, <2>4, <2>5 DEF s
<1>3. "ltp" \in S!Modes /\ "quote" \in S!Modes /\ "full" \in S!Modes
  BY DEF S!Modes
<1>4. \A mode \in S!Modes : S!Resend(mode) \in Seq(S!Requests)
  BY <1>1
<1> HIDE DEF Is, All
<1>5. All(S!Resend("ltp") \o S!Resend("quote") \o S!Resend("full"))
  BY <1>1, <1>2, <1>3, <1>4
<1> QED BY <1>5 DEF S!Resent, All, request

\* A step of the ticker either leaves the subscriptions alone, or is one of
\* theirs, made on the connection ws points to or lost with a socket.
LEMMA SubscriptionSteps ==
  ASSUME [TickerNext]_tickerVars
  PROVE  \/ UNCHANGED subsVars /\ UNCHANGED <<ws, open>>
         \/ Request
         \/ /\ S!Forget(open \ open')
            /\ ws' = None \/ UNCHANGED <<ws, open>>
         \/ \E s \in open : S!Serve(s) /\ UNCHANGED vars
         \/ \E s \in Sockets : S!resubInstruments(s) /\ ws' = s
<1>1. CASE Handlers
  <2>1. ws' = None \/ UNCHANGED <<ws, open>>
    BY <1>1 DEF Handlers, Library, Return, ConnectInternal, ReconnectIfEnabled,
       ReconnectIfIdle, ReconnectingDone, CloseIfConnected, Disconnect, state
  <2> QED BY <1>1, <2>1 DEF Handlers, Keeping
<1>2. CASE Other
  <2>1. CASE Program
    <3>1. ws' = None \/ UNCHANGED <<ws, open>>
      BY <2>1 DEF Program, Connect, Stop, Throw, Rerun, Disconnect, state
    <3> QED BY <1>2, <3>1 DEF Other, Keeping
  <2>2. CASE AttemptFails
    BY <1>2, <2>2 DEF Other, Keeping, AttemptFails, state
  <2>3. CASE \E s \in Sockets, code \in Codes : Closed(s, code)
    BY <1>2, <2>3 DEF Other, Keeping, Closed, Disconnect
  <2> QED BY <1>2, <2>1, <2>2, <2>3 DEF Other
<1>3. CASE Server
  BY <1>3 DEF Server
<1>4. CASE \E s \in Sockets : Connected(s)
  BY <1>4 DEF Connected, Established
<1>5. CASE \E m \in M!TextMessages \cup M!BinaryMessages : Deliver(m)
  BY <1>5 DEF Deliver, Message, vars, state
<1>6. CASE UNCHANGED tickerVars
  BY <1>6 DEF tickerVars, vars
<1> QED BY <1>1, <1>2, <1>3, <1>4, <1>5, <1>6 DEF TickerNext

\* The record and the requests keep their types.
LEMMA SubscriptionTypes ==
  ASSUME TypeOK, S!SubsTypeOK, [TickerNext]_tickerVars
  PROVE  S!SubsTypeOK'
<1> USE DEF S!SubsTypeOK
<1>0. S!Nothing \in S!Record
  BY DEF S!Nothing, S!Record
<1>1. CASE UNCHANGED subsVars
  BY <1>1 DEF subsVars
<1>2. CASE Request
  <2>1. PICK req \in S!Requests, toks \in SUBSET Tokens,
             mode \in S!Modes \cup {S!NotSubscribed} :
          /\ wire' = [wire EXCEPT ![ws] = Append(@, req)]
          /\ subbedInstruments' = S!Update(subbedInstruments, toks, mode)
          /\ unheard' = unheard \cup toks \/ unheard' = unheard \ toks
    BY <1>2, RequestIs
  <2>2. served' = served /\ ws \in Sockets
    BY <1>2, RequestIs
  <2>3. Append(wire[ws], req) \in Seq(S!Requests)
    BY <2>2
  <2> QED BY <2>1, <2>2, <2>3, RecordsAreUpdated
<1>3. CASE S!Forget(open \ open')
  <2>1. <<>> \in Seq(S!Requests)
    OBVIOUS
  <2> QED BY <1>0, <1>3, <2>1 DEF S!Forget
<1>4. CASE \E s \in open : S!Serve(s)
  <2> PICK s \in open : S!Serve(s)
    BY <1>4
  <2>1. s \in Sockets /\ wire[s] \in Seq(S!Requests) /\ wire[s] # <<>>
    BY DEF TypeOK, S!Serve
  <2>2. Head(wire[s]) \in S!Requests /\ Tail(wire[s]) \in Seq(S!Requests)
    BY <2>1
  <2>3. S!Effect(served[s], Head(wire[s])) \in S!Record
    <3> DEFINE req == Head(wire[s])
    <3>1. req.v \in SUBSET Tokens
      BY <2>2 DEF S!Requests
    <3>2. S!Understood(req) => S!Asked(req) \in S!Modes \cup {S!NotSubscribed}
      BY <2>2 DEF S!Requests, S!Understood, S!Asked, S!Modes, S!DEFAULT_MODE,
         S!Null
    <3>3. served[s] \in S!Record
      BY <2>1
    <3> HIDE DEF req
    <3>4. S!Effect(served[s], req) \in S!Record
      BY <3>1, <3>2, <3>3, RecordsAreUpdated DEF S!Effect
    <3> QED BY <3>4 DEF req
  <2> QED BY <2>1, <2>2, <2>3 DEF S!Serve
<1>5. CASE \E s \in Sockets : S!resubInstruments(s)
  BY <1>0, <1>5, ResentIs DEF S!resubInstruments
<1> QED BY <1>1, <1>2, <1>3, <1>4, <1>5, SubscriptionSteps

\* Only a message can change the heartbeats.
LEMMA BeatSteps ==
  ASSUME [TickerNext]_tickerVars
  PROVE  UNCHANGED messageVars \/ \E m : M!Beat(m)
<1>1. CASE Request
  BY <1>1 DEF Request
<1>2. CASE Handlers \/ Other
  BY <1>2 DEF Handlers, Other, Keeping
<1>3. CASE Server
  BY <1>3 DEF Server
<1>4. CASE \E s \in Sockets : Connected(s)
  BY <1>4 DEF Connected
<1>5. CASE \E m \in M!TextMessages \cup M!BinaryMessages : Deliver(m)
  BY <1>5 DEF Deliver
<1>6. CASE UNCHANGED tickerVars
  BY <1>6 DEF tickerVars
<1> QED BY <1>1, <1>2, <1>3, <1>4, <1>5, <1>6 DEF TickerNext

\* SubsTypeOK is inductive beside TypeOK.
LEMMA SafeSubscriptionTypes == TickerSpec => [](TypeOK /\ S!SubsTypeOK)
<1>1. TickerInit => S!SubsTypeOK
  BY DEF TickerInit, S!SubsInit, S!SubsTypeOK, S!Nothing, S!Record
<1>2. TypeOK /\ S!SubsTypeOK /\ [TickerNext]_tickerVars => S!SubsTypeOK'
  BY SubscriptionTypes
<1>3. TickerSpec => []TypeOK
  BY TickerIsAConnection, SafeTypes, PTL
<1> QED BY <1>1, <1>2, <1>3, PTL DEF TickerSpec

\* The variables of the whole ticker keep their types, for any number of
\* instruments, requests and heartbeats: what the client records is always a
\* mode, whatever string the program passes to setMode.
THEOREM TickerTypes == TickerSpec => []TickerTypeOK
<1>1. TickerInit => M!MessagesTypeOK
  BY TickerAssumption DEF TickerInit, M!MessagesInit, M!MessagesTypeOK
<1>2. M!MessagesTypeOK /\ [TickerNext]_tickerVars => M!MessagesTypeOK'
  <2> SUFFICES ASSUME M!MessagesTypeOK, [TickerNext]_tickerVars
               PROVE  M!MessagesTypeOK'
    OBVIOUS
  <2>1. CASE UNCHANGED messageVars
    BY <2>1 DEF messageVars, M!MessagesTypeOK
  <2>2. ASSUME NEW m, M!Beat(m) PROVE M!MessagesTypeOK'
    BY <2>2, TickerAssumption
       DEF M!Beat, M!Notices, M!messageVars, M!MessagesTypeOK
  <2> QED BY <2>1, <2>2, BeatSteps
<1> QED BY <1>1, <1>2, SafeSubscriptionTypes, PTL DEF TickerSpec, TickerTypeOK

-----------------------------------------------------------------------------
(* The server and the client agree.                                        *)

\* A new request on a connection decides what the server will serve of the
\* instruments it is about, and of no other.
LEMMA LastRequestDecides ==
  ASSUME NEW c, NEW t, NEW mode, NEW req, wire[c] \in Seq(S!Requests),
         wire'[c] = Append(wire[c], req), served'[c] = served[c]
  PROVE  /\ S!Concerns(req, t) /\ S!Asked(req) = mode => S!WillServe(c, t, mode)'
         /\ ~S!Concerns(req, t) /\ S!WillServe(c, t, mode)
              => S!WillServe(c, t, mode)'
<1>1. /\ DOMAIN wire'[c] = 1..(Len(wire[c]) + 1) /\ Len(wire[c]) \in Nat
      /\ DOMAIN wire[c] = 1..Len(wire[c])
      /\ wire'[c][Len(wire[c]) + 1] = req
      /\ \A i \in DOMAIN wire[c] : wire'[c][i] = wire[c][i]
  OBVIOUS
<1> HIDE DEF S!Concerns, S!Asked
<1>2. ASSUME S!Concerns(req, t), S!Asked(req) = mode
      PROVE  S!WillServe(c, t, mode)'
  BY <1>1, <1>2 DEF S!WillServe
<1>3. ASSUME ~S!Concerns(req, t), S!WillServe(c, t, mode)
      PROVE  S!WillServe(c, t, mode)'
  BY <1>1, <1>3 DEF S!WillServe
<1> QED BY <1>2, <1>3

\* That the server takes a request does not change what it will serve in the
\* end.
LEMMA ServingKeepsTheEnd ==
  ASSUME NEW c \in Sockets, NEW t \in Tokens, NEW mode, S!SubsTypeOK,
         S!Serve(c), S!WillServe(c, t, mode)
  PROVE  S!WillServe(c, t, mode)'
<1> DEFINE w == wire[c]
<1>1. /\ w \in Seq(S!Requests) /\ w # <<>> /\ wire'[c] = Tail(w)
      /\ served'[c] = S!Effect(served[c], w[1])
  BY DEF S!SubsTypeOK, S!Serve
<1>2. served'[c][t] = IF S!Concerns(w[1], t) THEN S!Asked(w[1]) ELSE served[c][t]
  BY <1>1 DEF S!Effect, S!Update, S!Concerns
<1> HIDE DEF w
<1>3. /\ Len(w) \in Nat \ {0} /\ DOMAIN w = 1..Len(w)
      /\ DOMAIN wire'[c] = 1..(Len(w) - 1)
      /\ \A i \in 1..(Len(w) - 1) : wire'[c][i] = w[i + 1]
  BY <1>1
<1>4. CASE \A i \in DOMAIN w : ~S!Concerns(w[i], t)
  BY <1>2, <1>3, <1>4 DEF S!WillServe, w
<1>5. CASE \E i \in DOMAIN w :
             /\ S!Concerns(w[i], t) /\ S!Asked(w[i]) = mode
             /\ \A j \in DOMAIN w : j > i => ~S!Concerns(w[j], t)
  <2> PICK i \in DOMAIN w :
             /\ S!Concerns(w[i], t) /\ S!Asked(w[i]) = mode
             /\ \A j \in DOMAIN w : j > i => ~S!Concerns(w[j], t)
    BY <1>5
  <2>1. CASE i = 1
    BY <1>2, <1>3, <2>1 DEF S!WillServe
  <2>2. CASE i > 1
    <3>1. /\ i - 1 \in DOMAIN wire'[c] /\ wire'[c][i - 1] = w[i]
          /\ \A j \in DOMAIN wire'[c] :
                j > i - 1 => j + 1 \in DOMAIN w /\ j + 1 > i
      BY <1>3, <2>2
    <3> QED BY <1>3, <3>1 DEF S!WillServe
  <2> QED BY <1>3, <2>1, <2>2
<1> QED BY <1>4, <1>5 DEF S!WillServe, w

\* A resubscription asks for every instrument on the client's record in its
\* mode, and for no other.
LEMMA ResentIsTheRecord ==
  ASSUME NEW c \in Sockets, NEW t \in Tokens, S!SubsTypeOK,
         S!resubInstruments(c)
  PROVE  S!WillServe(c, t, subbedInstruments[t])'
<1>1. /\ wire'[c] = S!Resent /\ served'[c] = S!Nothing
      /\ subbedInstruments' = subbedInstruments
      /\ subbedInstruments[t] \in S!Modes \cup {S!NotSubscribed}
  BY DEF S!resubInstruments, S!SubsTypeOK, S!Record
<1>2. ASSUME NEW mode \in S!Modes
      PROVE  LET req == [a |-> "mode", mode |-> mode, v |-> S!InMode(mode)]
             IN  /\ S!Concerns(req, t) <=> subbedInstruments[t] = mode
                 /\ S!Asked(req) = mode
  BY DEF S!Concerns, S!Asked, S!Understood, S!InMode, S!Modes, S!Unknown
<1>3. CASE subbedInstruments[t] \in S!Modes
  <2> DEFINE mode == subbedInstruments[t]
  <2>1. S!InMode(mode) # {}
    BY DEF S!InMode
  <2>2. PICK i \in DOMAIN S!Resent :
          /\ S!Resent[i] = [a |-> "mode", mode |-> mode, v |-> S!InMode(mode)]
          /\ \A j \in DOMAIN S!Resent : j # i => S!Resent[j].mode # mode
    BY <1>3, <2>1, ResentIs
  <2>3. ASSUME NEW j \in DOMAIN S!Resent, j # i
        PROVE  ~S!Concerns(S!Resent[j], t)
    <3> PICK other \in S!Modes :
          S!Resent[j] = [a |-> "mode", mode |-> other, v |-> S!InMode(other)]
      BY ResentIs
    <3>1. other # mode
      BY <2>2, <2>3
    <3> QED BY <1>2, <3>1
  <2>4. S!Concerns(S!Resent[i], t) /\ S!Asked(S!Resent[i]) = mode
    BY <1>2, <1>3, <2>2
  <2>5. \A j \in DOMAIN S!Resent : j > i => ~S!Concerns(S!Resent[j], t)
    <3>1. i \in Nat
      BY ResentIs
    <3> QED BY <2>3, <3>1
  <2> QED BY <1>1, <2>4, <2>5 DEF S!WillServe
<1>4. CASE subbedInstruments[t] = S!NotSubscribed
  <2>1. \A i \in DOMAIN S!Resent : ~S!Concerns(S!Resent[i], t)
    BY <1>2, <1>4, ResentIs DEF S!Modes, S!NotSubscribed
  <2> QED BY <1>1, <1>4, <2>1 DEF S!WillServe, S!Nothing
<1> QED BY <1>1, <1>3, <1>4

\* Whatever is lost with a broken connection, for any instruments and any
\* number of connections, retries and requests, the server will serve what the
\* client has on record of every instrument heard of by setMode or by a
\* resubscription.  With the types InSync is inductive: a request decides what
\* is served in the end, serving it changes nothing about that, and a new
\* connection begins with the client's record.
THEOREM StaysInSync == TickerSpec => []InSync
<1>1. TickerInit => InSync
  BY DEF TickerInit, Init, InSync, isConnected
<1>2. TypeOK /\ S!SubsTypeOK /\ InSync /\ [TickerNext]_tickerVars => InSync'
  <2> SUFFICES ASSUME TypeOK, S!SubsTypeOK, InSync, [TickerNext]_tickerVars,
                      isConnected', NEW t \in Tokens, t \notin unheard'
               PROVE  S!WillServe(ws, t, subbedInstruments[t])'
    BY DEF InSync
  <2>1. ASSUME wire'[ws] = wire[ws], served'[ws] = served[ws], ws' = ws,
               UNCHANGED <<subbedInstruments, unheard>>
        PROVE  S!WillServe(ws, t, subbedInstruments[t])'
    BY <2>1 DEF S!WillServe, InSync, isConnected
  <2>2. CASE UNCHANGED subsVars /\ UNCHANGED <<ws, open>>
    BY <2>1, <2>2 DEF subsVars
  <2>3. CASE Request
    <3>1. PICK req \in S!Requests, toks \in SUBSET Tokens,
               mode \in S!Modes \cup {S!NotSubscribed} :
            /\ wire' = [wire EXCEPT ![ws] = Append(@, req)] /\ req.v = toks
            /\ subbedInstruments' = S!Update(subbedInstruments, toks, mode)
            /\ \/ unheard' = unheard \cup toks
               \/ /\ unheard' = unheard \ toks
                  /\ req = [a |-> "mode", mode |-> mode, v |-> toks]
                  /\ mode \in S!Modes
      BY <2>3, RequestIs
    <3>2. PICK c \in Sockets : c = ws
      BY <2>3, RequestIs
    <3>3. /\ isConnected /\ ws' = ws /\ served' = served
          /\ wire'[c] = Append(wire[c], req) /\ wire[c] \in Seq(S!Requests)
      BY <2>3, <3>1, <3>2, RequestIs DEF vars, S!SubsTypeOK
    <3>4. CASE t \in toks
      <4>1. S!Concerns(req, t) /\ S!Asked(req) = mode
        BY <3>1, <3>4 DEF S!Concerns, S!Understood, S!Asked, S!Modes, S!Unknown
      <4>2. subbedInstruments'[t] = mode
        BY <3>1, <3>4 DEF S!Update
      <4>3. S!WillServe(c, t, mode)'
        BY <3>3, <4>1, LastRequestDecides
      <4> QED BY <3>2, <3>3, <4>2, <4>3
    <3>5. CASE t \notin toks
      <4>1. PICK m : m = subbedInstruments[t]
        OBVIOUS
      <4>2. ~S!Concerns(req, t)
        BY <3>1, <3>5 DEF S!Concerns
      <4>3. S!WillServe(c, t, m) /\ subbedInstruments'[t] = m
        BY <3>1, <3>2, <3>3, <3>5, <4>1 DEF InSync, S!Update
      <4>4. S!WillServe(c, t, m)'
        BY <3>3, <4>2, <4>3, LastRequestDecides
      <4> QED BY <3>2, <3>3, <4>3, <4>4
    <3> QED BY <3>4, <3>5
  <2>4. CASE /\ S!Forget(open \ open')
             /\ ws' = None \/ UNCHANGED <<ws, open>>
    <3>1. ws' = ws /\ open' = open /\ ws \in Sockets
      BY <2>4 DEF isConnected, TypeOK
    <3> QED BY <2>1, <2>4, <3>1 DEF S!Forget
  <2>5. CASE \E s \in open : S!Serve(s) /\ UNCHANGED vars
    <3> PICK s \in open : S!Serve(s) /\ UNCHANGED vars
      BY <2>5
    <3>1. PICK c, m : c \in Sockets /\ c = ws /\ m = subbedInstruments[t]
      BY DEF isConnected, TypeOK, vars
    <3>2. /\ ws' = ws /\ s \in Sockets
          /\ UNCHANGED <<subbedInstruments, unheard>>
      BY DEF S!Serve, vars, TypeOK
    <3>3. CASE s = c
      <4>1. S!WillServe(c, t, m)
        BY <3>1, <3>2 DEF InSync, isConnected
      <4>2. S!WillServe(c, t, m)'
        BY <3>1, <3>3, <4>1, ServingKeepsTheEnd
      <4> QED BY <3>1, <3>2, <4>2
    <3>4. CASE s # c
      BY <2>1, <3>1, <3>2, <3>4 DEF S!Serve, S!SubsTypeOK
    <3> QED BY <3>3, <3>4
  <2>6. CASE \E s \in Sockets : S!resubInstruments(s) /\ ws' = s
    <3> PICK s \in Sockets : S!resubInstruments(s) /\ ws' = s
      BY <2>6
    <3>1. S!WillServe(s, t, subbedInstruments[t])'
      BY ResentIsTheRecord
    <3> QED BY <3>1
  <2> QED BY <2>2, <2>3, <2>4, <2>5, <2>6, SubscriptionSteps
<1> QED BY <1>1, <1>2, SafeSubscriptionTypes, PTL DEF TickerSpec

=============================================================================
