--------------------------- MODULE Subscriptions ---------------------------
(***************************************************************************)
(* What a ticker is subscribed to: the client's record subbedInstruments,  *)
(* the requests on their way on each connection, and what the server has   *)
(* understood so far.  The record outlives connections, the rest does not. *)
(***************************************************************************)
EXTENDS Naturals, Sequences, JsonField

CONSTANTS
  Tokens,       \* instrument tokens
  Connections   \* the sockets a connection can have

Modes == {"ltp", "quote", "full"}
DEFAULT_MODE == "quote"

\* A mode is a string: the program may pass one that is none of these.
Unknown == "unknown"
NotSubscribed == "none"

VARIABLES
  subbedInstruments,  \* the client's record
  wire,               \* requests sent on a connection, oldest first
  served,             \* the server's record, per connection
  unheard             \* history: what subscribe or unsubscribe has named on
                      \* the present connection, or setMode with a mode
                      \* that is unknown, and setMode not since

Record == [Tokens -> Modes \cup {NotSubscribed}]

Requests ==
  [a : {"subscribe", "unsubscribe", Null}, v : SUBSET Tokens]
    \cup [a : {"mode"}, mode : Modes \cup {Unknown}, v : SUBSET Tokens]

SubsTypeOK ==
  /\ subbedInstruments \in Record
  /\ wire \in [Connections -> Seq(Requests)]
  /\ served \in [Connections -> Record]
  /\ unheard \subseteq Tokens

Nothing == [t \in Tokens |-> NotSubscribed]

SubsInit ==
  /\ subbedInstruments = Nothing
  /\ wire = [c \in Connections |-> <<>>]
  /\ served = [c \in Connections |-> Nothing]
  /\ unheard = {}

Update(record, toks, mode) ==
  [t \in Tokens |-> IF t \in toks THEN mode ELSE record[t]]

\* Whether the server makes anything of a request.  One without an action, or
\* for a mode it does not know, has no effect.
Understood(req) ==
  \/ req.a \in {"subscribe", "unsubscribe"}
  \/ req.a = "mode" /\ req.mode # Unknown

\* The mode a request asks for.  resubInstruments relies on the mode request to
\* subscribe as well, and DEFAULT_MODE on subscribe to mean quote.
Asked(req) ==
  CASE req.a = "subscribe"   -> DEFAULT_MODE
    [] req.a = "unsubscribe" -> NotSubscribed
    [] req.a = "mode"        -> req.mode

Effect(record, req) ==
  IF Understood(req) THEN Update(record, req.v, Asked(req)) ELSE record

\* ws->send
Send(c, req) == wire' = [wire EXCEPT ![c] = Append(@, req)]

-----------------------------------------------------------------------------
(* The operations, on the connection c that ws points to.                  *)

\* The action of subscribe and unsubscribe is given to the builder as a string
\* literal, so that the request says null in its place.
subscribe(c, toks) ==
  /\ Send(c, [a |-> field(LITERAL, "subscribe"), v |-> toks])
  /\ subbedInstruments' = Update(subbedInstruments, toks, DEFAULT_MODE)
  /\ unheard' = unheard \cup toks
  /\ UNCHANGED served

unsubscribe(c, toks) ==
  /\ Send(c, [a |-> field(LITERAL, "unsubscribe"), v |-> toks])
  /\ subbedInstruments' = Update(subbedInstruments, toks, NotSubscribed)
  /\ unheard' = unheard \cup toks
  /\ UNCHANGED served

Unheard(mode, toks) ==
  IF mode = Unknown THEN unheard \cup toks ELSE unheard \ toks

\* The mode that is recorded: the last branch takes everything else for full.
Recorded(mode) == IF mode \in {"ltp", "quote"} THEN mode ELSE "full"

\* Mutations: the mode is recorded as it was passed; the request is not sent.
setModeRecordsAny(c, mode, toks) ==
  /\ Send(c, [a |-> "mode", mode |-> mode, v |-> toks])
  /\ subbedInstruments' = Update(subbedInstruments, toks, mode)
  /\ unheard' = Unheard(mode, toks)
  /\ UNCHANGED served
setModeUnsent(c, mode, toks) ==
  /\ subbedInstruments' = Update(subbedInstruments, toks, Recorded(mode))
  /\ unheard' = Unheard(mode, toks)
  /\ UNCHANGED <<wire, served>>

\* setMode writes its request without the builder.
setMode(c, mode, toks) ==
  /\ Send(c, [a |-> "mode", mode |-> mode, v |-> toks])
  /\ subbedInstruments' = Update(subbedInstruments, toks, Recorded(mode))
  /\ unheard' = Unheard(mode, toks)
  /\ UNCHANGED served

InMode(mode) == {t \in Tokens : subbedInstruments[t] = mode}

Resend(mode) ==
  IF InMode(mode) = {} THEN <<>>
  ELSE <<[a |-> "mode", mode |-> mode, v |-> InMode(mode)]>>

\* Mutation: the instruments in full mode are forgotten.
ResentWithoutFull == Resend("ltp") \o Resend("quote")

\* One mode request for each mode some instrument is in.
Resent == Resend("ltp") \o Resend("quote") \o Resend("full")

\* resubInstruments on a new connection c.  setMode writes back the modes it
\* was given.
resubInstruments(c) ==
  /\ wire' = [wire EXCEPT ![c] = Resent]
  /\ served' = [served EXCEPT ![c] = Nothing]
  /\ unheard' = {}
  /\ UNCHANGED subbedInstruments

\* The connections in gone do not exist any more: what was on its way is lost.
Forget(gone) ==
  /\ wire' = [c \in Connections |-> IF c \in gone THEN <<>> ELSE wire[c]]
  /\ served' = [c \in Connections |-> IF c \in gone THEN Nothing ELSE served[c]]
  /\ UNCHANGED <<subbedInstruments, unheard>>

\* The server takes the oldest request of c.
Serve(c) ==
  /\ wire[c] # <<>>
  /\ served' = [served EXCEPT ![c] = Effect(@, Head(wire[c]))]
  /\ wire' = [wire EXCEPT ![c] = Tail(@)]
  /\ UNCHANGED <<subbedInstruments, unheard>>

Concerns(req, t) == Understood(req) /\ t \in req.v

\* Once the server has taken everything sent to it on c, it serves t in mode:
\* as the last request about t asks, or as now when none on its way is about t.
WillServe(c, t, mode) ==
  \/ \E i \in DOMAIN wire[c] :
        /\ Concerns(wire[c][i], t) /\ Asked(wire[c][i]) = mode
        /\ \A j \in DOMAIN wire[c] : j > i => ~Concerns(wire[c][j], t)
  \/ /\ \A i \in DOMAIN wire[c] : ~Concerns(wire[c][i], t)
     /\ served[c][t] = mode

=============================================================================
