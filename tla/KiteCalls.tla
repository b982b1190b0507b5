----------------------------- MODULE KiteCalls -----------------------------
(***************************************************************************)
(* The calls a program makes on a kite object and what it learns from      *)
(* them: the session it holds (kite/api.hpp), the path of a call through   *)
(* callApi and request::send (kite/internal.hpp, utils.hpp), the server,   *)
(* and a network that may lose a request, lose an answer, or bring a       *)
(* request late, after the client has given up.                            *)
(*                                                                         *)
(* A call blocks the program until it returns or throws.  Calls are        *)
(* numbered, so that a request that comes late is known for whose it is.   *)
(***************************************************************************)
EXTENDS Naturals, FiniteSets

CONSTANTS
  Keys,       \* API keys
  Tokens,     \* access tokens
  None,
  RejectionTypes,  \* the values of error_type that say a request was refused
  UncertainTypes,  \* those that leave open what became of it
  MaxCalls    \* bound: how many calls the program makes

ASSUME ConstantsAssumption == MaxCalls \in Nat /\ None \notin Keys \cup Tokens

\* The kinds of calls: order stands for every method that goes through
\* callApi, instruments for those that read a CSV answer themselves.
Services == {"order", "instruments", "session", "invalidate"}
CallIds == 1..MaxCalls

\* The values throwException knows.
KnownTypes == {"TokenException", "UserException", "OrderException",
               "InputException", "DataException", "PermissionException",
               "GeneralException", "NetworkException"}

\* exceptions.hpp: errors of the token, the user, the order, the input or the
\* permission are found before anything is done.  Those of the network behind
\* the API, of a bad answer from the order management system, and the
\* unclassified ones may come of a request that has been carried out.
ASSUME RejectionAssumption ==
  /\ RejectionTypes \subseteq {"TokenException", "UserException", "OrderException",
                              "InputException", "PermissionException"}
  /\ "TokenException" \in RejectionTypes
  /\ UncertainTypes \subseteq {"NetworkException", "DataException",
                              "GeneralException"}

\* error_type of an answer; "" is an answer without one.
ErrorTypes == RejectionTypes \cup UncertainTypes \cup {""}

\* What a call can end in.
Outcomes == {"none", "value", "empty", "false", "libException",
             "unknownException"} \cup (ErrorTypes \ {""})

VARIABLES
  key, token, authorization,  \* kite's fields; authorization is what
                              \* setAccessToken made of key and token
  call,       \* the call in progress: its number, or 0
  last,       \* the number of the last call
  service,    \* of each call
  credential, \* the key and the token each request carries
  requests,   \* the calls whose request is in the network
  answer,     \* the answer to each call, None when there is none
  outcome,    \* what each call ended in
  sessions,   \* server: the keys and tokens that are valid
  issued,     \* server: the tokens it has given out, each only once
  done        \* history: how many times the server carried out each call

client == <<key, token, authorization>>
server == <<sessions, issued, done>>
vars == <<client, call, last, service, credential, requests, answer, outcome,
          server>>

Credentials == Keys \X Tokens

Init ==
  /\ key \in Keys
  /\ token = None
  /\ authorization = None
  /\ call = 0
  /\ last = 0
  /\ service = [c \in CallIds |-> "order"]
  /\ credential = [c \in CallIds |-> None]
  /\ requests = {}
  /\ answer = [c \in CallIds |-> None]
  /\ outcome = [c \in CallIds |-> "none"]
  /\ \/ sessions = {} /\ issued = {}
     \/ \E s \in Credentials : sessions = {s} /\ issued = {s[2]}
  /\ done = [c \in CallIds |-> 0]

-----------------------------------------------------------------------------
(* The client.                                                             *)

Idle == call = 0

setApiKey(k) ==
  /\ Idle
  /\ key' = k
  /\ UNCHANGED <<token, authorization, call, last, service, credential,
                 requests, answer, outcome, server>>

\* Mutation: key and token change places.
setAccessTokenSwapped(t) ==
  /\ Idle
  /\ token' = t
  /\ authorization' = <<t, key>>
  /\ UNCHANGED <<key, call, last, service, credential, requests, answer,
                 outcome, server>>

\* The token the program was given at login, or got from generateSession.
setAccessToken(t) ==
  /\ Idle
  /\ token' = t
  /\ authorization' = <<key, t>>
  /\ UNCHANGED <<key, call, last, service, credential, requests, answer,
                 outcome, server>>

\* A method builds its request and hands it to httplib.  Every request
\* carries the authorization; generateSession and invalidateSession name
\* their key (and token) themselves.
Start(s) ==
  /\ Idle /\ last < MaxCalls
  /\ last' = last + 1
  /\ call' = last'
  /\ service' = [service EXCEPT ![call'] = s]
  /\ credential' = [credential EXCEPT ![call'] =
                      IF s \in {"session", "invalidate"} THEN <<key, token>>
                                                         ELSE authorization]
  /\ requests' = requests \cup {call'}
  /\ UNCHANGED <<client, answer, outcome, server>>

Return(o) ==
  /\ outcome' = [outcome EXCEPT ![call] = o]
  /\ call' = 0
  /\ UNCHANGED <<client, last, service, credential, requests, server>>

\* Mutation: a branch throws the exception of its neighbour.
ThrownOther(errorType) ==
  CASE errorType = "NetworkException" -> "OrderException"
    [] errorType = "NoException"      -> "unknownException"
    [] errorType \in KnownTypes \ {"NetworkException"} -> errorType
    [] errorType \notin KnownTypes \cup {"NoException"} -> "libException"

\* throwException.
Thrown(errorType) ==
  CASE errorType \in KnownTypes    -> errorType
    [] errorType = "NoException"   -> "unknownException"
    [] OTHER                       -> "libException"

\* Mutation: only server errors count.
FailedServerSide(a) == a.code >= 500 /\ (a.json => a.status # "success")

\* response::parse: an answer that reports an error makes the response false.
Failed(a) == a.code # 200 /\ (a.json => a.status # "success")

\* The answer comes in.  A body that is not the JSON the method expects makes
\* the parser throw; callApi throws the error the answer names; the methods
\* that call sendReq themselves look at the response only.
Result(s, a) ==
  CASE s = "instruments" -> IF a.code = 200 THEN "value" ELSE "empty"
    [] s # "instruments" /\ ~a.json -> "libException"
    [] s = "invalidate" /\ a.json -> IF Failed(a) THEN "false" ELSE "value"
    [] s \in {"order", "session"} /\ a.json ->
         IF Failed(a) THEN Thrown(a.errorType)
         ELSE IF a.typed THEN "value" ELSE "libException"

\* Mutation: what the server has refused is asked for once more.
ReceiveRetries ==
  /\ ~Idle /\ answer[call] # None
  /\ answer' = [answer EXCEPT ![call] = None]
  /\ IF answer[call].errorType \in RejectionTypes
     THEN /\ requests' = requests \cup {call}
          /\ UNCHANGED <<client, call, last, service, credential, outcome, server>>
     ELSE Return(Result(service[call], answer[call]))

Receive ==
  /\ ~Idle /\ answer[call] # None
  /\ Return(Result(service[call], answer[call]))
  /\ answer' = [answer EXCEPT ![call] = None]

\* Mutation: a request without an answer is sent again.
LostRetries ==
  /\ ~Idle /\ answer[call] = None
  /\ requests' = requests \cup {call}
  /\ UNCHANGED <<client, call, last, service, credential, answer, outcome,
                 server>>

\* httplib gives up: the connection failed, or the answer is lost or late.
\* The request may still be on its way.
Lost ==
  /\ ~Idle /\ answer[call] = None
  /\ Return("libException")
  /\ UNCHANGED answer

-----------------------------------------------------------------------------
(* The network and the server.                                             *)

\* A request is lost.
Drop(c) ==
  /\ c \in requests
  /\ requests' = requests \ {c}
  /\ UNCHANGED <<client, call, last, service, credential, answer, outcome,
                 server>>

Answer(code, json, status, errorType, typed) ==
  [code |-> code, json |-> json, status |-> status, errorType |-> errorType,
   typed |-> typed]

\* An answer is lost, or reaches a client that still waits for it.
Deliver(c, a) ==
  \/ UNCHANGED answer
  \/ call = c /\ answer' = [answer EXCEPT ![c] = a]

Authorised(c) ==
  IF service[c] = "session" THEN TRUE ELSE credential[c] \in sessions

\* The server carries out a request.  What it answers may have a member of a
\* type the client does not expect, or be replaced by a gateway's page.
CarryOut(c) ==
  /\ c \in requests /\ Authorised(c)
  /\ requests' = requests \ {c}
  /\ done' = [done EXCEPT ![c] = @ + 1]
  /\ \/ /\ service[c] = "session"
        /\ \E t \in Tokens \ issued :
              /\ sessions' = sessions \cup {<<credential[c][1], t>>}
              /\ issued' = issued \cup {t}
     \/ /\ service[c] = "invalidate"
        /\ sessions' = sessions \ {credential[c]} /\ UNCHANGED issued
     \/ /\ service[c] \notin {"session", "invalidate"}
        /\ UNCHANGED <<sessions, issued>>
  /\ \/ \E typed \in BOOLEAN : Deliver(c, Answer(200, TRUE, "success", "", typed))
     \/ Deliver(c, Answer(502, FALSE, "", "", FALSE))
     \/ \E e \in UncertainTypes : Deliver(c, Answer(504, TRUE, "error", e, FALSE))
  /\ UNCHANGED <<client, call, last, service, credential, outcome>>

\* The server refuses a request and names the reason, or does not.
Refuse(c) ==
  /\ c \in requests
  /\ requests' = requests \ {c}
  /\ \/ \E e \in IF Authorised(c) THEN ErrorTypes ELSE {"TokenException"} :
          Deliver(c, Answer(400, TRUE, "error", e, FALSE))
     \/ Deliver(c, Answer(502, FALSE, "", "", FALSE))
  /\ UNCHANGED <<client, call, last, service, credential, outcome, server>>

\* A session ends: at the end of the day, or by a login elsewhere.
Expire(s) ==
  /\ s \in sessions
  /\ sessions' = sessions \ {s}
  /\ UNCHANGED <<client, call, last, service, credential, requests, answer,
                 outcome, issued, done>>

-----------------------------------------------------------------------------
Client == \/ \E k \in Keys : setApiKey(k)
          \/ \E t \in Tokens : setAccessToken(t)
          \/ \E s \in Services : Start(s)
          \/ Receive \/ Lost

Outside == \/ \E c \in CallIds : Drop(c) \/ CarryOut(c) \/ Refuse(c)
           \/ \E s \in sessions : Expire(s)

Next == Client \/ Outside

\* httplib's time limits end every call; the network and the server owe
\* nothing.
Spec == Init /\ [][Next]_vars /\ WF_vars(Receive \/ Lost)

-----------------------------------------------------------------------------
(* Correctness.                                                            *)

Answers == [code : {200, 400, 502, 504}, json : BOOLEAN,
            status : {"success", "error", ""}, errorType : ErrorTypes,
            typed : BOOLEAN]

TypeOK ==
  /\ key \in Keys /\ token \in Tokens \cup {None}
  /\ authorization \in Credentials \cup {None}
  /\ call \in {0, last} /\ last \in 0..MaxCalls
  /\ service \in [CallIds -> Services]
  /\ \A c \in CallIds : answer[c] = None \/ answer[c] \in Answers
  /\ requests \subseteq 1..last
  /\ outcome \in [CallIds -> Outcomes]
  /\ sessions \subseteq Keys \X issued /\ issued \subseteq Tokens

\* An order is placed at most once for each call, whatever the network does:
\* neither the library nor httplib under it sends a request again.
AtMostOnce == \A c \in CallIds : done[c] <= 1

\* A call that returns a value has been carried out, and a call that throws
\* a rejection (a token, user, order, input or permission exception) has not
\* been and never will be, even if the program goes on and the network brings
\* things late.  (The other exceptions leave it open: the caller must look.)
OutcomeTells ==
  \A c \in CallIds :
     /\ outcome[c] = "value" => done[c] = 1
     /\ outcome[c] \in RejectionTypes => done[c] = 0 /\ c \notin requests

\* When invalidateSession has answered true, its token is dead: whatever
\* authorization the program makes of it, now or later, the server refuses.
LoggedOut ==
  \A c \in CallIds, k \in Keys :
     (service[c] = "invalidate" /\ outcome[c] = "value") =>
        <<k, credential[c][2]>> \notin sessions

\* What becomes of a call, and what its program has learnt.
Fate(c) == CASE c > last                          -> "unmade"
             [] c <= last /\ c \in requests       -> "open"
             [] c <= last /\ c \notin requests    ->
                  IF done[c] = 1 THEN "done" ELSE "never"
Learnt(o) == CASE o = "none"            -> "nothing"
               [] o = "value"           -> "value"
               [] o \in RejectionTypes  -> "refused"
               [] OTHER                 -> "unknown"
fateBar == [c \in CallIds |-> Fate(c)]
toldBar == [c \in CallIds |-> Learnt(outcome[c])]

Promise == INSTANCE CallPromise WITH inProgress <- call, fate <- fateBar,
                                     told <- toldBar

\* The library implements the promise of a call: nothing that has happened or
\* has been given up happens again, every call ends, and no call is told a
\* success or a refusal that is not, or not yet, the server's.
KeepsPromise == Promise!Spec

Answered == ~Idle /\ answer[call] # None /\ call' = 0

\* The documentation of unknownException: it is thrown when the API does not
\* answer 200 and names no error either.
UnnamedErrorsAreUnknown ==
  [][(Answered /\ service[call] = "order" /\ answer[call].json
        /\ answer[call].code # 200 /\ answer[call].errorType = "")
       => outcome'[call] = "unknownException"]_vars

\* The documentation of the exceptions: API errors are raised, so the caller
\* need not look at HTTP codes.
ErrorsRaise ==
  [][(Answered /\ service[call] = "instruments" /\ answer[call].code # 200)
       => outcome'[call] # "empty"]_vars

=============================================================================
