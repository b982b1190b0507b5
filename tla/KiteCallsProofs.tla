-------------------------- MODULE KiteCallsProofs --------------------------
(***************************************************************************)
(* What a program knows of the server from its calls, for any number of    *)
(* calls, keys and tokens.  AtMostOnce and OutcomeTells are not inductive, *)
(* because a request may outlive its call and an answer says nothing of    *)
(* where it came from: Accounts relates requests, answers and outcomes to  *)
(* what the server has done.  LoggedOut rests on it and on Logins, which   *)
(* relates the calls carried out to the tokens the server has given out.   *)
(***************************************************************************)
EXTENDS KiteCalls, TLAPS

Numbered ==
  /\ last \in 0..MaxCalls /\ call \in {0, last}
  /\ requests \subseteq 1..last
  /\ done \in [CallIds -> {0, 1}]
  /\ DOMAIN answer = CallIds /\ DOMAIN outcome = CallIds
  /\ DOMAIN service = CallIds
  /\ \A c \in CallIds : service[c] \in Services

\* A call that has not been made has left no trace.
Untouched(c) == c > last => done[c] = 0 /\ outcome[c] = "none"

\* An answer under way is to the call in progress, whose request is gone, and
\* says what the server did.
Truthful(c) ==
  answer[c] # None =>
     /\ c = call /\ c \notin requests
     /\ answer[c].status = "success" => answer[c].code = 200
     /\ answer[c].code = 200 => done[c] = 1
     /\ answer[c].errorType \in RejectionTypes => done[c] = 0

Told(c) ==
  /\ outcome[c] = "value" => done[c] = 1
  /\ outcome[c] \in RejectionTypes => done[c] = 0 /\ c \notin requests

Accounts ==
  /\ Numbered
  /\ \A c \in CallIds : /\ c \in requests => done[c] = 0
                        /\ Untouched(c) /\ Truthful(c) /\ Told(c)

\* The calls made so far are calls the bound allows.
LEMMA CallsAreNumbers ==
  CallIds \subseteq Nat /\ (last \in 0..MaxCalls => 1..last \subseteq CallIds)
BY ConstantsAssumption DEF CallIds

\* What a call ends in is no rejection unless its answer is one, and no value
\* unless its answer is that of a request that was carried out.
LEMMA ResultTells ==
  ASSUME NEW s \in Services, NEW a,
         a.status = "success" => a.code = 200
  PROVE  /\ Result(s, a) = "value" => a.code = 200
         /\ Result(s, a) \in RejectionTypes => a.errorType \in RejectionTypes
<1>1. \A o \in {"value", "empty", "false", "libException", "unknownException"} :
         o \notin RejectionTypes
  BY RejectionAssumption DEF KnownTypes
<1>2. Thrown(a.errorType) # "value"
  BY DEF Thrown, KnownTypes
<1>3. Thrown(a.errorType) \in RejectionTypes => a.errorType \in RejectionTypes
  BY <1>1 DEF Thrown
<1>4. CASE s = "instruments"
  BY <1>1, <1>4 DEF Result
<1>5. CASE s # "instruments" /\ ~a.json
  BY <1>1, <1>5 DEF Result
<1>6. CASE s = "invalidate" /\ a.json
  BY <1>1, <1>6 DEF Result, Failed
<1>7. CASE s \in {"order", "session"} /\ a.json
  BY <1>1, <1>2, <1>3, <1>7 DEF Result, Failed
<1> QED BY <1>4, <1>5, <1>6, <1>7 DEF Services

\* The client's steps: a call begins, ends with its answer, or ends without.
LEMMA ClientStep ==
  ASSUME Accounts, Client
  PROVE  Accounts'
<1> USE CallsAreNumbers DEF Accounts, Numbered
<1>1. ASSUME UNCHANGED <<call, last, service, requests, answer, outcome, done>>
      PROVE  Accounts'
  BY <1>1 DEF Untouched, Truthful, Told
<1>2. CASE \E k \in Keys : setApiKey(k)
  BY <1>1, <1>2 DEF setApiKey, server
<1>3. CASE \E t \in Tokens : setAccessToken(t)
  BY <1>1, <1>3 DEF setAccessToken, server
<1>4. CASE \E s \in Services : Start(s)
  <2> PICK s \in Services : Start(s)
    BY <1>4
  <2>1. /\ last' = last + 1 /\ call' = last' /\ last' \in CallIds
        /\ requests' = requests \cup {last'} /\ last' \notin requests
        /\ done' = done /\ outcome' = outcome /\ answer' = answer
        /\ service' = [service EXCEPT ![last'] = s]
    BY ConstantsAssumption DEF Start, server, CallIds
  <2>2. Numbered'
    BY <2>1, ConstantsAssumption DEF CallIds
  <2>3. \A c \in CallIds : answer[c] = None
    BY DEF Start, Idle, Truthful, CallIds
  <2>4. ASSUME NEW c \in CallIds
        PROVE  /\ c \in requests' => done'[c] = 0
               /\ Untouched(c)' /\ Truthful(c)' /\ Told(c)'
    <3>1. c = last' => done[c] = 0 /\ outcome[c] = "none"
      BY <2>1 DEF Untouched
    <3>2. "none" \notin RejectionTypes /\ "none" # "value"
      BY RejectionAssumption DEF KnownTypes
    <3>3. c \in requests' => done'[c] = 0
      BY <2>1, <3>1
    <3>4. Untouched(c)'
      BY <2>1 DEF Untouched
    <3>5. Truthful(c)'
      BY <2>1, <2>3 DEF Truthful
    <3>6. Told(c)'
      BY <2>1, <3>1, <3>2 DEF Told
    <3> QED BY <3>3, <3>4, <3>5, <3>6
  <2> QED BY <2>2, <2>4
<1>5. ASSUME NEW o, Return(o), call \in CallIds,
             answer' = answer \/ answer' = [answer EXCEPT ![call] = None],
             answer'[call] = None,
             o = "value" => done[call] = 1,
             o \in RejectionTypes => done[call] = 0 /\ call \notin requests
      PROVE  Accounts'
  <2>1. /\ last' = last /\ call' = 0 /\ requests' = requests /\ done' = done
        /\ service' = service /\ outcome' = [outcome EXCEPT ![call] = o]
    BY <1>5 DEF Return, server
  <2>2. Numbered'
    BY <1>5, <2>1
  <2>3. ASSUME NEW c \in CallIds
        PROVE  Untouched(c)' /\ Truthful(c)' /\ Told(c)'
    <3>1. Untouched(c)'
      BY <1>5, <2>1 DEF Untouched, CallIds
    <3>2. Truthful(c)'
      BY <1>5, <2>1 DEF Truthful
    <3>3. Told(c)'
      BY <1>5, <2>1 DEF Told
    <3> QED BY <3>1, <3>2, <3>3
  <2> QED BY <2>1, <2>2, <2>3
<1>6. ~Idle => call \in CallIds
  BY ConstantsAssumption DEF Idle, CallIds
<1>7. CASE Receive
  <2>1. Truthful(call) /\ answer[call] # None /\ call \in CallIds
    BY <1>6, <1>7 DEF Receive
  <2>2. service[call] \in Services
    BY <2>1
  <2>3. LET o == Result(service[call], answer[call])
        IN  /\ o = "value" => done[call] = 1
            /\ o \in RejectionTypes => done[call] = 0 /\ call \notin requests
    BY <2>1, <2>2, ResultTells DEF Truthful
  <2>4. /\ Return(Result(service[call], answer[call]))
        /\ answer' = [answer EXCEPT ![call] = None]
    BY <1>7 DEF Receive
  <2> QED BY <1>5, <2>1, <2>3, <2>4
<1>8. CASE Lost
  <2>1. "libException" \notin RejectionTypes /\ "libException" # "value"
    BY RejectionAssumption DEF KnownTypes
  <2> QED BY <1>5, <1>6, <1>8, <2>1 DEF Lost
<1> QED BY <1>2, <1>3, <1>4, <1>7, <1>8 DEF Client

\* The server's steps: it carries a request out and answers, or refuses it; in
\* both the request leaves the network.
LEMMA ServerStep ==
  ASSUME Accounts, NEW c \in CallIds, c \in requests,
         requests' = requests \ {c},
         UNCHANGED <<call, last, service, outcome>>,
         NEW d \in {0, 1}, done' = [done EXCEPT ![c] = d],
         \/ answer' = answer
         \/ \E a : /\ call = c /\ answer' = [answer EXCEPT ![c] = a]
                   /\ a.status = "success" => a.code = 200
                   /\ a.code = 200 => d = 1
                   /\ a.errorType \in RejectionTypes => d = 0
  PROVE  Accounts'
<1> USE CallsAreNumbers DEF Accounts, Numbered
<1>1. Numbered'
  OBVIOUS
<1>2. ASSUME NEW e \in CallIds
      PROVE  /\ e \in requests' => done'[e] = 0
             /\ Untouched(e)' /\ Truthful(e)' /\ Told(e)'
  <2>1. e \in requests' => done'[e] = 0
    OBVIOUS
  <2>2. Untouched(e)'
    <3>1. ~(c > last)
      BY ConstantsAssumption DEF CallIds
    <3> QED BY <3>1 DEF Untouched
  <2>3. Truthful(e)'
    <3>1. CASE e = c
      BY <3>1 DEF Truthful
    <3>2. CASE e # c
      BY <3>2 DEF Truthful
    <3> QED BY <3>1, <3>2
  <2>4. Told(e)'
    <3>1. Told(e) /\ (c \in requests => done[c] = 0)
      OBVIOUS
    <3> QED BY <3>1 DEF Told
  <2> QED BY <2>1, <2>2, <2>3, <2>4
<1> QED BY <1>1, <1>2

\* The steps of the network and the server.
LEMMA OutsideStep ==
  ASSUME Accounts, Outside
  PROVE  Accounts'
<1>1. "" \notin RejectionTypes /\ \A e \in UncertainTypes : e \notin RejectionTypes
  BY RejectionAssumption
<1>2. ASSUME NEW c \in CallIds, Drop(c)
      PROVE  Accounts'
  <2>1. requests' = requests \ {c} /\ done' = done /\ answer' = answer
    BY <1>2 DEF Drop, server
  <2>2. UNCHANGED <<call, last, service, outcome>>
    BY <1>2 DEF Drop
  <2> QED BY <2>1, <2>2 DEF Accounts, Numbered, Untouched, Truthful, Told
<1>3. ASSUME NEW c \in CallIds, CarryOut(c)
      PROVE  Accounts'
  <2>1. done[c] = 0 /\ done' = [done EXCEPT ![c] = done[c] + 1]
    BY <1>3 DEF CarryOut, Accounts
  <2>2. /\ c \in requests /\ requests' = requests \ {c}
        /\ UNCHANGED <<call, last, service, outcome>>
    BY <1>3 DEF CarryOut
  <2>3. done' = [done EXCEPT ![c] = 1]
    BY <2>1
  <2> DEFINE Fine(a) == /\ a.status = "success" => a.code = 200
                       /\ a.errorType \notin RejectionTypes
  <2>4. /\ \A typed : Fine(Answer(200, TRUE, "success", "", typed))
        /\ Fine(Answer(502, FALSE, "", "", FALSE))
        /\ \A e \in UncertainTypes : Fine(Answer(504, TRUE, "error", e, FALSE))
    <3>1. ASSUME NEW e \in UncertainTypes
          PROVE  Fine(Answer(504, TRUE, "error", e, FALSE))
      <4>1. e \notin RejectionTypes
        BY <1>1
      <4> QED BY <4>1 DEF Answer
    <3> QED BY <1>1, <3>1 DEF Answer
  <2>5. \/ answer' = answer
        \/ \E a : call = c /\ answer' = [answer EXCEPT ![c] = a] /\ Fine(a)
    <3> HIDE DEF Fine
    <3>1. ASSUME NEW a, Fine(a),
                 answer' = answer \/ (call = c /\ answer' = [answer EXCEPT ![c] = a])
          PROVE  \/ answer' = answer
                 \/ \E b : call = c /\ answer' = [answer EXCEPT ![c] = b] /\ Fine(b)
      BY <3>1
    <3>2. CASE \E typed \in BOOLEAN : Deliver(c, Answer(200, TRUE, "success", "", typed))
      <4> PICK typed \in BOOLEAN : Deliver(c, Answer(200, TRUE, "success", "", typed))
        BY <3>2
      <4> QED BY <2>4, <3>1 DEF Deliver
    <3>3. CASE Deliver(c, Answer(502, FALSE, "", "", FALSE))
      BY <2>4, <3>1, <3>3 DEF Deliver
    <3>4. CASE \E e \in UncertainTypes :
                  Deliver(c, Answer(504, TRUE, "error", e, FALSE))
      <4>1. PICK e \in UncertainTypes :
                  Deliver(c, Answer(504, TRUE, "error", e, FALSE))
        BY <3>4
      <4>2. Fine(Answer(504, TRUE, "error", e, FALSE))
        BY <2>4
      <4> QED BY <3>1, <4>1, <4>2 DEF Deliver
    <3> QED BY <1>3, <3>2, <3>3, <3>4 DEF CarryOut
  <2> QED BY <2>2, <2>3, <2>5, ServerStep
<1>4. ASSUME NEW c \in CallIds, Refuse(c)
      PROVE  Accounts'
  <2>1. /\ c \in requests /\ requests' = requests \ {c}
        /\ UNCHANGED <<call, last, service, outcome>>
        /\ done[c] = 0 /\ done' = [done EXCEPT ![c] = 0]
    BY <1>4 DEF Refuse, Accounts, Numbered, server
  <2> DEFINE Refusal(a) == a.status # "success" /\ a.code # 200
  <2>2. /\ \A e : Refusal(Answer(400, TRUE, "error", e, FALSE))
        /\ Refusal(Answer(502, FALSE, "", "", FALSE))
    BY DEF Answer
  <2>3. \/ answer' = answer
        \/ \E a : call = c /\ answer' = [answer EXCEPT ![c] = a] /\ Refusal(a)
    <3> HIDE DEF Refusal
    <3>1. ASSUME NEW a, Refusal(a),
                 answer' = answer \/ (call = c /\ answer' = [answer EXCEPT ![c] = a])
          PROVE  \/ answer' = answer
                 \/ \E b : call = c /\ answer' = [answer EXCEPT ![c] = b] /\ Refusal(b)
      BY <3>1
    <3>2. CASE \E e \in ErrorTypes \cup {"TokenException"} :
                  Deliver(c, Answer(400, TRUE, "error", e, FALSE))
      <4> PICK e : Deliver(c, Answer(400, TRUE, "error", e, FALSE))
        BY <3>2
      <4> QED BY <2>2, <3>1 DEF Deliver
    <3>3. CASE Deliver(c, Answer(502, FALSE, "", "", FALSE))
      BY <2>2, <3>1, <3>3 DEF Deliver
    <3> QED BY <1>4, <3>2, <3>3 DEF Refuse
  <2> QED BY <2>1, <2>3, ServerStep
<1>5. ASSUME NEW s \in sessions, Expire(s)
      PROVE  Accounts'
  <2>1. UNCHANGED <<call, last, service, requests, answer, outcome, done>>
    BY <1>5 DEF Expire
  <2> QED BY <2>1 DEF Accounts, Numbered, Untouched, Truthful, Told
<1> QED BY <1>2, <1>3, <1>4, <1>5 DEF Outside

\* Accounts is inductive.
LEMMA AccountsHold == Spec => []Accounts
<1>1. Init => Accounts
  <2> SUFFICES ASSUME Init PROVE Accounts
    OBVIOUS
  <2>1. "none" # "value" /\ "none" \notin RejectionTypes
    BY RejectionAssumption DEF KnownTypes
  <2> QED BY <2>1, ConstantsAssumption
          DEF Init, Accounts, Numbered, Untouched, Truthful, Told, Services
<1>2. Accounts /\ [Next]_vars => Accounts'
  <2> SUFFICES ASSUME Accounts, [Next]_vars PROVE Accounts'
    OBVIOUS
  <2>1. CASE UNCHANGED vars
    BY <2>1 DEF vars, client, server, Accounts, Numbered, Untouched, Truthful,
                Told
  <2> QED BY <2>1, ClientStep, OutsideStep DEF Next
<1> QED BY <1>1, <1>2, PTL DEF Spec

\* Neither the library nor httplib sends a request again: an order is placed at
\* most once for each call, for any number of calls and whatever the network
\* loses or delays.
THEOREM PlacedAtMostOnce == Spec => []AtMostOnce
<1>1. Accounts => AtMostOnce
  BY DEF Accounts, Numbered, AtMostOnce
<1> QED BY <1>1, AccountsHold, PTL

\* A call that returns a value has been carried out, and one that throws an
\* exception by which the API refuses has not been and never will be, for any
\* number of calls and any set of such exceptions.
THEOREM OutcomeIsTrue == Spec => []OutcomeTells
<1>1. Accounts => OutcomeTells
  BY DEF Accounts, Told, OutcomeTells
<1> QED BY <1>1, AccountsHold, PTL

-----------------------------------------------------------------------------
(* Types.                                                                  *)

\* A login names its key itself: the server makes the session it gives out
\* from the key of the request.
SessionKeys ==
  /\ DOMAIN credential = CallIds
  /\ \A c \in CallIds :
        c \in requests /\ service[c] = "session" => credential[c][1] \in Keys

\* Every answer of the server ends a call in one of the outcomes.
LEMMA ResultIsAnOutcome ==
  ASSUME NEW s \in Services, NEW a \in Answers
  PROVE  Result(s, a) \in Outcomes
<1>1. a.errorType \in ErrorTypes /\ a.json \in BOOLEAN
  BY DEF Answers
<1>2. Thrown(a.errorType) \in Outcomes
  BY <1>1, RejectionAssumption DEF Thrown, KnownTypes, ErrorTypes, Outcomes
<1>3. {"value", "empty", "false", "libException"} \subseteq Outcomes
  BY DEF Outcomes
<1> QED BY <1>1, <1>2, <1>3 DEF Result, Services

\* The steps of the client keep the types.
LEMMA ClientTypes ==
  ASSUME TypeOK, Accounts, SessionKeys, Client
  PROVE  TypeOK' /\ SessionKeys'
<1> USE CallsAreNumbers, ConstantsAssumption
<1>1. CASE \E k \in Keys : setApiKey(k)
  BY <1>1 DEF setApiKey, server, TypeOK, SessionKeys
<1>2. CASE \E t \in Tokens : setAccessToken(t)
  BY <1>2 DEF setAccessToken, server, TypeOK, SessionKeys, Credentials
<1>3. CASE \E s \in Services : Start(s)
  <2> PICK s \in Services : Start(s)
    BY <1>3
  <2>1. /\ last \in 0..MaxCalls /\ last < MaxCalls /\ last' = last + 1
        /\ call' = last' /\ requests' = requests \cup {last'}
        /\ service' = [service EXCEPT ![last'] = s]
        /\ credential' = [credential EXCEPT ![last'] =
              IF s \in {"session", "invalidate"} THEN <<key, token>>
                                                 ELSE authorization]
        /\ UNCHANGED <<key, token, authorization, answer, outcome, sessions,
                       issued>>
    BY DEF Start, client, server, TypeOK
  <2>2. last' \in CallIds /\ last' \in 0..MaxCalls /\ last' \notin requests
    BY <2>1 DEF CallIds, TypeOK
  <2>3. requests' \subseteq 1..last'
    BY <2>1 DEF TypeOK
  <2>4. service' \in [CallIds -> Services]
    BY <2>1 DEF TypeOK
  <2>5. TypeOK'
    BY <2>1, <2>2, <2>3, <2>4 DEF TypeOK
  <2>6. SessionKeys'
    BY <2>1, <2>2 DEF SessionKeys, TypeOK
  <2> QED BY <2>5, <2>6
<1>4. ASSUME NEW o \in Outcomes, Return(o),
             answer' = answer \/ answer' = [answer EXCEPT ![call] = None]
      PROVE  TypeOK' /\ SessionKeys'
  <2>1. /\ call' = 0
        /\ UNCHANGED <<key, token, authorization, last, service, credential,
                       requests, sessions, issued>>
        /\ outcome' = [outcome EXCEPT ![call] = o]
    BY <1>4 DEF Return, client, server
  <2>2. outcome' \in [CallIds -> Outcomes]
    BY <2>1 DEF TypeOK
  <2>3. \A c \in CallIds : answer'[c] = None \/ answer'[c] \in Answers
    BY <1>4 DEF TypeOK, Accounts, Numbered
  <2>4. SessionKeys'
    BY <2>1 DEF SessionKeys
  <2> QED BY <2>1, <2>2, <2>3, <2>4 DEF TypeOK
<1>5. CASE Receive
  <2>1. call \in CallIds
    BY <1>5 DEF Receive, Idle, TypeOK, CallIds
  <2>2. answer[call] \in Answers /\ service[call] \in Services
    BY <1>5, <2>1 DEF Receive, TypeOK
  <2> QED BY <1>4, <1>5, <2>2, ResultIsAnOutcome DEF Receive
<1>6. CASE Lost
  <2>1. "libException" \in Outcomes
    BY DEF Outcomes
  <2> QED BY <1>4, <1>6, <2>1 DEF Lost
<1> QED BY <1>1, <1>2, <1>3, <1>5, <1>6 DEF Client

\* The answers that name no error are answers.
LEMMA ServerAnswers ==
  /\ \A typed \in BOOLEAN : Answer(200, TRUE, "success", "", typed) \in Answers
  /\ Answer(502, FALSE, "", "", FALSE) \in Answers
<1>1. "" \in ErrorTypes
  BY DEF ErrorTypes
<1>2. \A typed \in BOOLEAN : Answer(200, TRUE, "success", "", typed) \in Answers
  BY <1>1 DEF Answer, Answers
<1>3. Answer(502, FALSE, "", "", FALSE) \in Answers
  BY <1>1 DEF Answer, Answers
<1> QED BY <1>2, <1>3

\* An answer that is delivered leaves every answer an answer.
LEMMA DeliveryTypes ==
  ASSUME TypeOK, Accounts, NEW c \in CallIds, NEW a \in Answers, Deliver(c, a)
  PROVE  \A d \in CallIds : answer'[d] = None \/ answer'[d] \in Answers
BY DEF TypeOK, Accounts, Numbered, Deliver

\* The steps of the network and the server keep the types.
LEMMA OutsideTypes ==
  ASSUME TypeOK, Accounts, SessionKeys, Outside
  PROVE  TypeOK' /\ SessionKeys'
<1>1. ASSUME requests' \subseteq requests,
             UNCHANGED <<key, token, authorization, call, last, service,
                         credential, outcome>>,
             \A d \in CallIds : answer'[d] = None \/ answer'[d] \in Answers,
             sessions' \subseteq Keys \X issued', issued' \subseteq Tokens
      PROVE  TypeOK' /\ SessionKeys'
  BY <1>1 DEF TypeOK, SessionKeys
<1>2. ASSUME NEW c \in CallIds, Drop(c)
      PROVE  TypeOK' /\ SessionKeys'
  BY <1>1, <1>2 DEF Drop, client, server, TypeOK
<1>3. ASSUME NEW c \in CallIds, CarryOut(c)
      PROVE  TypeOK' /\ SessionKeys'
  <2>1. /\ requests' \subseteq requests
        /\ UNCHANGED <<key, token, authorization, call, last, service,
                       credential, outcome>>
    BY <1>3 DEF CarryOut, client
  <2>2. sessions' \subseteq Keys \X issued' /\ issued' \subseteq Tokens
    <3>1. CASE /\ service[c] = "session"
               /\ \E t \in Tokens \ issued :
                     /\ sessions' = sessions \cup {<<credential[c][1], t>>}
                     /\ issued' = issued \cup {t}
      <4>1. credential[c][1] \in Keys
        BY <1>3, <3>1 DEF CarryOut, SessionKeys
      <4> QED BY <3>1, <4>1 DEF TypeOK
    <3>2. CASE sessions' \subseteq sessions /\ issued' = issued
      BY <3>2 DEF TypeOK
    <3> QED BY <1>3, <3>1, <3>2 DEF CarryOut
  <2>3. \E a \in Answers : Deliver(c, a)
    <3>1. ASSUME \E e \in UncertainTypes :
                    Deliver(c, Answer(504, TRUE, "error", e, FALSE))
          PROVE  \E a \in Answers : Deliver(c, a)
      <4>1. PICK e \in UncertainTypes :
                    Deliver(c, Answer(504, TRUE, "error", e, FALSE))
        BY <3>1
      <4>2. Answer(504, TRUE, "error", e, FALSE) \in Answers
        BY DEF Answer, Answers, ErrorTypes
      <4> QED BY <4>1, <4>2
    <3>2. ASSUME \E typed \in BOOLEAN :
                    Deliver(c, Answer(200, TRUE, "success", "", typed))
          PROVE  \E a \in Answers : Deliver(c, a)
      <4>1. PICK typed \in BOOLEAN :
                    Deliver(c, Answer(200, TRUE, "success", "", typed))
        BY <3>2
      <4>2. Answer(200, TRUE, "success", "", typed) \in Answers
        BY ServerAnswers
      <4> QED BY <4>1, <4>2
    <3>3. Answer(502, FALSE, "", "", FALSE) \in Answers
      BY ServerAnswers
    <3> QED BY <1>3, <3>1, <3>2, <3>3 DEF CarryOut
  <2>4. \A d \in CallIds : answer'[d] = None \/ answer'[d] \in Answers
    BY <2>3, DeliveryTypes
  <2> QED BY <1>1, <2>1, <2>2, <2>4
<1>4. ASSUME NEW c \in CallIds, Refuse(c)
      PROVE  TypeOK' /\ SessionKeys'
  <2>1. "TokenException" \in ErrorTypes
    BY RejectionAssumption DEF ErrorTypes
  <2>2. ASSUME \E e \in ErrorTypes :
                  Deliver(c, Answer(400, TRUE, "error", e, FALSE))
        PROVE  \E a \in Answers : Deliver(c, a)
    <3>1. PICK e \in ErrorTypes : Deliver(c, Answer(400, TRUE, "error", e, FALSE))
      BY <2>2
    <3>2. Answer(400, TRUE, "error", e, FALSE) \in Answers
      BY DEF Answer, Answers
    <3> QED BY <3>1, <3>2
  <2>3. ASSUME Deliver(c, Answer(502, FALSE, "", "", FALSE))
        PROVE  \E a \in Answers : Deliver(c, a)
    BY <2>3, ServerAnswers
  <2>4. \E a \in Answers : Deliver(c, a)
    BY <1>4, <2>1, <2>2, <2>3 DEF Refuse
  <2>5. \A d \in CallIds : answer'[d] = None \/ answer'[d] \in Answers
    BY <2>4, DeliveryTypes
  <2> QED BY <1>1, <1>4, <2>5 DEF Refuse, client, server, TypeOK
<1>5. ASSUME NEW s \in sessions, Expire(s)
      PROVE  TypeOK' /\ SessionKeys'
  BY <1>1, <1>5 DEF Expire, client, TypeOK
<1> QED BY <1>2, <1>3, <1>4, <1>5 DEF Outside

\* The variables keep their types, for any number of calls, keys and tokens.
THEOREM CallTypes == Spec => []TypeOK
<1>1. Init => TypeOK /\ SessionKeys
  <2> SUFFICES ASSUME Init PROVE TypeOK /\ SessionKeys
    OBVIOUS
  <2>1. sessions \subseteq Keys \X issued /\ issued \subseteq Tokens
    BY DEF Init, Credentials
  <2>2. "none" \in Outcomes
    BY DEF Outcomes
  <2> QED BY <2>1, <2>2, ConstantsAssumption
          DEF Init, TypeOK, SessionKeys, Services
<1>2. TypeOK /\ SessionKeys /\ Accounts /\ [Next]_vars => TypeOK' /\ SessionKeys'
  <2>1. TypeOK /\ SessionKeys /\ UNCHANGED vars => TypeOK' /\ SessionKeys'
    BY DEF vars, client, server, TypeOK, SessionKeys
  <2> QED BY <2>1, ClientTypes, OutsideTypes DEF Next
<1> QED BY <1>1, <1>2, AccountsHold, PTL DEF Spec

-----------------------------------------------------------------------------
(* Logging out.                                                            *)

\* A token belongs to one session only.
OneSession == \A s \in sessions, u \in sessions : s[2] = u[2] => s = u

\* Once the server has carried out an invalidation, its token is one it gave
\* out, so that it does not give it out again, and is in no session.
Revoked(c) ==
  (service[c] = "invalidate" /\ done[c] = 1) =>
     /\ credential[c][2] \in issued
     /\ \A s \in sessions : s[2] # credential[c][2]

Logins ==
  /\ \A s \in sessions : s[2] \in issued
  /\ DOMAIN credential = CallIds
  /\ OneSession /\ \A c \in CallIds : Revoked(c)

\* Sessions that end leave the others as they are.
LEMMA SessionsEnd ==
  ASSUME Logins, sessions' \subseteq sessions,
         UNCHANGED <<service, credential, issued, done>>
  PROVE  Logins'
BY DEF Logins, OneSession, Revoked

\* Logins is inductive beside Accounts.
LEMMA LoginsStep ==
  ASSUME Accounts, Logins, [Next]_vars
  PROVE  Logins'
<1> USE CallsAreNumbers, ConstantsAssumption
<1>1. CASE \E s \in Services : Start(s)
  <2> PICK s \in Services : Start(s)
    BY <1>1
  <2>1. /\ last' = last + 1 /\ last' \in CallIds
        /\ service' = [service EXCEPT ![last'] = s]
        /\ \A c \in CallIds : c # last' => credential'[c] = credential[c]
        /\ DOMAIN credential' = CallIds
        /\ UNCHANGED <<sessions, issued, done>>
    BY DEF Start, server, Accounts, Numbered, Logins, CallIds
  <2>2. done[last'] = 0
    BY <2>1 DEF Accounts, Numbered, Untouched
  <2>3. \A c \in CallIds : Revoked(c)'
    BY <2>1, <2>2 DEF Logins, Revoked, Accounts, Numbered
  <2> QED BY <2>1, <2>3 DEF Logins, OneSession
<1>2. CASE Client /\ ~\E s \in Services : Start(s)
  <2>1. UNCHANGED <<service, credential, sessions, issued, done>>
    BY <1>2 DEF Client, setApiKey, setAccessToken, Receive, Lost, Return, server
  <2> QED BY <2>1, SessionsEnd
<1>3. ASSUME NEW c \in CallIds, Drop(c) \/ Refuse(c)
      PROVE  Logins'
  BY <1>3, SessionsEnd DEF Drop, Refuse, server
<1>4. ASSUME NEW s \in sessions, Expire(s)
      PROVE  Logins'
  BY <1>4, SessionsEnd DEF Expire
<1>5. ASSUME NEW c \in CallIds, CarryOut(c)
      PROVE  Logins'
  <2>1. /\ done[c] = 0 /\ done' = [done EXCEPT ![c] = done[c] + 1]
        /\ UNCHANGED <<service, credential>> /\ done \in [CallIds -> {0, 1}]
        /\ \A d \in CallIds : d # c => done'[d] = done[d]
    BY <1>5 DEF CarryOut, Accounts, Numbered
  <2>2. CASE /\ service[c] = "session"
             /\ \E t \in Tokens \ issued :
                   /\ sessions' = sessions \cup {<<credential[c][1], t>>}
                   /\ issued' = issued \cup {t}
    <3> PICK t \in Tokens \ issued :
          /\ sessions' = sessions \cup {<<credential[c][1], t>>}
          /\ issued' = issued \cup {t}
      BY <2>2
    <3>1. \A s \in sessions : s[2] \in issued
      BY DEF Logins
    <3>2. OneSession'
      BY <3>1 DEF Logins, OneSession
    <3>3. ASSUME NEW d \in CallIds, service[d] = "invalidate", done'[d] = 1
          PROVE  /\ credential[d][2] \in issued'
                 /\ \A s \in sessions' : s[2] # credential[d][2]
      <4>1. d # c /\ done[d] = 1
        BY <2>1, <2>2, <3>3
      <4>2. /\ credential[d][2] \in issued
            /\ \A s \in sessions : s[2] # credential[d][2]
        BY <3>3, <4>1 DEF Logins, Revoked
      <4>3. <<credential[c][1], t>>[2] # credential[d][2]
        BY <4>2
      <4> QED BY <4>2, <4>3
    <3>4. \A s \in sessions' : s[2] \in issued'
      BY <3>1
    <3> QED BY <2>1, <3>2, <3>3, <3>4 DEF Logins, Revoked
  <2>3. CASE service[c] = "invalidate" /\ sessions' = sessions \ {credential[c]}
             /\ issued' = issued
    <3>1. credential[c] \in sessions
      BY <1>5, <2>3 DEF CarryOut, Authorised
    <3>2. credential[c][2] \in issued
      BY <3>1 DEF Logins
    <3>3. \A s \in sessions' : s[2] # credential[c][2]
      BY <2>3, <3>1 DEF Logins, OneSession
    <3>4. \A d \in CallIds : Revoked(d)'
      BY <2>1, <2>3, <3>2, <3>3 DEF Logins, Revoked
    <3> QED BY <2>1, <2>3, <3>4 DEF Logins, OneSession
  <2>4. CASE service[c] \notin {"session", "invalidate"}
             /\ UNCHANGED <<sessions, issued>>
    BY <2>1, <2>4 DEF Logins, OneSession, Revoked
  <2> QED BY <1>5, <2>2, <2>3, <2>4 DEF CarryOut
<1>6. CASE UNCHANGED vars
  BY <1>6, SessionsEnd DEF vars, server
<1> QED BY <1>1, <1>2, <1>3, <1>4, <1>5, <1>6 DEF Next, Outside

\* When invalidateSession has answered true the token is dead for good, for any
\* number of keys, tokens and calls: an invalidation that is reported has been
\* carried out (OutcomeTells), it ended the one session of its token, and the
\* server gives no token out twice.
THEOREM LogoutIsFinal == Spec => []LoggedOut
<1>1. Init => Logins
  BY DEF Init, Logins, OneSession, Revoked, Credentials
<1>2. Accounts /\ Logins /\ [Next]_vars => Logins'
  BY LoginsStep
<1>3. Accounts /\ Logins => LoggedOut
  BY DEF Accounts, Told, Logins, Revoked, LoggedOut
<1> QED BY <1>1, <1>2, <1>3, AccountsHold, PTL DEF Spec

-----------------------------------------------------------------------------
(* The promise of a call.                                                  *)

\* What a program learns is nothing only until the call has ended.
LEMMA ResultsAreLearnt ==
  ASSUME NEW s \in Services, NEW a
  PROVE  Learnt(Result(s, a)) \in {"value", "refused", "unknown"}
<1>1. Thrown(a.errorType) # "none"
  BY DEF Thrown, KnownTypes
<1>2. Result(s, a) # "none"
  <2>1. CASE s = "instruments"
    BY <2>1 DEF Result
  <2>2. CASE s # "instruments" /\ ~a.json
    BY <2>2 DEF Result
  <2>3. CASE s = "invalidate" /\ a.json
    BY <2>3 DEF Result
  <2>4. CASE s \in {"order", "session"} /\ a.json
    BY <1>1, <2>4 DEF Result
  <2> QED BY <2>1, <2>2, <2>3, <2>4 DEF Services
<1> QED BY <1>2 DEF Learnt

\* Every step of the client, the network and the server is one of the promise.
LEMMA CallStep ==
  ASSUME Accounts, Accounts', [Next]_vars
  PROVE  [Promise!Next]_(Promise!vars)
<1> USE CallsAreNumbers, ConstantsAssumption
<1> USE DEF Promise!vars, Promise!CallIds
<1>1. ASSUME UNCHANGED <<call, last, requests, done, outcome>>
      PROVE  UNCHANGED <<call, fateBar, toldBar>>
  BY <1>1 DEF fateBar, toldBar, Fate
<1>2. ASSUME NEW c \in CallIds, NEW f, Fate(c)' = f,
             \A e \in CallIds : e # c => Fate(e)' = Fate(e)
      PROVE  fateBar' = [fateBar EXCEPT ![c] = f]
  <2> DEFINE fates(e) == Fate(e)'
  <2>1. fateBar' = [e \in CallIds |-> fates(e)]
    BY DEF fateBar
  <2>2. fates(c) = f /\ \A e \in CallIds : e # c => fates(e) = fateBar[e]
    BY <1>2 DEF fateBar
  <2>3. fateBar = [e \in CallIds |-> fateBar[e]]
    BY DEF fateBar
  <2> HIDE DEF fates
  <2> QED BY <2>1, <2>2, <2>3
<1>3. ASSUME NEW s \in Services, Start(s)
      PROVE  Promise!Next
  <2> PICK c \in CallIds : c = last'
    BY <1>3 DEF Start, Accounts, Numbered, CallIds
  <2>1. /\ c = last + 1 /\ call' = c /\ call = 0
        /\ requests' = requests \cup {c} /\ last' = c
        /\ done' = done /\ outcome' = outcome
    BY <1>3 DEF Start, Idle, server
  <2>2. /\ requests \subseteq Nat /\ last \in Nat
    BY DEF Accounts, Numbered
  <2>3. Fate(c) = "unmade" /\ Fate(c)' = "open"
    BY <2>1, <2>2 DEF Fate
  <2>4. ASSUME NEW e \in CallIds, e # c PROVE Fate(e)' = Fate(e)
    <3>1. e \in Nat /\ (e > last <=> e > c) /\ (e <= last <=> e <= c)
      BY <2>1, <2>2, <2>4 DEF CallIds
    <3>2. e \in requests' <=> e \in requests
      BY <2>1, <2>4
    <3> QED BY <2>1, <3>1, <3>2 DEF Fate
  <2>5. fateBar' = [fateBar EXCEPT ![c] = "open"] /\ fateBar[c] = "unmade"
    BY <1>2, <2>3, <2>4 DEF fateBar
  <2>6. toldBar' = toldBar
    BY <2>1 DEF toldBar
  <2>7. Promise!Make(c)
    BY <2>1, <2>5, <2>6 DEF Promise!Make
  <2> QED BY <2>7 DEF Promise!Next, CallIds
<1>4. ASSUME NEW o, Return(o), ~Idle,
             Learnt(o) \in {"value", "refused", "unknown"}
      PROVE  Promise!Next
  <2> PICK c \in CallIds : c = call
    BY <1>4 DEF Idle, Accounts, Numbered, CallIds
  <2>1. /\ call' = 0 /\ last' = last /\ requests' = requests /\ done' = done
        /\ outcome' = [outcome EXCEPT ![c] = o]
    BY <1>4 DEF Return, server
  <2>2. c <= last /\ ~(c > last) /\ DOMAIN outcome = CallIds
    BY <1>4 DEF Idle, Accounts, Numbered, CallIds
  <2>3. /\ o = "value" => done[c] = 1
        /\ o \in RejectionTypes => done[c] = 0 /\ c \notin requests
    <3>1. Told(c)'
      BY DEF Accounts
    <3> QED BY <2>1, <2>2, <3>1 DEF Told
  <2>4. Learnt(o) = "value" => Fate(c) = "done"
    <3> SUFFICES ASSUME Learnt(o) = "value" PROVE Fate(c) = "done"
      OBVIOUS
    <3>1. done[c] = 1
      BY <2>3 DEF Learnt
    <3>2. c \notin requests
      BY <3>1 DEF Accounts
    <3> QED BY <2>2, <3>1, <3>2 DEF Fate
  <2>5. Learnt(o) = "refused" => Fate(c) = "never"
    <3> SUFFICES ASSUME Learnt(o) = "refused" PROVE Fate(c) = "never"
      OBVIOUS
    <3>1. done[c] = 0 /\ c \notin requests
      BY <2>3 DEF Learnt
    <3> QED BY <2>2, <3>1 DEF Fate
  <2>6. toldBar' = [toldBar EXCEPT ![c] = Learnt(o)]
    <3>1. /\ outcome'[c] = o
          /\ \A e \in CallIds : e # c => outcome'[e] = outcome[e]
      BY <2>1, <2>2
    <3>2. toldBar' = [e \in CallIds |-> Learnt(outcome'[e])]
      BY DEF toldBar, Learnt
    <3> QED BY <3>1, <3>2 DEF toldBar
  <2>7. fateBar' = fateBar /\ fateBar[c] = Fate(c)
    <3>1. \A e \in CallIds : Fate(e)' = Fate(e)
      BY <2>1 DEF Fate
    <3> QED BY <3>1 DEF fateBar
  <2>8. Promise!Tell(c, Learnt(o))
    BY <2>1, <2>4, <2>5, <2>6, <2>7 DEF Promise!Tell
  <2> QED BY <1>4, <2>8 DEF Promise!Next, Promise!Ends, CallIds
<1>5. ASSUME NEW c \in CallIds, c \in requests, requests' = requests \ {c},
             UNCHANGED <<call, last, outcome>>,
             \A e \in CallIds : e # c => done'[e] = done[e]
      PROVE  Promise!Next
  <2>1. c <= last /\ ~(c > last)
    BY <1>5 DEF Accounts, Numbered
  <2>2. Fate(c) = "open" /\ Fate(c)' \in {"done", "never"}
    BY <1>5, <2>1 DEF Fate
  <2>3. \A e \in CallIds : e # c => Fate(e)' = Fate(e)
    BY <1>5 DEF Fate
  <2>4. PICK f \in {"done", "never"} : fateBar' = [fateBar EXCEPT ![c] = f]
    BY <1>2, <2>2, <2>3
  <2>5. toldBar' = toldBar /\ fateBar[c] = "open"
    BY <1>5, <2>2 DEF toldBar, fateBar
  <2>6. Promise!Decide(c)
    BY <1>5, <2>4, <2>5 DEF Promise!Decide
  <2> QED BY <2>6 DEF Promise!Next, CallIds
<1>6. CASE UNCHANGED vars
  BY <1>1, <1>6 DEF vars, server
<1>7. CASE Client
  <2>1. CASE \E k \in Keys : setApiKey(k)
    BY <1>1, <2>1 DEF setApiKey, server
  <2>2. CASE \E t \in Tokens : setAccessToken(t)
    BY <1>1, <2>2 DEF setAccessToken, server
  <2>3. CASE \E s \in Services : Start(s)
    BY <1>3, <2>3
  <2>4. CASE Receive
    <3>1. service[call] \in Services
      BY <2>4 DEF Receive, Idle, Accounts, Numbered, CallIds
    <3> QED BY <1>4, <2>4, <3>1, ResultsAreLearnt DEF Receive
  <2>5. CASE Lost
    <3>1. Learnt("libException") = "unknown"
      BY RejectionAssumption DEF Learnt, KnownTypes
    <3> QED BY <1>4, <2>5, <3>1 DEF Lost
  <2> QED BY <1>7, <2>1, <2>2, <2>3, <2>4, <2>5 DEF Client
<1>8. CASE Outside
  <2>1. ASSUME NEW c \in CallIds, Drop(c) \/ CarryOut(c) \/ Refuse(c)
        PROVE  Promise!Next
    <3>1. /\ c \in requests /\ requests' = requests \ {c}
          /\ UNCHANGED <<call, last, outcome>>
      BY <2>1 DEF Drop, CarryOut, Refuse
    <3>2. done' = done \/ done' = [done EXCEPT ![c] = done[c] + 1]
      BY <2>1 DEF Drop, CarryOut, Refuse, server
    <3> QED BY <1>5, <3>1, <3>2 DEF Accounts, Numbered
  <2>2. ASSUME NEW s \in sessions, Expire(s)
        PROVE  UNCHANGED <<call, fateBar, toldBar>>
    BY <1>1, <2>2 DEF Expire
  <2> QED BY <1>8, <2>1, <2>2 DEF Outside
<1> QED BY <1>6, <1>7, <1>8 DEF Next

\* The library and the network implement the promise of a call: what becomes of
\* it is decided once, perhaps only after it has returned, and the program is
\* told the truth or that it does not know.  (That every call ends is left to
\* TLC.)
THEOREM CallsAreTold == Spec => Promise!Safety
<1>1. Init => Promise!Init
  <2> SUFFICES ASSUME Init PROVE Promise!Init
    OBVIOUS
  <2>1. \A c \in CallIds : Fate(c) = "unmade" /\ Learnt(outcome[c]) = "nothing"
    <3> SUFFICES ASSUME NEW c \in CallIds
                 PROVE  Fate(c) = "unmade" /\ Learnt(outcome[c]) = "nothing"
      OBVIOUS
    <3>1. c > last /\ ~(c <= last) /\ outcome[c] = "none"
      BY ConstantsAssumption DEF Init, CallIds
    <3>2. Fate(c) = "unmade"
      BY <3>1 DEF Fate
    <3>3. Learnt(outcome[c]) = "nothing"
      BY <3>1, RejectionAssumption DEF Learnt, KnownTypes
    <3> QED BY <3>2, <3>3
  <2> QED BY <2>1 DEF Init, Promise!Init, Promise!CallIds, CallIds, fateBar, toldBar
<1>2. Accounts /\ Accounts' /\ [Next]_vars => [Promise!Next]_(Promise!vars)
  BY CallStep
<1> QED BY <1>1, <1>2, AccountsHold, PTL DEF Spec, Promise!Safety

=============================================================================
