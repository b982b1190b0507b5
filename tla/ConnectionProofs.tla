-------------------------- MODULE ConnectionProofs --------------------------
(***************************************************************************)
(* Theorems about Connection for every value of its constants: the backoff *)
(* parameters, the set of sockets and the places where the program calls   *)
(* connect().                                                              *)
(***************************************************************************)
EXTENDS Connection, SequenceTheorems, TLAPS

\* The parts reconnect() and the connection handler are made of are visible
\* in every proof below.
USE DEF BudgetLeft, NextDelay, Attempt, ResetBackoff

-----------------------------------------------------------------------------
(* Where points occur on the stack.                                        *)

Absent(seq, P) == \A i \in 1..Len(seq) : seq[i] \notin P

AtMostOnce(seq, P) ==
  \A i, j \in 1..Len(seq) : seq[i] \in P /\ seq[j] \in P => i = j

\* Behind a point of P there is none of Q.
NoneBehind(seq, P, Q) ==
  \A i, j \in 1..Len(seq) : i < j /\ seq[i] \in P => seq[j] \notin Q

\* Replacing the head of the stack by seq: what occurred behind the head
\* still does, and nothing else but what seq brings.
LEMMA ReplaceHead ==
  ASSUME NEW S, NEW st \in Seq(S), st # <<>>, NEW seq \in Seq(S), NEW P
  PROVE  /\ seq \o Tail(st) \in Seq(S)
         /\ Absent(st, P) /\ Absent(seq, P) => Absent(seq \o Tail(st), P)
         /\ AtMostOnce(st, P) /\ Head(st) \in P /\ Absent(seq, P)
              => Absent(seq \o Tail(st), P)
         /\ AtMostOnce(st, P) /\ Absent(seq, P)
              => AtMostOnce(seq \o Tail(st), P)
         /\ AtMostOnce(st, P) /\ Head(st) \in P /\ AtMostOnce(seq, P)
              => AtMostOnce(seq \o Tail(st), P)
<1> DEFINE new == seq \o Tail(st)
<1>1. /\ Tail(st) \in Seq(S)
      /\ Len(Tail(st)) = Len(st) - 1
      /\ \A i \in 1..Len(Tail(st)) : Tail(st)[i] = st[i + 1]
  BY HeadTailProperties
<1>2. /\ Len(st) \in Nat \ {0} /\ Len(seq) \in Nat
      /\ Head(st) = st[1]
  BY EmptySeq, LenProperties
<1>3. /\ new \in Seq(S)
      /\ Len(new) = Len(seq) + Len(st) - 1
      /\ \A i \in 1..Len(new) : new[i] = IF i <= Len(seq) THEN seq[i]
                                         ELSE st[i - Len(seq) + 1]
  <2>1. /\ new \in Seq(S)
        /\ Len(new) = Len(seq) + Len(Tail(st))
        /\ \A i \in 1..Len(seq) + Len(Tail(st)) :
              new[i] = IF i <= Len(seq) THEN seq[i] ELSE Tail(st)[i - Len(seq)]
    BY <1>1, ConcatProperties
  <2>2. ASSUME NEW i \in 1..Len(new), ~(i <= Len(seq))
        PROVE  new[i] = st[i - Len(seq) + 1]
    <3>1. i - Len(seq) \in 1..Len(Tail(st))
      BY <2>1, <2>2, <1>1, <1>2
    <3> QED BY <3>1, <2>1, <2>2, <1>1
  <2> QED BY <2>1, <2>2, <1>1, <1>2
<1> HIDE DEF new
<1> DEFINE back(i) == i - Len(seq) + 1
<1>4. ASSUME NEW i \in 1..Len(new)
      PROVE  \/ /\ i \in 1..Len(seq)
                /\ new[i] = seq[i]
             \/ /\ i > Len(seq)
                /\ back(i) \in 2..Len(st)
                /\ new[i] = st[back(i)]
  <2>1. CASE i <= Len(seq)
    BY <2>1, <1>2, <1>3
  <2>2. CASE i > Len(seq)
    BY <2>2, <1>2, <1>3
  <2> QED BY <2>1, <2>2, <1>2
<1>a. 1 \in 1..Len(st) /\ \A k \in 2..Len(st) : k \in 1..Len(st) /\ k # 1
  BY <1>2
<1>b. \A i, j \in 1..Len(new) : back(i) = back(j) => i = j
  BY <1>2, <1>3
<1> HIDE DEF back
<1>5. ASSUME Absent(st, P), Absent(seq, P) PROVE Absent(new, P)
  BY <1>4, <1>5, <1>a DEF Absent
<1>6. ASSUME AtMostOnce(st, P), Head(st) \in P, Absent(seq, P)
      PROVE  Absent(new, P)
  <2> SUFFICES ASSUME NEW i \in 1..Len(new), new[i] \in P PROVE FALSE
    BY DEF Absent
  <2>1. back(i) \in 2..Len(st) /\ st[back(i)] \in P
    BY <1>4, <1>6 DEF Absent
  <2> QED BY <2>1, <1>2, <1>6, <1>a DEF AtMostOnce
<1>7. ASSUME AtMostOnce(st, P), Absent(seq, P) PROVE AtMostOnce(new, P)
  <2> SUFFICES ASSUME NEW i \in 1..Len(new), NEW j \in 1..Len(new),
                      new[i] \in P, new[j] \in P
               PROVE  i = j
    BY DEF AtMostOnce
  <2>1. /\ back(i) \in 2..Len(st) /\ st[back(i)] \in P
        /\ back(j) \in 2..Len(st) /\ st[back(j)] \in P
    BY <1>4, <1>7 DEF Absent
  <2> QED BY <2>1, <1>7, <1>a, <1>b DEF AtMostOnce
<1>8. ASSUME AtMostOnce(st, P), Head(st) \in P, AtMostOnce(seq, P)
      PROVE  AtMostOnce(new, P)
  <2> SUFFICES ASSUME NEW i \in 1..Len(new), NEW j \in 1..Len(new),
                      new[i] \in P, new[j] \in P
               PROVE  i = j
    BY DEF AtMostOnce
  <2>1. ASSUME NEW k \in 1..Len(new), new[k] \in P
        PROVE  k \in 1..Len(seq) /\ seq[k] \in P
    <3>1. ~(back(k) \in 2..Len(st) /\ st[back(k)] \in P)
      BY <1>2, <1>8, <1>a DEF AtMostOnce
    <3> QED BY <3>1, <2>1, <1>4
  <2> QED BY <2>1, <1>8 DEF AtMostOnce
<1> QED BY <1>3, <1>5, <1>6, <1>7, <1>8 DEF new

\* The same for NoneBehind.
LEMMA ReplaceHeadOrdered ==
  ASSUME NEW S, NEW st \in Seq(S), st # <<>>, NEW seq \in Seq(S), NEW P, NEW Q,
         NoneBehind(st, P, Q)
  PROVE  /\ NoneBehind(seq, P, Q) /\ (Absent(seq, P) \/ Head(st) \in P)
              => NoneBehind(seq \o Tail(st), P, Q)
         /\ Head(st) \in P /\ Absent(seq, Q) => Absent(seq \o Tail(st), Q)
<1> DEFINE new == seq \o Tail(st)
<1>1. /\ Tail(st) \in Seq(S) /\ Len(Tail(st)) = Len(st) - 1
      /\ \A i \in 1..Len(Tail(st)) : Tail(st)[i] = st[i + 1]
      /\ Len(st) \in Nat \ {0} /\ Len(seq) \in Nat /\ Head(st) = st[1]
  BY HeadTailProperties, EmptySeq, LenProperties
<1>2. /\ Len(new) = Len(seq) + Len(st) - 1
      /\ \A i \in 1..Len(new) :
            new[i] = IF i <= Len(seq) THEN seq[i] ELSE Tail(st)[i - Len(seq)]
  BY <1>1, ConcatProperties
<1> HIDE DEF new
<1>3. ASSUME NEW i \in 1..Len(new), i <= Len(seq)
      PROVE  i \in 1..Len(seq) /\ new[i] = seq[i]
  BY <1>1, <1>2, <1>3
<1>4. ASSUME NEW i \in 1..Len(new), ~(i <= Len(seq))
      PROVE  i - Len(seq) + 1 \in 2..Len(st) /\ new[i] = st[i - Len(seq) + 1]
  <2>1. i - Len(seq) \in 1..Len(Tail(st))
    BY <1>1, <1>2, <1>4
  <2> QED BY <2>1, <1>1, <1>2, <1>4
<1>5. ASSUME NoneBehind(seq, P, Q), Absent(seq, P) \/ Head(st) \in P,
             NEW i \in 1..Len(new), NEW j \in 1..Len(new), i < j, new[i] \in P
      PROVE  new[j] \notin Q
  <2>1. CASE j <= Len(seq)
    <3>1. /\ i \in 1..Len(seq) /\ new[i] = seq[i]
          /\ j \in 1..Len(seq) /\ new[j] = seq[j]
      BY <1>1, <1>2, <1>3, <1>5, <2>1
    <3> QED BY <3>1, <1>5 DEF NoneBehind
  <2>2. CASE ~(j <= Len(seq)) /\ i <= Len(seq)
    <3>1. Head(st) \in P
      BY <1>3, <1>5, <2>2 DEF Absent
    <3>2. j - Len(seq) + 1 \in 2..Len(st) /\ new[j] = st[j - Len(seq) + 1]
      BY <1>4, <2>2
    <3> QED BY <1>1, <3>1, <3>2 DEF NoneBehind
  <2>3. CASE ~(j <= Len(seq)) /\ ~(i <= Len(seq))
    <3>1. /\ i - Len(seq) + 1 \in 2..Len(st) /\ new[i] = st[i - Len(seq) + 1]
          /\ j - Len(seq) + 1 \in 2..Len(st) /\ new[j] = st[j - Len(seq) + 1]
      BY <1>4, <2>3
    <3>2. /\ i - Len(seq) + 1 \in 1..Len(st) /\ j - Len(seq) + 1 \in 1..Len(st)
          /\ i - Len(seq) + 1 < j - Len(seq) + 1
      BY <1>1, <1>5, <3>1
    <3> QED BY <1>5, <3>1, <3>2, Zenon DEF NoneBehind
  <2> QED BY <2>1, <2>2, <2>3
<1>6. ASSUME Head(st) \in P, Absent(seq, Q), NEW j \in 1..Len(new)
      PROVE  new[j] \notin Q
  <2>1. CASE j <= Len(seq)
    BY <1>3, <1>6, <2>1 DEF Absent
  <2>2. CASE ~(j <= Len(seq))
    BY <1>1, <1>4, <1>6, <2>2 DEF NoneBehind
  <2> QED BY <2>1, <2>2
<1> QED BY <1>5, <1>6 DEF NoneBehind, Absent, new

-----------------------------------------------------------------------------
(* Types.                                                                  *)

\* Short sequences.
LEMMA Tuples ==
  ASSUME NEW S, NEW a \in S, NEW b \in S, NEW c \in S
  PROVE  <<a>> \in Seq(S) /\ <<a, b>> \in Seq(S) /\ <<a, b, c>> \in Seq(S)
OBVIOUS

LEMMA PointsAreNamed ==
  /\ Callbacks \subseteq Points /\ Resumptions \subseteq Points
  /\ \A p \in {"main", "onConnect", "onTicks", "onError", "onClose",
               "onConnectError", "onTryReconnect", "onReconnectFail",
               "connectInternal", "closeIfConnected", "reconnectIfEnabled",
               "reconnectIfIdle", "reconnectingDone", "escaped"} : p \in Points
BY DEF Points, Callbacks, Resumptions

\* What the handlers push on the stack are points.
LEMMA HandlersAreSequences ==
  /\ ErrorHandler \in Seq(Points)
  /\ \A code : DisconnectionHandler(code) \in Seq(Points)
<1>1. ErrorHandler \in Seq(Points)
  BY PointsAreNamed, Tuples DEF ErrorHandler
<1>2. ASSUME NEW code PROVE DisconnectionHandler(code) \in Seq(Points)
  <2>1. /\ <<"onClose">> \in Seq(Points)
        /\ <<"onError", "onClose", "reconnectIfIdle">> \in Seq(Points)
    BY PointsAreNamed, Tuples
  <2> QED BY <2>1 DEF DisconnectionHandler
<1> QED BY <1>1, <1>2

\* TypeCorrect without fairness, for the modules Connection is part of.
LEMMA SafeTypes == Safety => []TypeOK
<1> USE ConstantsAssumption
<1>1. Init => TypeOK
  <2>1. <<"main">> \in Seq(Points)
    BY PointsAreNamed, Tuples
  <2>2. Init => /\ ws \in Sockets \cup {None}
                /\ reconnectTries \in Nat /\ reconnectDelay \in Nat
                /\ pending \in Nat /\ open \subseteq Sockets
                /\ connects \in 0..MaxConnects /\ retried \in Nat
                /\ slept \in Nat
    BY DEF Init, initReconnectDelay
  <2>3. Init => /\ isReconnecting \in BOOLEAN
                /\ stopped \in {"no", "connected", "unconnected"}
                /\ outcome \in {"none", "closed", "failed", "thrown"}
    BY DEF Init
  <2> QED BY <2>1, <2>2, <2>3 DEF Init, TypeOK
<1>2. TypeOK /\ [Next]_vars => TypeOK'
  <2> SUFFICES ASSUME TypeOK, [Next]_vars PROVE TypeOK'
    OBVIOUS
  <2> DEFINE Pushed(seq) == stack # <<>> /\ Continue(seq)
  <2>0. ASSUME NEW seq \in Seq(Points), Pushed(seq)
        PROVE  stack' \in Seq(Points)
    BY <2>0, ReplaceHead DEF TypeOK, Continue
  <2>a. <<>> \in Seq(Points)
    OBVIOUS
  <2>1. CASE Connect
    <3>1. <<"connectInternal">> \in Seq(Points)
      BY PointsAreNamed, Tuples
    <3>2. stack' \in Seq(Points)
      BY <2>1, <2>0, <3>1 DEF Connect
    <3> QED BY <2>1, <3>2 DEF Connect, TypeOK, state
  <2>2. CASE Stop
    <3>1. DisconnectionHandler("NORMAL_CLOSURE") \o stack \in Seq(Points)
      BY HandlersAreSequences, ConcatProperties DEF TypeOK
    <3>2. stack' \in Seq(Points)
      BY <2>2, <3>1 DEF Stop, TypeOK
    <3> QED BY <2>2, <3>2 DEF Stop, Disconnect, TypeOK, state
  <2>3. CASE Rerun
    <3>1. stack' \in Seq(Points)
      BY <2>3, <2>0, <2>a DEF Rerun, At
    <3> QED BY <2>3, <3>1 DEF Rerun, TypeOK, state
  <2>4. CASE Return
    <3>1. stack' \in Seq(Points)
      BY <2>4, <2>0, <2>a DEF Return
    <3> QED BY <2>4, <3>1 DEF Return, TypeOK, state
  <2>5. CASE ConnectInternal
    <3>1. stack' \in Seq(Points)
      BY <2>5, <2>0, <2>a, HandlersAreSequences DEF ConnectInternal, At
    <3> QED BY <2>5, <3>1 DEF ConnectInternal, TypeOK, state
  <2>6. ASSUME stack # <<>>, reconnect
        PROVE  /\ isReconnecting' \in BOOLEAN /\ reconnectTries' \in Nat
               /\ reconnectDelay' \in Nat /\ retried' \in Nat
               /\ slept' \in Nat /\ outcome' \in {"none", "closed", "failed", "thrown"}
               /\ stack' \in Seq(Points)
    <3>1. /\ <<"onTryReconnect", "connectInternal">> \in Seq(Points)
          /\ <<"onReconnectFail", "reconnectingDone">> \in Seq(Points)
      BY PointsAreNamed, Tuples
    <3>2. stack' \in Seq(Points)
      BY <2>6, <2>0, <2>a, <3>1 DEF reconnect
    <3>3. isReconnecting' \in BOOLEAN
      BY <2>6, Zenon DEF reconnect, TypeOK
    <3>4. /\ reconnectTries' \in Nat
          /\ reconnectDelay' \in Nat /\ retried' \in Nat
          /\ slept' \in Nat
      BY <2>6 DEF reconnect, TypeOK
    <3>5. outcome' \in {"none", "closed", "failed", "thrown"}
      BY <2>6 DEF reconnect, TypeOK
    <3> QED BY <3>2, <3>3, <3>4, <3>5
  <2>7. CASE ReconnectIfEnabled
    <3>1. CASE EnableReconnect
      BY <2>6, <2>7, <3>1 DEF ReconnectIfEnabled, At, TypeOK
    <3>2. CASE ~EnableReconnect
      <4>1. stack' \in Seq(Points)
        BY <2>7, <3>2, <2>0, <2>a DEF ReconnectIfEnabled, At
      <4> QED BY <2>7, <3>2, <4>1 DEF ReconnectIfEnabled, TypeOK
    <3> QED BY <3>1, <3>2
  <2>8. CASE ReconnectIfIdle
    <3>1. CASE EnableReconnect /\ ~isReconnecting
      BY <2>6, <2>8, <3>1 DEF ReconnectIfIdle, At, TypeOK
    <3>2. CASE ~(EnableReconnect /\ ~isReconnecting)
      <4>1. stack' \in Seq(Points)
        BY <2>8, <3>2, <2>0, <2>a DEF ReconnectIfIdle, At
      <4> QED BY <2>8, <3>2, <4>1 DEF ReconnectIfIdle, TypeOK
    <3> QED BY <3>1, <3>2
  <2>9. CASE ReconnectingDone
    <3>1. stack' \in Seq(Points)
      BY <2>9, <2>0, <2>a DEF ReconnectingDone, At
    <3> QED BY <2>9, <3>1 DEF ReconnectingDone, TypeOK
  <2>10. CASE CloseIfConnected
    <3>1. stack' \in Seq(Points)
      BY <2>10, <2>0, <2>a, HandlersAreSequences
      DEF CloseIfConnected, At, Codes
    <3> QED BY <2>10, <3>1 DEF CloseIfConnected, Disconnect, TypeOK, state
  <2>11. ASSUME NEW s \in Sockets, Established(s) PROVE TypeOK'
    <3>1. stack' \in Seq(Points)
      BY <2>11, PointsAreNamed, Tuples DEF Established
    <3>2. isReconnecting' \in BOOLEAN
      BY <2>11 DEF Established
    <3>3. /\ ws' \in Sockets \cup {None} /\ open' \subseteq Sockets
          /\ pending' \in Nat /\ reconnectTries' \in Nat
          /\ reconnectDelay' \in Nat /\ retried' \in Nat
      BY <2>11 DEF Established, TypeOK, initReconnectDelay
    <3> QED BY <2>11, <3>1, <3>2, <3>3 DEF Established, TypeOK
  <2>12. CASE AttemptFails
    BY <2>12, HandlersAreSequences DEF AttemptFails, TypeOK, state
  <2>13. ASSUME NEW s \in Sockets, NEW code \in Codes, Closed(s, code)
         PROVE  TypeOK'
    BY <2>13, HandlersAreSequences DEF Closed, Disconnect, TypeOK
  <2>14. ASSUME NEW point \in {"onTicks", "onError", "escaped"}, Message(point)
         PROVE  TypeOK'
    <3>1. stack' \in Seq(Points)
      BY <2>14, PointsAreNamed, Tuples DEF Message
    <3> QED BY <2>14, <3>1 DEF Message, TypeOK, state
  <2>15. CASE Throw
    <3>1. stack' \in Seq(Points)
      BY <2>15, PointsAreNamed, Tuples DEF Throw
    <3> QED BY <2>15, <3>1 DEF Throw, TypeOK, state
  <2>16. CASE UNCHANGED vars
    BY <2>16 DEF vars, TypeOK
  <2> QED BY <2>1, <2>2, <2>3, <2>4, <2>5, <2>7, <2>8, <2>9, <2>10, <2>11,
             <2>12, <2>13, <2>14, <2>15, <2>16
          DEF Next, Program, Library, Resolve, Peer
<1> QED BY <1>1, <1>2, PTL DEF Safety

\* Every variable stays in its set, whatever the program does: in particular
\* the stack holds control points of the handlers only.
THEOREM TypeCorrect == Spec => []TypeOK
BY SafeTypes, PTL DEF Spec

-----------------------------------------------------------------------------
(* At most one connection.                                                 *)

\* Occurrences in the short sequences the handlers are made of.
LEMMA Occurrences ==
  ASSUME NEW P, NEW a, NEW b, NEW c
  PROVE  /\ Absent(<<>>, P) /\ AtMostOnce(<<a>>, P)
         /\ a \notin P => Absent(<<a>>, P)
         /\ a \notin P /\ b \notin P => Absent(<<a, b>>, P)
         /\ a \notin P /\ b \notin P /\ c \notin P => Absent(<<a, b, c>>, P)
         /\ a \notin P \/ b \notin P => AtMostOnce(<<a, b>>, P)
         /\ b \notin P /\ (a \notin P \/ c \notin P) => AtMostOnce(<<a, b, c>>, P)
         /\ a \notin P /\ (b \notin P \/ c \notin P) => AtMostOnce(<<a, b, c>>, P)
<1>1. Absent(<<>>, P)
  BY DEF Absent
<1>2. AtMostOnce(<<a>>, P) /\ (a \notin P => Absent(<<a>>, P))
  BY DEF Absent, AtMostOnce
<1>3. a \notin P /\ b \notin P => Absent(<<a, b>>, P)
  BY DEF Absent
<1>4. a \notin P /\ b \notin P /\ c \notin P => Absent(<<a, b, c>>, P)
  BY DEF Absent
<1>5. a \notin P \/ b \notin P => AtMostOnce(<<a, b>>, P)
  BY DEF AtMostOnce
<1>6. b \notin P /\ (a \notin P \/ c \notin P) => AtMostOnce(<<a, b, c>>, P)
  BY DEF AtMostOnce
<1>7. a \notin P /\ (b \notin P \/ c \notin P) => AtMostOnce(<<a, b, c>>, P)
  BY DEF AtMostOnce
<1> QED BY <1>1, <1>2, <1>3, <1>4, <1>5, <1>6, <1>7

\* The control points that lead to a connection attempt: the call itself, the
\* calls of reconnect() when it is enabled, and the places where the program
\* may call connect().
Retrying == {"connectInternal"} \cup
            IF EnableReconnect THEN {"reconnectIfEnabled", "reconnectIfIdle"}
                               ELSE {}
Live == Retrying \cup ConnectPoints

\* With the place where a program that caught an exception connects again.
\* An open connection does not exclude it, as it does those of Live.
Solo == Live \cup IF "unconnected" \in ConnectPoints THEN {"escaped"} ELSE {}

\* The places where an exception can leave the handlers or has left them.
Own == Callbacks \cup {"escaped"}

\* Each handler holds at most one of them, with none of the program's places
\* behind it.
LEMMA HandlersHoldOne ==
  ASSUME Disciplined
  PROVE  /\ AtMostOnce(ErrorHandler, Solo)
         /\ \A code : AtMostOnce(DisconnectionHandler(code), Solo)
         /\ AtMostOnce(<<"onReconnectFail", "reconnectingDone">>, Solo)
         /\ EnableReconnect =>
              AtMostOnce(<<"onTryReconnect", "connectInternal">>, Solo)
         /\ \A p \in {"onConnect", "onTicks", "onError", "escaped",
                      "closeIfConnected", "reconnectingDone"} : p \notin Live
<1>0. /\ Solo \subseteq Live \cup {"escaped"}
      /\ \A p \in {"onClose", "onConnectError", "onError", "closeIfConnected",
                   "reconnectIfEnabled", "reconnectIfIdle", "onTryReconnect",
                   "connectInternal", "onReconnectFail", "reconnectingDone"} :
            p \in Solo <=> p \in Live
  BY DEF Solo
<1>1. \A p \in {"onConnect", "onTicks", "onError", "escaped",
                "closeIfConnected", "reconnectingDone"} : p \notin Live
  BY DEF Live, Retrying, Disciplined
<1>2. "onConnectError" \notin Live \/ "reconnectIfEnabled" \notin Live
  BY DEF Live, Retrying, Disciplined
<1>3. "onClose" \notin Live \/ "reconnectIfIdle" \notin Live
  BY DEF Live, Retrying, Disciplined
<1>4. EnableReconnect => "onTryReconnect" \notin Live
  BY DEF Live, Retrying, Disciplined
<1>5. AtMostOnce(ErrorHandler, Solo)
  BY <1>0, <1>1, <1>2, Occurrences DEF ErrorHandler
<1>6. ASSUME NEW code PROVE AtMostOnce(DisconnectionHandler(code), Solo)
  <2>1. /\ AtMostOnce(<<"onClose">>, Solo)
        /\ AtMostOnce(<<"onError", "onClose", "reconnectIfIdle">>, Solo)
    BY <1>0, <1>1, <1>3, Occurrences
  <2> QED BY <2>1 DEF DisconnectionHandler
<1>7. AtMostOnce(<<"onReconnectFail", "reconnectingDone">>, Solo)
  BY <1>0, <1>1, Occurrences
<1>8. EnableReconnect => AtMostOnce(<<"onTryReconnect", "connectInternal">>, Solo)
  BY <1>0, <1>4, Occurrences
<1> QED BY <1>1, <1>5, <1>6, <1>7, <1>8

\* Behind a point of Solo a handler leaves none of the program's places.
LEMMA HandlersAreOrdered ==
  ASSUME Disciplined, EnableReconnect
  PROVE  /\ NoneBehind(ErrorHandler, Solo, Own)
         /\ \A code : NoneBehind(DisconnectionHandler(code), Solo, Own)
         /\ NoneBehind(<<"onReconnectFail", "reconnectingDone">>, Solo, Own)
         /\ NoneBehind(<<"onTryReconnect", "connectInternal">>, Solo, Own)
         /\ \A p : NoneBehind(<<p>>, Solo, Own)
         /\ NoneBehind(<<>>, Solo, Own)
<1>1. \A p \in {"onError", "onClose", "onConnectError", "closeIfConnected",
                "onTryReconnect"} : p \notin Solo
  BY DEF Solo, Live, Retrying, Disciplined
<1>2. \A p \in Resumptions : p \notin Own
  BY DEF Own, Callbacks, Resumptions
<1>3. \A p : NoneBehind(<<p>>, Solo, Own) /\ NoneBehind(<<>>, Solo, Own)
  BY DEF NoneBehind
<1>4. /\ NoneBehind(<<"onReconnectFail", "reconnectingDone">>, Solo, Own)
      /\ NoneBehind(<<"onTryReconnect", "connectInternal">>, Solo, Own)
  BY <1>1, <1>2 DEF NoneBehind, Resumptions
<1>5. NoneBehind(ErrorHandler, Solo, Own)
  BY <1>1 DEF NoneBehind, ErrorHandler
<1>6. ASSUME NEW code PROVE NoneBehind(DisconnectionHandler(code), Solo, Own)
  <2>1. NoneBehind(<<"onError", "onClose", "reconnectIfIdle">>, Solo, Own)
    BY <1>1 DEF NoneBehind
  <2> QED BY <2>1, <1>3 DEF DisconnectionHandler
<1> QED BY <1>3, <1>4, <1>5, <1>6

\* While a connection exists or is being made nothing on the stack leads to
\* another attempt, and otherwise at most one point does.  When the ticker
\* reconnects, no callback waits behind that point or runs while an attempt is
\* on its way: an exception never leaves an attempt behind that the program,
\* which isConnected() tells of no connection, would repeat.
Single ==
  /\ ConnectedIffOpen
  /\ OneConnection
  /\ AtMostOnce(stack, Solo)
  /\ (open # {} \/ pending > 0) => Absent(stack, Live)
  /\ open # {} => Absent(stack, {"closeIfConnected"})
  /\ EnableReconnect => /\ NoneBehind(stack, Solo, Own)
                        /\ pending > 0 => Absent(stack, Own)

\* A step of the innermost handler keeps what Single says of the stack.
LEMMA HandlerStep ==
  ASSUME TypeOK, Single, NEW seq \in Seq(Points), stack # <<>>, Continue(seq)
  PROVE  /\ Absent(seq, Solo) \/ (Head(stack) \in Solo /\ AtMostOnce(seq, Solo))
              => AtMostOnce(stack', Solo)
         /\ Head(stack) \in Live
              => open = {} /\ pending = 0 /\ ~isConnected
         /\ Head(stack) \in Live /\ Absent(seq, Live) => Absent(stack', Live)
         /\ Absent(stack, Live) /\ Absent(seq, Live) => Absent(stack', Live)
         /\ Absent(stack, {"closeIfConnected"})
              /\ Absent(seq, {"closeIfConnected"})
              => Absent(stack', {"closeIfConnected"})
         /\ At("closeIfConnected") => open = {} /\ ~isConnected
         /\ EnableReconnect =>
              /\ NoneBehind(seq, Solo, Own)
                   /\ (Absent(seq, Solo) \/ Head(stack) \in Solo)
                   => NoneBehind(stack', Solo, Own)
              /\ Absent(stack, Own) /\ Absent(seq, Own) => Absent(stack', Own)
              /\ Head(stack) \in Solo /\ Absent(seq, Own) => Absent(stack', Own)
              /\ Head(stack) \in Own => pending = 0
<1>1. stack \in Seq(Points)
  BY DEF TypeOK
<1>2. Len(stack) \in Nat \ {0} /\ Head(stack) = stack[1]
  BY <1>1, EmptySeq
<1>3. 1 \in 1..Len(stack)
  BY <1>2
<1>4. Head(stack) \in Live => open = {} /\ pending = 0
  <2> SUFFICES ASSUME Head(stack) \in Live PROVE open = {} /\ pending = 0
    OBVIOUS
  <2>1. ~Absent(stack, Live)
    BY <1>2, <1>3 DEF Absent
  <2> QED BY <2>1 DEF Single, TypeOK
<1>5. At("closeIfConnected") => open = {}
  <2> SUFFICES ASSUME At("closeIfConnected") PROVE open = {}
    OBVIOUS
  <2>1. ~Absent(stack, {"closeIfConnected"})
    BY <1>2, <1>3 DEF Absent, At
  <2> QED BY <2>1 DEF Single
<1>6. open = {} => ~isConnected
  BY DEF Single, ConnectedIffOpen
<1>7. AtMostOnce(stack, Solo) /\ AtMostOnce(stack, Live)
  BY DEF Single, Solo, AtMostOnce
<1>8. stack' = seq \o Tail(stack)
  BY DEF Continue
<1>9. ASSUME EnableReconnect, Head(stack) \in Own PROVE pending = 0
  <2>1. ~Absent(stack, Own)
    BY <1>2, <1>3, <1>9 DEF Absent
  <2> QED BY <1>9, <2>1 DEF Single, TypeOK
<1>10. ASSUME EnableReconnect
       PROVE  /\ NoneBehind(seq, Solo, Own)
                   /\ (Absent(seq, Solo) \/ Head(stack) \in Solo)
                   => NoneBehind(stack', Solo, Own)
              /\ Head(stack) \in Solo /\ Absent(seq, Own) => Absent(stack', Own)
  <2>1. NoneBehind(stack, Solo, Own)
    BY <1>10 DEF Single
  <2> QED BY <1>1, <1>8, <2>1, ReplaceHeadOrdered
<1> QED BY <1>1, <1>4, <1>5, <1>6, <1>7, <1>8, <1>9, <1>10, ReplaceHead

\* The reconnect() that a handler calls when reconnection is enabled.
LEMMA ReconnectStep ==
  ASSUME Disciplined, EnableReconnect, TypeOK, Single, stack # <<>>,
         Head(stack) \in Live, reconnect, UNCHANGED <<ws, pending, open>>
  PROVE  Single'
<1>1. open = {} /\ pending = 0 /\ ~isConnected
  <2>1. <<>> \in Seq(Points)
    OBVIOUS
  <2>2. ~Absent(stack, Live)
    BY EmptySeq, LenProperties DEF Absent, TypeOK
  <2> QED BY <2>2 DEF Single, TypeOK, ConnectedIffOpen
<1>2. \/ Continue(<<"onTryReconnect", "connectInternal">>)
      \/ Continue(<<"onReconnectFail", "reconnectingDone">>)
  BY <1>1 DEF reconnect
<1>3. /\ <<"onTryReconnect", "connectInternal">> \in Seq(Points)
      /\ <<"onReconnectFail", "reconnectingDone">> \in Seq(Points)
  BY PointsAreNamed, Tuples
<1>4. Head(stack) \in Solo
  BY DEF Solo
<1>5. AtMostOnce(stack', Solo)
  BY <1>2, <1>3, <1>4, HandlerStep, HandlersHoldOne
<1>6. NoneBehind(stack', Solo, Own)
  BY <1>2, <1>3, <1>4, HandlerStep, HandlersAreOrdered
<1> QED BY <1>1, <1>5, <1>6
        DEF Single, ConnectedIffOpen, OneConnection, isConnected

LEMMA SingleStep ==
  ASSUME Disciplined, TypeOK, Single, [Next]_vars
  PROVE  Single'
<1>0. /\ <<>> \in Seq(Points) /\ \A P : Absent(<<>>, P)
      /\ NoneBehind(<<>>, Solo, Own)
      /\ Live \subseteq Solo /\ Solo \subseteq Live \cup {"escaped"}
  BY DEF Absent, NoneBehind, Solo
<1>1. CASE Connect
  <2>1. stack # <<>> /\ Continue(<<"connectInternal">>)
    BY <1>1 DEF Connect
  <2>2. /\ <<"connectInternal">> \in Seq(Points)
        /\ AtMostOnce(<<"connectInternal">>, Solo)
    BY PointsAreNamed, Tuples, Occurrences
  <2>3. Head(stack) \in Solo /\ open = {} /\ pending = 0 /\ ~isConnected
    <3>1. CASE Head(stack) \in ConnectPoints
      BY <1>0, <2>1, <2>2, <3>1, HandlerStep DEF Live
    <3>2. CASE /\ "unconnected" \in ConnectPoints
               /\ Head(stack) = "escaped" /\ ~isConnected
      <4>1. EnableReconnect
        BY <3>2 DEF Disciplined
      <4>2. Head(stack) \in Solo /\ Head(stack) \in Own
        BY <3>2 DEF Solo, Own
      <4>3. open = {}
        BY <3>2 DEF Single, ConnectedIffOpen
      <4> QED BY <2>1, <2>2, <3>2, <4>1, <4>2, <4>3, HandlerStep
    <3> QED BY <1>1, <3>1, <3>2 DEF Connect
  <2>4. /\ AtMostOnce(stack', Solo)
        /\ EnableReconnect => NoneBehind(stack', Solo, Own)
    BY <2>1, <2>2, <2>3, HandlerStep, HandlersAreOrdered
  <2> QED BY <1>1, <2>3, <2>4
          DEF Connect, state, Single, ConnectedIffOpen, OneConnection, isConnected
<1>2. CASE Stop
  <2>1. CASE isConnected
    <3>1. open = {ws} /\ pending = 0 /\ Absent(stack, Live)
      BY <2>1 DEF Single, ConnectedIffOpen, OneConnection, TypeOK
    <3>2. open' = {} /\ pending' = 0 /\ ~isConnected'
      BY <1>2, <2>1, <3>1 DEF Stop, Disconnect, isConnected
    <3>3. stack' = <<"onClose">> \o stack
      BY <1>2, <2>1 DEF Stop, DisconnectionHandler
    <3>4. <<"onClose">> \in Seq(Points) /\ stack \in Seq(Points)
      BY PointsAreNamed, Tuples DEF TypeOK
    <3>5. /\ Len(stack') = 1 + Len(stack) /\ Len(stack) \in Nat
          /\ Len(stack') \in Nat
          /\ \A i \in 1..Len(stack') :
                /\ i = 1 => stack'[i] = "onClose"
                /\ i # 1 => i - 1 \in 1..Len(stack) /\ stack'[i] = stack[i - 1]
      BY <3>3, <3>4, ConcatProperties, LenProperties
    <3>6. CASE EnableReconnect
      <4>1. "onClose" \notin Solo
        BY <3>6 DEF Solo, Live, Retrying, Disciplined
      <4>2. AtMostOnce(stack, Solo) /\ NoneBehind(stack, Solo, Own)
        BY <3>6 DEF Single
      <4>3. AtMostOnce(stack', Solo)
        BY <3>5, <4>1, <4>2 DEF AtMostOnce
      <4>4. NoneBehind(stack', Solo, Own)
        <5> SUFFICES ASSUME NEW i \in 1..Len(stack'), NEW j \in 1..Len(stack'),
                            i < j, stack'[i] \in Solo
                     PROVE  stack'[j] \notin Own
          BY DEF NoneBehind
        <5>1. i # 1 /\ j # 1
          BY <3>5, <4>1
        <5>2. /\ i - 1 \in 1..Len(stack) /\ stack'[i] = stack[i - 1]
              /\ j - 1 \in 1..Len(stack) /\ stack'[j] = stack[j - 1]
              /\ i - 1 < j - 1
          BY <3>5, <5>1
        <5> QED BY <4>2, <5>2, Zenon DEF NoneBehind
      <4> QED BY <3>2, <4>3, <4>4
              DEF Single, ConnectedIffOpen, OneConnection
    <3>7. CASE ~EnableReconnect
      <4>1. Solo = Live
        BY <3>7 DEF Solo, Disciplined
      <4>2. \A i \in 1..Len(stack') : stack'[i] \in Solo => i = 1
        BY <3>1, <3>5, <4>1 DEF Absent
      <4>3. AtMostOnce(stack', Solo)
        BY <4>2 DEF AtMostOnce
      <4> QED BY <3>2, <3>7, <4>3 DEF Single, ConnectedIffOpen, OneConnection
    <3> QED BY <3>6, <3>7
  <2>2. CASE ~isConnected
    BY <1>2, <2>2 DEF Stop, state, Single, ConnectedIffOpen, OneConnection,
                      isConnected
  <2> QED BY <2>1, <2>2
<1>3. ASSUME stack # <<>>, Continue(<<>>), UNCHANGED <<ws, pending, open>>
      PROVE  Single'
  <2>1. AtMostOnce(stack', Solo)
    BY <1>0, <1>3, HandlerStep
  <2>2. (open # {} \/ pending > 0) => Absent(stack', Live)
    BY <1>0, <1>3, HandlerStep DEF Single
  <2>3. open # {} => Absent(stack', {"closeIfConnected"})
    BY <1>0, <1>3, HandlerStep DEF Single
  <2>4. EnableReconnect => /\ NoneBehind(stack', Solo, Own)
                           /\ pending > 0 => Absent(stack', Own)
    BY <1>0, <1>3, HandlerStep DEF Single
  <2> QED BY <1>3, <2>1, <2>2, <2>3, <2>4
          DEF Single, ConnectedIffOpen, OneConnection, isConnected
<1>4. CASE Rerun \/ Return \/ ReconnectingDone
  BY <1>3, <1>4 DEF Rerun, Return, ReconnectingDone, At, state
<1>5. CASE ConnectInternal
  <2>1. Head(stack) \in Live /\ stack # <<>>
    BY <1>5 DEF ConnectInternal, At, Live, Retrying
  <2>2. open = {} /\ pending = 0 /\ ~isConnected
    BY <1>0, <1>5, <2>1, HandlerStep, HandlersAreSequences DEF ConnectInternal
  <2>3. CASE pending' = pending + 1 /\ Continue(<<>>)
    <3>1. AtMostOnce(stack', Solo) /\ Absent(stack', Live)
      BY <1>0, <2>1, <2>3, HandlerStep
    <3>2. EnableReconnect => NoneBehind(stack', Solo, Own) /\ Absent(stack', Own)
      BY <1>0, <2>1, <2>3, HandlerStep
    <3> QED BY <1>5, <2>2, <2>3, <3>1, <3>2
            DEF ConnectInternal, state, Single, ConnectedIffOpen,
                OneConnection, isConnected
  <2>4. CASE Continue(ErrorHandler) /\ UNCHANGED pending
    <3>1. /\ AtMostOnce(stack', Solo)
          /\ EnableReconnect => NoneBehind(stack', Solo, Own)
      BY <1>0, <2>1, <2>4, HandlerStep, HandlersAreSequences, HandlersHoldOne,
         HandlersAreOrdered
    <3> QED BY <1>5, <2>2, <2>4, <3>1
            DEF ConnectInternal, state, Single, ConnectedIffOpen,
                OneConnection, isConnected
  <2> QED BY <1>5, <2>3, <2>4 DEF ConnectInternal
<1>6. CASE ReconnectIfEnabled
  <2>1. CASE EnableReconnect
    <3>1. Head(stack) \in Live
      BY <1>6, <2>1 DEF ReconnectIfEnabled, At, Live, Retrying
    <3> QED BY <1>6, <2>1, <3>1, ReconnectStep DEF ReconnectIfEnabled, At
  <2>2. CASE ~EnableReconnect
    BY <1>3, <1>6, <2>2 DEF ReconnectIfEnabled, At
  <2> QED BY <2>1, <2>2
<1>7. CASE ReconnectIfIdle
  <2>1. CASE EnableReconnect /\ ~isReconnecting
    <3>1. Head(stack) \in Live
      BY <1>7, <2>1 DEF ReconnectIfIdle, At, Live, Retrying
    <3> QED BY <1>7, <2>1, <3>1, ReconnectStep DEF ReconnectIfIdle, At
  <2>2. CASE ~(EnableReconnect /\ ~isReconnecting)
    BY <1>3, <1>7, <2>2 DEF ReconnectIfIdle, At
  <2> QED BY <2>1, <2>2
<1>8. CASE CloseIfConnected
  <2>1. stack # <<>> /\ At("closeIfConnected")
    BY <1>8 DEF CloseIfConnected, At
  <2>2. ~isConnected
    <3>1. ~Absent(stack, {"closeIfConnected"})
      BY <2>1, EmptySeq, LenProperties DEF Absent, TypeOK, At
    <3> QED BY <3>1 DEF Single, ConnectedIffOpen
  <2> QED BY <1>3, <1>8, <2>1, <2>2 DEF CloseIfConnected, state
<1>9. ASSUME NEW s \in Sockets, Established(s) PROVE Single'
  <2>1. pending = 1 /\ open = {}
    BY <1>9 DEF Established, Single, OneConnection, TypeOK
  <2>2. open' = {s} /\ ws' = s /\ pending' = 0
    BY <1>9, <2>1 DEF Established
  <2>3. /\ AtMostOnce(stack', Solo) /\ Absent(stack', Live)
        /\ Absent(stack', {"closeIfConnected"})
        /\ EnableReconnect => NoneBehind(stack', Solo, Own)
    BY <1>9, Occurrences, HandlersHoldOne, HandlersAreOrdered DEF Established
  <2> QED BY <2>2, <2>3, ConstantsAssumption
          DEF Single, ConnectedIffOpen, OneConnection, isConnected
<1>10. CASE AttemptFails
  <2>1. pending' = 0 /\ open' = {} /\ ws' = ws /\ open = {}
    BY <1>10 DEF AttemptFails, Single, OneConnection, TypeOK, state
  <2>2. /\ AtMostOnce(stack', Solo)
        /\ EnableReconnect => NoneBehind(stack', Solo, Own)
    BY <1>10, HandlersHoldOne, HandlersAreOrdered DEF AttemptFails
  <2> QED BY <2>1, <2>2 DEF Single, ConnectedIffOpen, OneConnection, isConnected
<1>11. ASSUME NEW s \in Sockets, NEW code \in Codes, Closed(s, code)
       PROVE  Single'
  <2>1. open = {s} /\ pending = 0
    BY <1>11 DEF Closed, Single, ConnectedIffOpen, OneConnection, TypeOK
  <2>2. open' = {} /\ ws' = None /\ pending' = 0
    BY <1>11, <2>1 DEF Closed, Disconnect
  <2>3. /\ AtMostOnce(stack', Solo)
        /\ EnableReconnect => NoneBehind(stack', Solo, Own)
    BY <1>11, HandlersHoldOne, HandlersAreOrdered DEF Closed
  <2> QED BY <2>2, <2>3 DEF Single, ConnectedIffOpen, OneConnection, isConnected
<1>12. ASSUME NEW point \in {"onTicks", "onError", "escaped"}, Message(point)
       PROVE  Single'
  <2>1. /\ AtMostOnce(stack', Solo) /\ Absent(stack', Live)
        /\ Absent(stack', {"closeIfConnected"})
        /\ EnableReconnect => NoneBehind(stack', Solo, Own)
    <3>1. point \notin Live /\ point \notin {"closeIfConnected"}
      BY <1>12, HandlersHoldOne
    <3> QED BY <1>12, <3>1, Occurrences, HandlersAreOrdered DEF Message
  <2>2. pending = 0
    BY <1>12 DEF Message, Single, OneConnection, TypeOK
  <2> QED BY <1>12, <2>1, <2>2
          DEF Message, state, Single, ConnectedIffOpen, OneConnection, isConnected
<1>13. CASE Throw
  <2>1. /\ AtMostOnce(stack', Solo) /\ Absent(stack', Live)
        /\ Absent(stack', {"closeIfConnected"})
        /\ EnableReconnect => NoneBehind(stack', Solo, Own)
    BY <1>13, HandlersHoldOne, HandlersAreOrdered, Occurrences DEF Throw
  <2>2. EnableReconnect => pending = 0
    <3>1. stack # <<>> /\ Head(stack) \in Own
      BY <1>13 DEF Throw, Own
    <3>2. ~Absent(stack, Own)
      BY <3>1, EmptySeq, LenProperties DEF Absent, TypeOK
    <3> QED BY <3>2 DEF Single, TypeOK
  <2> QED BY <1>13, <2>1, <2>2
          DEF Throw, state, Single, ConnectedIffOpen, OneConnection, isConnected
<1>14. CASE UNCHANGED vars
  BY <1>14 DEF vars, Single, ConnectedIffOpen, OneConnection, isConnected
<1> QED BY <1>1, <1>2, <1>4, <1>5, <1>6, <1>7, <1>8, <1>9, <1>10, <1>11,
           <1>12, <1>13, <1>14
        DEF Next, Program, Library, Resolve, Peer

LEMMA InitSingle ==
  ASSUME Init
  PROVE  Single
<1>1. stack = <<"main">> /\ open = {} /\ pending = 0 /\ ~isConnected
  BY DEF Init, isConnected
<1>2. AtMostOnce(stack, Solo)
  BY <1>1, Occurrences
<1>3. NoneBehind(stack, Solo, Own)
  BY <1>1 DEF NoneBehind
<1> QED BY <1>1, <1>2, <1>3 DEF Single, ConnectedIffOpen, OneConnection

\* Single is an invariant.
LEMMA SafeSingle ==
  ASSUME Disciplined
  PROVE  Safety => []Single
<1>1. Init => Single
  BY InitSingle
<1>2. TypeOK /\ Single /\ [Next]_vars => Single'
  BY SingleStep
<1> QED BY <1>1, <1>2, SafeTypes, PTL DEF Safety

\* A program that calls connect() only where the ticker has nothing open or on
\* its way never has two connections: the handlers alone never start a second
\* attempt.
THEOREM OneAtATime ==
  ASSUME Disciplined
  PROVE  Spec => []OneConnection
<1>1. Single => OneConnection
  BY DEF Single
<1> QED BY <1>1, SafeSingle, PTL DEF Spec

\* isConnected() tells such a program the truth, in every callback and between
\* them.
THEOREM IsConnectedIsTrue ==
  ASSUME Disciplined
  PROVE  Spec => []ConnectedIffOpen
<1>1. Single => ConnectedIffOpen
  BY DEF Single
<1> QED BY <1>1, SafeSingle, PTL DEF Spec

-----------------------------------------------------------------------------
(* stop() is final.                                                        *)

\* After a stop() that found the connection open, nothing the ticker does by
\* itself is left to do.
Stopped ==
  stopped = "connected" => /\ open = {} /\ pending = 0
                           /\ Absent(stack, Retrying)

LEMMA StoppedStep ==
  ASSUME Disciplined, TypeOK, Single, Stopped, [Next]_vars
  PROVE  Stopped'
<1> SUFFICES ASSUME stopped' = "connected"
             PROVE  open' = {} /\ pending' = 0 /\ Absent(stack', Retrying)
  BY DEF Stopped
<1>0. /\ stack \in Seq(Points) /\ <<>> \in Seq(Points)
      /\ Absent(<<>>, Retrying)
  BY DEF TypeOK, Absent
<1>1. CASE Stop /\ isConnected
  <2>1. open = {ws} /\ pending = 0 /\ Absent(stack, Live)
    BY <1>1 DEF Single, ConnectedIffOpen, OneConnection, TypeOK
  <2>2. open' = {} /\ pending' = 0
    BY <1>1, <2>1 DEF Stop, Disconnect
  <2>3. stack' = <<"onClose">> \o stack
    BY <1>1 DEF Stop, DisconnectionHandler
  <2>4. Absent(stack', Retrying)
    <3>1. <<"onClose">> \in Seq(Points) /\ "onClose" \notin Retrying
      BY PointsAreNamed, Tuples DEF Retrying
    <3>2. /\ Len(stack') = 1 + Len(stack) /\ Len(stack) \in Nat
          /\ \A i \in 1..Len(stack') :
                stack'[i] = IF i <= 1 THEN "onClose" ELSE stack[i - 1]
      BY <1>0, <2>3, <3>1, ConcatProperties, LenProperties
    <3>3. Absent(stack, Retrying)
      BY <2>1 DEF Absent, Live
    <3> QED BY <3>1, <3>2, <3>3 DEF Absent
  <2> QED BY <2>2, <2>4
<1>2. CASE ~(Stop /\ isConnected)
  <2>0. ~Connect
    BY DEF Connect
  <2>1. stopped = "connected"
    BY <1>2, <2>0 DEF Next, Program, Library, Resolve, Peer, Stop, Throw, Rerun,
       Return, ConnectInternal, ReconnectIfEnabled, ReconnectIfIdle, ReconnectingDone,
       CloseIfConnected, Established, AttemptFails, Closed, Message, vars
  <2>2. /\ open = {} /\ pending = 0 /\ Absent(stack, Retrying) /\ ~isConnected
    BY <2>1 DEF Stopped, Single, ConnectedIffOpen
  <2>3. ASSUME NEW point \in Retrying PROVE ~At(point)
    BY <1>0, <2>2, EmptySeq, LenProperties DEF At, Absent
  <2>4. ASSUME stack # <<>>, Continue(<<>>), UNCHANGED <<open, pending>>
        PROVE  open' = {} /\ pending' = 0 /\ Absent(stack', Retrying)
    BY <1>0, <2>2, <2>4, ReplaceHead DEF Continue
  <2>5. CASE Stop
    BY <1>2, <2>2, <2>5 DEF Stop
  <2>6. CASE Rerun \/ Return \/ ReconnectingDone
    BY <2>4, <2>6 DEF Rerun, Return, ReconnectingDone, At
  <2>7. CASE ConnectInternal
    BY <2>3, <2>7 DEF ConnectInternal, Retrying
  <2>8. CASE ReconnectIfEnabled
    <3>1. ~EnableReconnect
      BY <2>3, <2>8 DEF ReconnectIfEnabled, Retrying
    <3> QED BY <2>4, <2>8, <3>1 DEF ReconnectIfEnabled, At
  <2>9. CASE ReconnectIfIdle
    <3>1. ~EnableReconnect
      BY <2>3, <2>9 DEF ReconnectIfIdle, Retrying
    <3> QED BY <2>4, <2>9, <3>1 DEF ReconnectIfIdle, At
  <2>10. CASE CloseIfConnected
    BY <2>2, <2>4, <2>10 DEF CloseIfConnected, At
  <2>11. ASSUME NEW s \in Sockets, Established(s) PROVE FALSE
    BY <2>2, <2>11 DEF Established
  <2>12. ~AttemptFails
    BY <2>2 DEF AttemptFails
  <2>13. ASSUME NEW s \in Sockets, NEW code \in Codes, Closed(s, code)
         PROVE  FALSE
    BY <2>2, <2>13 DEF Closed
  <2>14. ASSUME NEW point, Message(point) PROVE FALSE
    BY <2>2, <2>14 DEF Message
  <2>15. CASE Throw
    <3>1. "escaped" \notin Retrying
      BY DEF Retrying
    <3> QED BY <2>2, <2>15, <3>1, Occurrences DEF Throw
  <2>16. CASE UNCHANGED vars
    BY <2>2, <2>16 DEF vars
  <2> QED BY <2>0, <2>5, <2>6, <2>7, <2>8, <2>9, <2>10, <2>11, <2>12, <2>13,
             <2>14, <2>15, <2>16 DEF Next, Program, Library, Resolve, Peer
<1> QED BY <1>1, <1>2

\* Once stop() has closed an open connection no handler connects again, in
\* whatever callback stop() was called and whatever was still on the stack.
THEOREM StopEndsReconnection ==
  ASSUME Disciplined
  PROVE  Spec => []StopIsFinal
<1>1. Init => Single /\ Stopped
  BY InitSingle DEF Init, Stopped
<1>2. TypeOK /\ Single /\ Stopped /\ [Next]_vars => (Single /\ Stopped)'
  BY SingleStep, StoppedStep
<1>3. Single /\ Stopped => StopIsFinal
  BY DEF Single, ConnectedIffOpen, Stopped, StopIsFinal, Absent, Retrying,
         isConnected
<1> QED BY <1>1, <1>2, <1>3, SafeTypes, PTL DEF Spec, Safety

-----------------------------------------------------------------------------
(* The retry budget, whatever the program does.                            *)

\* The attempts made follow the counter until the budget is used up.
Budget ==
  /\ retried = IF reconnectTries <= MaxReconnectTries THEN reconnectTries
                                                      ELSE MaxReconnectTries
  /\ reconnectTries > MaxReconnectTries \/ Absent(stack, {"onReconnectFail"})

LEMMA BudgetStep ==
  ASSUME TypeOK, Budget, [Next]_vars
  PROVE  Budget'
<1> DEFINE Fail == {"onReconnectFail"}
<1>0. /\ stack \in Seq(Points) /\ <<>> \in Seq(Points)
      /\ Absent(<<>>, Fail) /\ Absent(ErrorHandler, Fail)
      /\ \A code : Absent(DisconnectionHandler(code), Fail)
  <2>1. Absent(ErrorHandler, Fail)
    BY Occurrences DEF ErrorHandler
  <2>2. ASSUME NEW code PROVE Absent(DisconnectionHandler(code), Fail)
    <3>1. /\ Absent(<<"onClose">>, Fail)
          /\ Absent(<<"onError", "onClose", "reconnectIfIdle">>, Fail)
      BY Occurrences
    <3> QED BY <3>1 DEF DisconnectionHandler
  <2> QED BY <2>1, <2>2 DEF TypeOK, Absent
<1>1. ASSUME NEW seq \in Seq(Points), Absent(seq, Fail),
             stack # <<>> /\ Continue(seq), UNCHANGED <<retried, reconnectTries>>
      PROVE  Budget'
  <2>1. Absent(stack, Fail) => Absent(stack', Fail)
    BY <1>0, <1>1, ReplaceHead DEF Continue
  <2> QED BY <1>1, <2>1 DEF Budget
<1>2. CASE Connect
  <2>1. /\ <<"connectInternal">> \in Seq(Points)
        /\ Absent(<<"connectInternal">>, Fail)
    BY PointsAreNamed, Tuples, Occurrences
  <2> QED BY <1>1, <1>2, <2>1 DEF Connect, state
<1>3. CASE Stop
  <2>1. CASE isConnected
    <3>1. stack' = <<"onClose">> \o stack
      BY <1>3, <2>1 DEF Stop, DisconnectionHandler
    <3>2. <<"onClose">> \in Seq(Points)
      BY PointsAreNamed, Tuples
    <3>3. /\ Len(stack') = 1 + Len(stack) /\ Len(stack) \in Nat
          /\ \A i \in 1..Len(stack') :
                stack'[i] = IF i <= 1 THEN "onClose" ELSE stack[i - 1]
      BY <1>0, <3>1, <3>2, ConcatProperties, LenProperties
    <3>4. Absent(stack, Fail) => Absent(stack', Fail)
      BY <3>3 DEF Absent
    <3> QED BY <1>3, <2>1, <3>4 DEF Stop, Disconnect, Budget
  <2>2. CASE ~isConnected
    BY <1>3, <2>2 DEF Stop, state, Budget
  <2> QED BY <2>1, <2>2
<1>4. CASE Rerun \/ Return \/ ReconnectingDone
  BY <1>0, <1>1, <1>4 DEF Rerun, Return, ReconnectingDone, At, state
<1>5. CASE ConnectInternal
  BY <1>0, <1>1, <1>5, HandlersAreSequences DEF ConnectInternal, At, state
<1>6. ASSUME stack # <<>>, reconnect PROVE Budget'
  <2>1. CASE isConnected
    BY <1>0, <1>1, <1>6, <2>1 DEF reconnect
  <2>2. CASE ~isConnected /\ reconnectTries + 1 <= MaxReconnectTries
    <3>1. /\ <<"onTryReconnect", "connectInternal">> \in Seq(Points)
          /\ Absent(<<"onTryReconnect", "connectInternal">>, Fail)
      BY PointsAreNamed, Tuples, Occurrences
    <3>2. /\ Continue(<<"onTryReconnect", "connectInternal">>)
          /\ reconnectTries' = reconnectTries + 1 /\ retried' = retried + 1
      BY <1>6, <2>2 DEF reconnect
    <3>3. Absent(stack, Fail) => Absent(stack', Fail)
      BY <1>0, <1>6, <3>1, <3>2, ReplaceHead DEF Continue
    <3>4. reconnectTries \in Nat /\ MaxReconnectTries \in Nat
      BY ConstantsAssumption DEF TypeOK
    <3> QED BY <2>2, <3>2, <3>3, <3>4 DEF Budget
  <2>3. CASE ~isConnected /\ ~(reconnectTries + 1 <= MaxReconnectTries)
    <3>1. reconnectTries' = reconnectTries + 1 /\ retried' = retried
      BY <1>6, <2>3 DEF reconnect
    <3>2. reconnectTries \in Nat /\ MaxReconnectTries \in Nat
      BY ConstantsAssumption DEF TypeOK
    <3> QED BY <2>3, <3>1, <3>2 DEF Budget
  <2> QED BY <2>1, <2>2, <2>3
<1>7. CASE ReconnectIfEnabled
  <2>1. CASE EnableReconnect
    BY <1>6, <1>7, <2>1 DEF ReconnectIfEnabled, At
  <2>2. CASE ~EnableReconnect
    BY <1>0, <1>1, <1>7, <2>2 DEF ReconnectIfEnabled, At
  <2> QED BY <2>1, <2>2
<1>8. CASE ReconnectIfIdle
  <2>1. CASE EnableReconnect /\ ~isReconnecting
    BY <1>6, <1>8, <2>1 DEF ReconnectIfIdle, At
  <2>2. CASE ~(EnableReconnect /\ ~isReconnecting)
    BY <1>0, <1>1, <1>8, <2>2 DEF ReconnectIfIdle, At
  <2> QED BY <2>1, <2>2
<1>9. CASE CloseIfConnected
  BY <1>0, <1>1, <1>9, HandlersAreSequences
     DEF CloseIfConnected, Disconnect, At, state
<1>10. ASSUME NEW s \in Sockets, Established(s) PROVE Budget'
  <2>1. Absent(stack', Fail)
    BY <1>10, Occurrences DEF Established
  <2> QED BY <1>10, <2>1, ConstantsAssumption DEF Established, Budget
<1>11. CASE AttemptFails
  BY <1>0, <1>11 DEF AttemptFails, state, Budget
<1>12. ASSUME NEW s \in Sockets, NEW code \in Codes, Closed(s, code)
       PROVE  Budget'
  BY <1>0, <1>12 DEF Closed, Disconnect, Budget
<1>13. ASSUME NEW point \in {"onTicks", "onError", "escaped"}, Message(point)
       PROVE  Budget'
  <2>1. Absent(stack', Fail)
    BY <1>13, Occurrences DEF Message
  <2> QED BY <1>13, <2>1 DEF Message, state, Budget
<1>14. CASE Throw
  <2>1. Absent(stack', Fail)
    BY <1>14, Occurrences DEF Throw
  <2> QED BY <1>14, <2>1 DEF Throw, state, Budget
<1>15. CASE UNCHANGED vars
  BY <1>15 DEF vars, Budget
<1> QED BY <1>2, <1>3, <1>4, <1>5, <1>7, <1>8, <1>9, <1>10, <1>11, <1>12,
           <1>13, <1>14, <1>15 DEF Next, Program, Library, Resolve, Peer

\* BudgetIsKept without fairness.
LEMMA SafeBudget == Safety => []GivesUpAtBudget
<1>1. Init => Budget
  <2>1. Init => Absent(stack, {"onReconnectFail"})
    BY Occurrences DEF Init
  <2> QED BY <2>1, ConstantsAssumption DEF Init, Budget
<1>2. TypeOK /\ Budget /\ [Next]_vars => Budget'
  BY BudgetStep
<1>3. TypeOK /\ Budget => GivesUpAtBudget
  <2> SUFFICES ASSUME TypeOK, Budget PROVE GivesUpAtBudget
    OBVIOUS
  <2>1. retried <= MaxReconnectTries
    BY ConstantsAssumption DEF TypeOK, Budget
  <2>2. At("onReconnectFail") => retried = MaxReconnectTries
    <3>1. At("onReconnectFail") => ~Absent(stack, {"onReconnectFail"})
      BY EmptySeq, LenProperties DEF At, Absent, TypeOK
    <3> QED BY <3>1, ConstantsAssumption DEF TypeOK, Budget
  <2> QED BY <2>1, <2>2 DEF GivesUpAtBudget
<1> QED BY <1>1, <1>2, <1>3, SafeTypes, PTL DEF Safety

\* The retry budget is kept exactly: never more than MaxReconnectTries
\* automatic attempts between two connections, and onReconnectFail only when
\* all of them have been made.  This needs no discipline of the program.
THEOREM BudgetIsKept == Spec => []GivesUpAtBudget
BY SafeBudget, PTL DEF Spec

-----------------------------------------------------------------------------
(* No use of a closed socket, whatever the program does.                   *)

\* NeverDangling without fairness.
LEMMA SafeSocket == Safety => []NoDanglingSocket
<1>1. Init => NoDanglingSocket
  BY DEF Init, NoDanglingSocket, isConnected
<1>2. TypeOK /\ NoDanglingSocket /\ [Next]_vars => NoDanglingSocket'
  <2> SUFFICES ASSUME NoDanglingSocket, [Next]_vars PROVE NoDanglingSocket'
    OBVIOUS
  <2>1. ASSUME UNCHANGED <<ws, open>> PROVE NoDanglingSocket'
    BY <2>1 DEF NoDanglingSocket, isConnected
  <2>2. ASSUME ws' = None PROVE NoDanglingSocket'
    BY <2>2 DEF NoDanglingSocket, isConnected
  <2>3. CASE Program
    BY <2>1, <2>2, <2>3 DEF Program, Connect, Stop, Throw, Rerun,
       Disconnect, state
  <2>4. CASE Library
    BY <2>1, <2>2, <2>4 DEF Library, Return, ConnectInternal, ReconnectIfEnabled,
       ReconnectIfIdle, ReconnectingDone, CloseIfConnected, Disconnect, state
  <2>5. ASSUME NEW s \in Sockets, Established(s) PROVE NoDanglingSocket'
    BY <2>5 DEF Established, NoDanglingSocket, isConnected
  <2>6. CASE AttemptFails
    BY <2>1, <2>6 DEF AttemptFails, state
  <2>7. CASE Peer
    BY <2>1, <2>2, <2>7 DEF Peer, Closed, Message, Disconnect, state
  <2>8. CASE UNCHANGED vars
    BY <2>1, <2>8 DEF vars
  <2> QED BY <2>3, <2>4, <2>5, <2>6, <2>7, <2>8 DEF Next, Resolve
<1> QED BY <1>1, <1>2, SafeTypes, PTL DEF Safety

\* ws always points to a socket that is open, even when a program that
\* connects too often has made several and closes one of them.
THEOREM NeverDangling == Spec => []NoDanglingSocket
BY SafeSocket, PTL DEF Spec

=============================================================================
