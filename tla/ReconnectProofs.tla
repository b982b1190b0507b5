--------------------------- MODULE ReconnectProofs ---------------------------
(***************************************************************************)
(* Automatic reconnection, for every value of the constants: the schedule  *)
(* of the delays, that the program is told of every end, and that the      *)
(* handlers implement the promise of AutoReconnect.                        *)
(***************************************************************************)
EXTENDS ConnectionProofs, FiniteSetTheorems, FunctionTheorems

-----------------------------------------------------------------------------
(* The exponential backoff.                                                *)

\* 2^n counts the subsets of 1..n, and there are as many subsets of
\* 1..(n + 1) with n + 1 as without.
LEMMA Doubling ==
  ASSUME NEW n \in Nat
  PROVE  2^n \in Nat /\ 2^(n + 1) = 2 * 2^n
<1> DEFINE without == SUBSET (1..n)
           with == {s \cup {n + 1} : s \in without}
           add == [s \in without |-> s \cup {n + 1}]
<1>1. /\ IsFiniteSet(1..n) /\ Cardinality(1..n) = n
      /\ IsFiniteSet(1..(n + 1)) /\ Cardinality(1..(n + 1)) = n + 1
  BY FS_Interval
<1>2. /\ IsFiniteSet(without) /\ Cardinality(without) = 2^n
      /\ Cardinality(SUBSET (1..(n + 1))) = 2^(n + 1)
  BY <1>1, FS_SUBSET
<1>3. /\ SUBSET (1..(n + 1)) = without \cup with
      /\ without \cap with = {}
  <2>1. 1..(n + 1) = (1..n) \cup {n + 1} /\ n + 1 \notin 1..n
    OBVIOUS
  <2>2. ASSUME NEW s \in SUBSET (1..(n + 1)) PROVE s \in without \cup with
    <3>1. CASE n + 1 \in s
      <4>1. s \ {n + 1} \in without /\ s = (s \ {n + 1}) \cup {n + 1}
        BY <2>1, <3>1
      <4> QED BY <4>1
    <3>2. CASE n + 1 \notin s
      BY <2>1, <3>2
    <3> QED BY <3>1, <3>2
  <2>3. without \cup with \subseteq SUBSET (1..(n + 1))
    BY <2>1
  <2> QED BY <2>1, <2>2, <2>3
<1>4. ExistsBijection(without, with)
  <2>1. add \in Surjection(without, with)
    BY DEF Surjection
  <2>2. add \in Injection(without, with)
    <3>1. \A s, t \in without : s \cup {n + 1} = t \cup {n + 1} => s = t
      <4> SUFFICES ASSUME NEW s \in without, NEW t \in without,
                          s \cup {n + 1} = t \cup {n + 1}
                   PROVE  s = t
        OBVIOUS
      <4>1. n + 1 \notin s /\ n + 1 \notin t
        OBVIOUS
      <4> QED BY <4>1
    <3>2. /\ add \in [without -> with] /\ DOMAIN add = without
          /\ \A s \in without : add[s] = s \cup {n + 1}
      OBVIOUS
    <3> HIDE DEF add
    <3> QED BY <3>1, <3>2 DEF Injection, IsInjective
  <2> QED BY <2>1, <2>2 DEF ExistsBijection, Bijection
<1>5. IsFiniteSet(with) /\ Cardinality(with) = 2^n
  BY <1>2, <1>4, FS_Bijection
<1>6. Cardinality(without \cap with) = 0
  BY <1>3, FS_EmptySet
<1> HIDE DEF without, with
<1>7. 2^n \in Nat
  BY <1>2, FS_CardinalityType
<1>8. 2^(n + 1) = 2^n + 2^n - 0
  BY <1>2, <1>3, <1>5, <1>6, FS_Union
<1> QED BY <1>7, <1>8

Capped(delay) ==
  IF delay > MaxReconnectDelay THEN MaxReconnectDelay ELSE delay

\* The delay that comes next follows the attempts made, and the last one is
\* what came next before.
Backoff ==
  /\ reconnectDelay = IF retried = 0 THEN initReconnectDelay
                                     ELSE Capped(2^(retried + 1))
  /\ retried > 0 => slept = IF retried = 1 THEN initReconnectDelay
                                           ELSE Capped(2^retried)

\* Doubling a capped delay and capping it again is to cap the double.
LEMMA NextDelayFollows ==
  ASSUME TypeOK, Backoff
  PROVE  NextDelay = Capped(2^(retried + 2))
<1> DEFINE power == 2^(retried + 1)
<1>1. retried \in Nat /\ MaxReconnectDelay \in Nat
  BY ConstantsAssumption DEF TypeOK
<1>2. power \in Nat /\ 2^(retried + 2) = 2 * power
  <2>1. retried + 1 \in Nat /\ (retried + 1) + 1 = retried + 2
    BY <1>1
  <2> QED BY <2>1, Doubling
<1>3. reconnectDelay = IF retried = 0 THEN 2 ELSE Capped(power)
  BY DEF Backoff, initReconnectDelay
<1>4. retried = 0 => power = 2
  <2>1. retried = 0 => retried + 1 = 1
    OBVIOUS
  <2>2. 2^1 = 2
    OBVIOUS
  <2> QED BY <2>1, <2>2
<1> HIDE DEF power
<1> QED BY <1>1, <1>2, <1>3, <1>4 DEF NextDelay, Capped

LEMMA BackoffStep ==
  ASSUME TypeOK, Backoff, [Next]_vars
  PROVE  Backoff'
<1>1. ASSUME UNCHANGED <<reconnectDelay, retried, slept>> PROVE Backoff'
  BY <1>1 DEF Backoff, Capped
<1>2. ASSUME reconnect PROVE Backoff'
  <2>1. CASE UNCHANGED <<reconnectDelay, retried, slept>>
    BY <1>1, <2>1
  <2>2. CASE ~UNCHANGED <<reconnectDelay, retried, slept>>
    <3>1. /\ slept' = reconnectDelay /\ reconnectDelay' = NextDelay
          /\ retried' = retried + 1
      BY <1>2, <2>2 DEF reconnect
    <3>2. retried \in Nat /\ (retried + 1) + 1 = retried + 2
      BY DEF TypeOK
    <3>3. /\ retried' # 0
          /\ reconnectDelay' = Capped(2^(retried' + 1))
      BY <3>1, <3>2, NextDelayFollows
    <3>4. slept' = IF retried' = 1 THEN initReconnectDelay
                                   ELSE Capped(2^retried')
      BY <3>1, <3>2 DEF Backoff
    <3> QED BY <3>3, <3>4 DEF Backoff, Capped
  <2> QED BY <2>1, <2>2
<1>3. CASE Program
  BY <1>1, <1>3 DEF Program, Connect, Stop, Throw, Rerun, Disconnect, state
<1>4. CASE Return \/ ConnectInternal \/ ReconnectingDone \/ CloseIfConnected
  BY <1>1, <1>4 DEF Return, ConnectInternal, ReconnectingDone,
                    CloseIfConnected, Disconnect, state
<1>5. CASE ReconnectIfEnabled
  BY <1>1, <1>2, <1>5 DEF ReconnectIfEnabled
<1>6. CASE ReconnectIfIdle
  BY <1>1, <1>2, <1>6 DEF ReconnectIfIdle
<1>7. ASSUME NEW s \in Sockets, Established(s) PROVE Backoff'
  BY <1>7 DEF Established, ResetBackoff, Backoff
<1>8. CASE AttemptFails \/ Peer
  BY <1>1, <1>8 DEF AttemptFails, Peer, Closed, Message, Disconnect, state
<1>9. CASE UNCHANGED vars
  BY <1>1, <1>9 DEF vars
<1> QED BY <1>3, <1>4, <1>5, <1>6, <1>7, <1>8, <1>9
        DEF Next, Library, Resolve

\* DelaysDouble without fairness.
LEMMA SafeDelays == Safety => []BackoffSchedule
<1>1. Init => Backoff
  BY DEF Init, Backoff
<1>2. TypeOK /\ Backoff /\ [Next]_vars => Backoff'
  BY BackoffStep
<1>3. TypeOK /\ Backoff => BackoffSchedule
  <2> SUFFICES ASSUME TypeOK, Backoff, retried > 0
               PROVE  slept = IF 2^retried > MaxReconnectDelay /\ retried > 1
                                THEN MaxReconnectDelay ELSE 2^retried
    BY DEF BackoffSchedule
  <2>1. CASE retried = 1
    <3>1. slept = 2 /\ 2^1 = 2
      BY <2>1 DEF Backoff, initReconnectDelay
    <3> QED BY <2>1, <3>1
  <2>2. CASE retried # 1
    BY <2>2 DEF TypeOK, Backoff, Capped
  <2> QED BY <2>1, <2>2
<1> QED BY <1>1, <1>2, <1>3, SafeTypes, PTL DEF Safety

\* The delays double from two seconds up to the limit and begin afresh after
\* every connection, for every limit and every budget and whatever the program
\* does in its callbacks.
THEOREM DelaysDouble == Spec => []BackoffSchedule
BY SafeDelays, PTL DEF Spec

-----------------------------------------------------------------------------
(* The ticker never falls silent.                                          *)

\* Replacing the head of the stack: what the new stack lacks, its parts lack;
\* and behind a head of which there is one only there is none.
LEMMA BehindHead ==
  ASSUME NEW S, NEW st \in Seq(S), st # <<>>, NEW seq \in Seq(S), NEW P
  PROVE  /\ Absent(seq \o Tail(st), P) => Absent(seq, P)
         /\ Absent(seq \o Tail(st), P) /\ Head(st) \notin P => Absent(st, P)
         /\ \A Q : /\ AtMostOnce(st, Q) /\ Head(st) \in Q
                   /\ P \subseteq Q /\ Absent(seq, P)
                   => Absent(seq \o Tail(st), P)
<1> DEFINE new == seq \o Tail(st)
<1>1. /\ Tail(st) \in Seq(S)
      /\ Len(Tail(st)) = Len(st) - 1
      /\ \A i \in 1..Len(Tail(st)) : Tail(st)[i] = st[i + 1]
      /\ Len(st) \in Nat \ {0} /\ Head(st) = st[1] /\ Len(seq) \in Nat
  BY HeadTailProperties, EmptySeq, LenProperties
<1>2. /\ Len(new) = Len(seq) + Len(Tail(st))
      /\ \A i \in 1..Len(seq) + Len(Tail(st)) :
            new[i] = IF i <= Len(seq) THEN seq[i] ELSE Tail(st)[i - Len(seq)]
  BY <1>1, ConcatProperties
<1> HIDE DEF new
<1>3. \A i \in 1..Len(seq) : i \in 1..Len(new) /\ new[i] = seq[i]
  BY <1>1, <1>2
<1>4. ASSUME NEW i \in 2..Len(st)
      PROVE  \E j \in 1..Len(new) : new[j] = st[i]
  <2>1. /\ Len(seq) + (i - 1) \in 1..Len(new)
        /\ ~(Len(seq) + (i - 1) <= Len(seq))
        /\ (Len(seq) + (i - 1)) - Len(seq) = i - 1
        /\ i - 1 \in 1..Len(Tail(st)) /\ (i - 1) + 1 = i
    BY <1>1, <1>2
  <2>2. new[Len(seq) + (i - 1)] = Tail(st)[i - 1] /\ Tail(st)[i - 1] = st[i]
    BY <2>1, <1>1, <1>2
  <2> QED BY <2>1, <2>2
<1>5. ASSUME Absent(new, P) PROVE Absent(seq, P)
  BY <1>3, <1>5 DEF Absent
<1>6. ASSUME Absent(new, P), Head(st) \notin P PROVE Absent(st, P)
  <2> SUFFICES ASSUME NEW i \in 1..Len(st) PROVE st[i] \notin P
    BY DEF Absent
  <2>1. CASE i = 1
    BY <2>1, <1>1, <1>6
  <2>2. CASE i # 1
    <3>1. i \in 2..Len(st)
      BY <2>2, <1>1
    <3> QED BY <3>1, <1>4, <1>6 DEF Absent
  <2> QED BY <2>1, <2>2
<1>7. ASSUME NEW Q, AtMostOnce(st, Q), Head(st) \in Q, P \subseteq Q,
             Absent(seq, P)
      PROVE  Absent(new, P)
  <2>1. <<>> \in Seq(S) /\ Absent(<<>>, Q)
    BY DEF Absent
  <2>2. Absent(<<>> \o Tail(st), Q) /\ <<>> \o Tail(st) = Tail(st)
    BY <2>1, <1>1, <1>7, ReplaceHead, ConcatEmptySeq
  <2>3. Absent(Tail(st), P)
    BY <2>2, <1>7 DEF Absent
  <2> SUFFICES ASSUME NEW i \in 1..Len(new) PROVE new[i] \notin P
    BY DEF Absent
  <2>4. CASE i <= Len(seq)
    BY <2>4, <1>1, <1>2, <1>7 DEF Absent
  <2>5. CASE ~(i <= Len(seq))
    <3>1. i - Len(seq) \in 1..Len(Tail(st))
      BY <2>5, <1>1, <1>2
    <3> QED BY <3>1, <2>3, <2>5, <1>1, <1>2 DEF Absent
  <2> QED BY <2>4, <2>5
<1> QED BY <1>5, <1>6, <1>7 DEF new

IdlePoint == {"reconnectIfIdle"}

\* The end of a connection is always looked after: the disconnection handler
\* never finds isReconnecting set, and as long as nothing is open or on its way
\* the program has been told, or a point that tries again is left.
Answerable ==
  /\ isConnected \/ ~Absent(stack, IdlePoint) => ~isReconnecting
  /\ (open = {} /\ pending = 0 /\ connects > 0)
        => outcome # "none" \/ ~Absent(stack, Retrying)

\* Where the points are in what the handlers push.
LEMMA HandlersTryAgain ==
  ASSUME EnableReconnect
  PROVE  /\ ~Absent(ErrorHandler, Retrying) /\ Absent(ErrorHandler, IdlePoint)
         /\ ~Absent(DisconnectionHandler("NO_REASON"), Retrying)
         /\ Absent(DisconnectionHandler("NORMAL_CLOSURE"), IdlePoint)
         /\ ~Absent(<<"connectInternal">>, Retrying)
         /\ ~Absent(Attempt, Retrying) /\ Absent(Attempt, IdlePoint)
         /\ Absent(<<"onReconnectFail", "reconnectingDone">>, IdlePoint)
         /\ Absent(<<"onReconnectFail", "reconnectingDone">>, Retrying)
<1> USE DEF Retrying, IdlePoint
<1>1. ~Absent(ErrorHandler, Retrying) /\ Absent(ErrorHandler, IdlePoint)
  <2>1. ErrorHandler[3] = "reconnectIfEnabled" /\ 3 \in 1..Len(ErrorHandler)
    BY DEF ErrorHandler
  <2>2. Absent(ErrorHandler, IdlePoint)
    BY Occurrences DEF ErrorHandler
  <2> QED BY <2>1, <2>2 DEF Absent
<1>2. /\ ~Absent(DisconnectionHandler("NO_REASON"), Retrying)
      /\ Absent(DisconnectionHandler("NORMAL_CLOSURE"), IdlePoint)
  <2>1. DisconnectionHandler("NO_REASON")
          = <<"onError", "onClose", "reconnectIfIdle">>
    BY DEF DisconnectionHandler
  <2>2. ~Absent(<<"onError", "onClose", "reconnectIfIdle">>, Retrying)
    <3> DEFINE seq == <<"onError", "onClose", "reconnectIfIdle">>
    <3>1. seq[3] = "reconnectIfIdle" /\ 3 \in 1..Len(seq)
      OBVIOUS
    <3> QED BY <3>1 DEF Absent
  <2>3. DisconnectionHandler("NORMAL_CLOSURE") = <<"onClose">>
    BY DEF DisconnectionHandler
  <2>4. Absent(<<"onClose">>, IdlePoint)
    BY Occurrences
  <2> QED BY <2>1, <2>2, <2>3, <2>4
<1>3. /\ ~Absent(<<"connectInternal">>, Retrying)
      /\ ~Absent(Attempt, Retrying) /\ Absent(Attempt, IdlePoint)
  <2>1. Attempt[2] = "connectInternal" /\ 2 \in 1..Len(Attempt)
    BY DEF Attempt
  <2>2. Absent(Attempt, IdlePoint)
    BY Occurrences DEF Attempt
  <2> QED BY <2>1, <2>2 DEF Absent
<1>4. /\ Absent(<<"onReconnectFail", "reconnectingDone">>, IdlePoint)
      /\ Absent(<<"onReconnectFail", "reconnectingDone">>, Retrying)
  BY Occurrences
<1> QED BY <1>1, <1>2, <1>3, <1>4

LEMMA AnswerableStep ==
  ASSUME Disciplined, EnableReconnect, TypeOK, Single, Answerable, [Next]_vars
  PROVE  Answerable'
<1>0. /\ stack \in Seq(Points) /\ <<>> \in Seq(Points)
      /\ Absent(<<>>, IdlePoint) /\ Absent(<<>>, Retrying)
      /\ <<"connectInternal">> \in Seq(Points) /\ Attempt \in Seq(Points)
      /\ <<"onReconnectFail", "reconnectingDone">> \in Seq(Points)
      /\ <<"onClose">> \in Seq(Points)
  BY PointsAreNamed, Tuples DEF TypeOK, Absent, Attempt
<1>1. ASSUME NEW seq \in Seq(Points), stack # <<>>, Continue(seq)
      PROVE  /\ Absent(stack, IdlePoint) /\ Absent(seq, IdlePoint)
                  => Absent(stack', IdlePoint)
             /\ Absent(stack', Retrying)
                  => /\ Absent(seq, Retrying)
                     /\ Head(stack) \notin Retrying => Absent(stack, Retrying)
             /\ Head(stack) \in Retrying /\ Absent(seq, IdlePoint)
                  => Absent(stack', IdlePoint)
             /\ Head(stack) \in Retrying => ~isConnected
  <2>1. stack' = seq \o Tail(stack)
    BY <1>1 DEF Continue
  <2>2. AtMostOnce(stack, Live) /\ IdlePoint \subseteq Live
    BY DEF Single, Solo, Live, Retrying, IdlePoint, AtMostOnce
  <2>3. Head(stack) \in Retrying => Head(stack) \in Live
    BY DEF Live
  <2>4. Head(stack) \in Live => ~isConnected
    BY <1>1, HandlerStep
  <2> QED BY <1>0, <1>1, <2>1, <2>2, <2>3, <2>4, ReplaceHead, BehindHead
\* The rest of a handler that is neither a retry nor changes the connection.
<1>2. ASSUME NEW seq \in Seq(Points), stack # <<>>, Continue(seq),
             Absent(seq, IdlePoint), Head(stack) \notin Retrying,
             isReconnecting' => isReconnecting,
             UNCHANGED <<ws, pending, open, connects, outcome>>
      PROVE  Answerable'
  <2>1. Absent(stack', Retrying) => Absent(stack, Retrying)
    BY <1>1, <1>2
  <2>2. Absent(stack, IdlePoint) => Absent(stack', IdlePoint)
    BY <1>1, <1>2
  <2> QED BY <1>2, <2>1, <2>2 DEF Answerable, isConnected
<1>3. CASE Connect
  <2>1. /\ stack # <<>> /\ Continue(<<"connectInternal">>)
        /\ UNCHANGED <<ws, isReconnecting>>
    BY <1>3 DEF Connect, state
  <2>2. Absent(<<"connectInternal">>, IdlePoint)
    BY Occurrences DEF IdlePoint
  <2> QED BY <1>0, <1>1, <2>1, <2>2, HandlersTryAgain
          DEF Answerable, isConnected
<1>4. CASE Stop
  <2>1. CASE isConnected
    <3>1. /\ stack' = <<"onClose">> \o stack /\ ws' = None
          /\ outcome' = "closed" /\ UNCHANGED isReconnecting
      BY <1>4, <2>1 DEF Stop, Disconnect, DisconnectionHandler
    <3>2. ~isReconnecting
      BY <2>1 DEF Answerable
    <3> QED BY <3>1, <3>2 DEF Answerable, isConnected
  <2>2. CASE ~isConnected
    BY <1>4, <2>2 DEF Stop, state, Answerable, isConnected
  <2> QED BY <2>1, <2>2
<1>5. CASE Throw
  <2>1. Absent(stack', IdlePoint)
    BY <1>5, Occurrences DEF Throw, IdlePoint
  <2> QED BY <1>5, <2>1 DEF Throw, state, Answerable, isConnected
<1>6. CASE Rerun \/ Return \/ ReconnectingDone
  <2>1. /\ stack # <<>> /\ Continue(<<>>)
        /\ isReconnecting' => isReconnecting
        /\ UNCHANGED <<ws, pending, open, connects, outcome>>
    BY <1>6 DEF Rerun, Return, ReconnectingDone, At, state
  <2>2. Head(stack) \notin Retrying
    BY <1>6 DEF Rerun, Return, ReconnectingDone, At, Callbacks, Retrying
  <2> QED BY <1>0, <1>2, <2>1, <2>2
<1>7. CASE ConnectInternal
  <2>1. stack # <<>> /\ Head(stack) \in Retrying
    BY <1>7 DEF ConnectInternal, At, Retrying
  <2>2. UNCHANGED <<ws, isReconnecting, open, connects, outcome>>
    BY <1>7 DEF ConnectInternal, state
  <2>3. CASE pending' = pending + 1 /\ Continue(<<>>)
    <3>1. pending' # 0
      BY <2>3 DEF TypeOK
    <3>2. Absent(stack', IdlePoint) /\ ~isConnected
      BY <1>0, <1>1, <2>1, <2>3
    <3> QED BY <2>2, <3>1, <3>2 DEF Answerable, isConnected
  <2>4. CASE Continue(ErrorHandler)
    BY <1>1, <2>1, <2>2, <2>4, HandlersTryAgain, HandlersAreSequences
       DEF Answerable, isConnected
  <2> QED BY <1>7, <2>3, <2>4 DEF ConnectInternal
\* reconnect() either makes an attempt or tells the program.
<1>8. ASSUME stack # <<>>, Head(stack) \in Retrying, reconnect,
             UNCHANGED <<ws, pending, open, connects>>
      PROVE  Answerable'
  <2>1. ~isConnected
    <3>1. ~Absent(stack, Live)
      BY <1>0, <1>8, EmptySeq, LenProperties DEF Absent, Live
    <3> QED BY <3>1 DEF Single, ConnectedIffOpen
  <2>2. CASE Continue(Attempt)
    BY <1>0, <1>1, <1>8, <2>1, <2>2, HandlersTryAgain
       DEF Answerable, isConnected
  <2>3. CASE /\ Continue(<<"onReconnectFail", "reconnectingDone">>)
             /\ outcome' = "failed"
    BY <1>0, <1>1, <1>8, <2>1, <2>3, HandlersTryAgain
       DEF Answerable, isConnected
  <2> QED BY <1>8, <2>1, <2>2, <2>3 DEF reconnect
<1>9. CASE ReconnectIfEnabled
  <2>1. "reconnectIfEnabled" \in Retrying
    BY DEF Retrying
  <2> QED BY <1>8, <1>9, <2>1 DEF ReconnectIfEnabled, At
<1>10. CASE ReconnectIfIdle
  <2>1. "reconnectIfIdle" \in Retrying /\ At("reconnectIfIdle")
    BY <1>10 DEF ReconnectIfIdle, Retrying
  <2>2. ~Absent(stack, IdlePoint)
    BY <1>0, <2>1, EmptySeq, LenProperties DEF Absent, At, IdlePoint
  <2>3. ~isReconnecting
    BY <2>2 DEF Answerable
  <2> QED BY <1>8, <1>10, <2>1, <2>3 DEF ReconnectIfIdle, At
<1>11. CASE CloseIfConnected
  <2>1. At("closeIfConnected") /\ stack # <<>>
    BY <1>11 DEF CloseIfConnected, At
  <2>2. ~isConnected
    <3>1. ~Absent(stack, {"closeIfConnected"})
      BY <1>0, <2>1, EmptySeq, LenProperties DEF Absent, At
    <3> QED BY <3>1 DEF Single, ConnectedIffOpen
  <2>3. Head(stack) \notin Retrying
    BY <2>1 DEF At, Retrying
  <2>4. /\ Continue(<<>>) /\ isReconnecting' = isReconnecting
        /\ UNCHANGED <<ws, pending, open, connects, outcome>>
    BY <1>11, <2>2 DEF CloseIfConnected, state
  <2> QED BY <1>0, <1>2, <2>1, <2>3, <2>4
<1>12. ASSUME NEW s \in Sockets, Established(s) PROVE Answerable'
  BY <1>12 DEF Established, ResetBackoff, Answerable
<1>13. CASE AttemptFails
  <2>1. ~isConnected /\ UNCHANGED <<ws, isReconnecting>>
    BY <1>13 DEF AttemptFails, Single, OneConnection, ConnectedIffOpen,
                 TypeOK, state
  <2> QED BY <1>13, <2>1, HandlersTryAgain
          DEF AttemptFails, Answerable, isConnected
<1>14. ASSUME NEW s \in Sockets, NEW code \in Codes, Closed(s, code)
       PROVE  Answerable'
  <2>1. ~isReconnecting
    BY <1>14 DEF Closed, Single, ConnectedIffOpen, Answerable
  <2>2. /\ ~isReconnecting' /\ stack' = DisconnectionHandler(code)
        /\ outcome' = IF code = "NORMAL_CLOSURE" THEN "closed" ELSE "none"
    BY <1>14, <2>1 DEF Closed, Disconnect
  <2> QED BY <2>2, HandlersTryAgain DEF Answerable, Codes
<1>15. ASSUME NEW point \in {"onTicks", "onError", "escaped"}, Message(point)
       PROVE  Answerable'
  <2>1. Absent(stack', IdlePoint)
    BY <1>15, Occurrences DEF Message, IdlePoint
  <2> QED BY <1>15, <2>1 DEF Message, state, Answerable, isConnected
<1>16. CASE UNCHANGED vars
  BY <1>16 DEF vars, Answerable, isConnected
<1> QED BY <1>3, <1>4, <1>5, <1>6, <1>7, <1>9, <1>10, <1>11, <1>12, <1>13,
           <1>14, <1>15, <1>16 DEF Next, Program, Library, Resolve, Peer

\* Single and Answerable together are an invariant.
LEMMA SafeAnswers ==
  ASSUME Disciplined, EnableReconnect
  PROVE  Safety => [](Single /\ Answerable)
<1>1. Init => Single /\ Answerable
  <2> SUFFICES ASSUME Init PROVE Single /\ Answerable
    OBVIOUS
  <2>1. Single /\ Absent(stack, IdlePoint)
    BY InitSingle, Occurrences DEF Init, IdlePoint
  <2> QED BY <2>1 DEF Init, isConnected, Answerable
<1>2. TypeOK /\ Single /\ Answerable /\ [Next]_vars => (Single /\ Answerable)'
  BY SingleStep, AnswerableStep
<1> QED BY <1>1, <1>2, SafeTypes, PTL DEF Safety

\* AlwaysTold without fairness.
LEMMA SafeTold ==
  ASSUME Disciplined
  PROVE  Safety => []NeverSilent
<1>1. CASE EnableReconnect
  <2>1. Answerable => NeverSilent
    BY DEF Answerable, NeverSilent, EventLoop, Absent
  <2> QED BY <1>1, <2>1, SafeAnswers, PTL
<1>2. CASE ~EnableReconnect
  <2>1. NeverSilent
    BY <1>2 DEF NeverSilent
  <2> QED BY <2>1, PTL
<1> QED BY <1>1, <1>2

\* A program that leaves reconnecting to the ticker is told of every end: the
\* event loop never waits for nothing after a loss, whatever callbacks stop,
\* throw and connect again.
THEOREM AlwaysTold ==
  ASSUME Disciplined
  PROVE  Spec => []NeverSilent
BY SafeTold, PTL DEF Spec

-----------------------------------------------------------------------------
(* The promise of AutoReconnect.                                           *)

Dialling == {"connectInternal"}

\* The phase before and after a step.
LEMMA PhaseIs ==
  ASSUME EnableReconnect
  PROVE  /\ phaseBar = IF isConnected THEN "up"
                       ELSE IF pending > 0 \/ ~Absent(stack, Dialling)
                         THEN "connecting"
                       ELSE IF ~Absent(stack, Retrying) THEN "lost" ELSE "off"
         /\ phaseBar' = IF isConnected' THEN "up"
                        ELSE IF pending' > 0 \/ ~Absent(stack', Dialling)
                          THEN "connecting"
                        ELSE IF ~Absent(stack', Retrying) THEN "lost" ELSE "off"
BY DEF phaseBar, OnStack, Absent, Retrying, Dialling, isConnected

\* A handler of which every point of Solo is the head: what is behind it
\* counts for nothing, and nothing is connected.
LEMMA LiveHead ==
  ASSUME TypeOK, Single, stack # <<>>,
         Head(stack) \in Live \/ (Head(stack) \in Solo /\ ~isConnected),
         EnableReconnect
  PROVE  /\ ~isConnected /\ open = {} /\ pending = 0
         /\ \A P : P \subseteq Live /\ Head(stack) \notin P => Absent(stack, P)
         /\ \A P : Head(stack) \in P => ~Absent(stack, P)
         /\ \A seq \in Seq(Points) : \A P :
               P \subseteq Live /\ Continue(seq)
                 => (Absent(stack', P) <=> Absent(seq, P))
<1>0. stack \in Seq(Points) /\ AtMostOnce(stack, Solo)
  BY DEF TypeOK, Single
<1>1. /\ stack \in Seq(Points) /\ Head(stack) = stack[1]
      /\ 1 \in 1..Len(stack) /\ AtMostOnce(stack, Solo)
      /\ Live \subseteq Solo /\ Head(stack) \in Solo
  <2>1. Live \subseteq Solo
    BY DEF Solo
  <2>2. Head(stack) = stack[1] /\ 1 \in 1..Len(stack)
    BY <1>0, EmptySeq, LenProperties
  <2> QED BY <1>0, <2>1, <2>2
<1>2. ~isConnected /\ open = {} /\ pending = 0
  <2>1. CASE Head(stack) \in Live
    <3>1. ~Absent(stack, Live)
      BY <1>1, <2>1 DEF Absent
    <3>2. open = {} /\ pending = 0
      BY <3>1 DEF Single, TypeOK
    <3> QED BY <3>2 DEF Single, ConnectedIffOpen
  <2>2. CASE Head(stack) \notin Live /\ ~isConnected
    <3>1. Head(stack) \in Own
      BY <1>1, <2>2 DEF Solo, Own
    <3>2. ~Absent(stack, Own)
      BY <1>1, <3>1 DEF Absent
    <3>3. pending = 0
      BY <3>2 DEF Single, TypeOK
    <3>4. open = {}
      BY <2>2 DEF Single, ConnectedIffOpen
    <3> QED BY <2>2, <3>3, <3>4
  <2> QED BY <2>1, <2>2
<1>3. ASSUME NEW P, P \subseteq Live, Head(stack) \notin P
      PROVE  Absent(stack, P)
  BY <1>1, <1>3 DEF AtMostOnce, Absent
<1>4. ASSUME NEW P, Head(stack) \in P PROVE ~Absent(stack, P)
  BY <1>1, <1>4 DEF Absent
<1>5. ASSUME NEW seq \in Seq(Points), NEW P, P \subseteq Live, Continue(seq)
      PROVE  Absent(stack', P) <=> Absent(seq, P)
  BY <1>1, <1>5, BehindHead DEF Continue
<1> QED BY <1>2, <1>3, <1>4, <1>5

\* Points outside Retrying come and go without the phase.
LEMMA OtherHead ==
  ASSUME TypeOK, stack # <<>>, Head(stack) \notin Retrying,
         NEW seq \in Seq(Points), Absent(seq, Retrying), Continue(seq),
         NEW P, P \subseteq Retrying
  PROVE  Absent(stack', P) <=> Absent(stack, P)
<1>1. stack \in Seq(Points) /\ stack' = seq \o Tail(stack)
  BY DEF TypeOK, Continue
<1>2. Absent(seq, P) /\ Head(stack) \notin P
  BY DEF Absent
<1> QED BY <1>1, <1>2, ReplaceHead, BehindHead

LEMMA PromiseStep ==
  ASSUME Disciplined, EnableReconnect, TypeOK, Single, Answerable, [Next]_vars
  PROVE  [Promise!Next]_(Promise!vars)
<1>0. /\ <<>> \in Seq(Points) /\ Absent(<<>>, Retrying)
      /\ <<"connectInternal">> \in Seq(Points) /\ Attempt \in Seq(Points)
      /\ <<"onReconnectFail", "reconnectingDone">> \in Seq(Points)
      /\ Dialling \subseteq Retrying /\ Retrying \subseteq Live
      /\ reconnectTries \in Nat /\ MaxReconnectTries \in Nat
      /\ pending \in Nat
  BY PointsAreNamed, Tuples, ConstantsAssumption
     DEF TypeOK, Absent, Attempt, Dialling, Retrying, Live
<1>1. ASSUME phaseBar' = phaseBar, UNCHANGED reconnectTries
      PROVE  UNCHANGED Promise!vars
  BY <1>1 DEF Promise!vars, retriesBar
\* A handler goes on without a point of Retrying.
<1>2. ASSUME stack # <<>>, Head(stack) \notin Retrying, Continue(<<>>),
             UNCHANGED <<ws, pending, reconnectTries>>
      PROVE  UNCHANGED Promise!vars
  <2>1. /\ Absent(stack', Dialling) <=> Absent(stack, Dialling)
        /\ Absent(stack', Retrying) <=> Absent(stack, Retrying)
    BY <1>0, <1>2, OtherHead
  <2>2. phaseBar' = phaseBar
    BY <1>2, <2>1, PhaseIs DEF isConnected
  <2> QED BY <1>1, <1>2, <2>2
<1>3. CASE Connect
  <2>1. /\ stack # <<>> /\ Continue(<<"connectInternal">>)
        /\ Head(stack) \in Live \/ (Head(stack) \in Solo /\ ~isConnected)
        /\ Head(stack) \notin Retrying
        /\ UNCHANGED <<ws, pending, reconnectTries>>
    BY <1>3 DEF Connect, state, Solo, Live, Retrying, Disciplined
  <2>2. phaseBar = "off"
    BY <1>0, <2>1, LiveHead, PhaseIs
  <2>3. ~Absent(<<"connectInternal">>, Dialling)
    BY DEF Absent, Dialling
  <2>4. phaseBar' = "connecting"
    BY <1>0, <2>1, <2>3, LiveHead, PhaseIs DEF isConnected
  <2> QED BY <2>1, <2>2, <2>4 DEF Promise!Next, Promise!Start, retriesBar
<1>4. CASE Stop
  <2>1. CASE isConnected
    <3>1. open = {ws} /\ pending = 0 /\ Absent(stack, Live)
      BY <2>1 DEF Single, ConnectedIffOpen, OneConnection, TypeOK
    <3>2. /\ stack' = <<"onClose">> \o stack /\ ws' = None /\ pending' = pending
          /\ UNCHANGED reconnectTries
      BY <1>4, <2>1 DEF Stop, Disconnect, DisconnectionHandler
    <3>3. Absent(stack', Retrying)
      <4>1. <<"onClose">> \in Seq(Points) /\ stack \in Seq(Points)
        BY PointsAreNamed, Tuples DEF TypeOK
      <4>2. /\ Len(stack') = 1 + Len(stack) /\ Len(stack) \in Nat
            /\ \A i \in 1..Len(stack') :
                  stack'[i] = IF i <= 1 THEN "onClose" ELSE stack[i - 1]
        BY <3>2, <4>1, ConcatProperties, LenProperties
      <4>3. Absent(stack, Retrying) /\ "onClose" \notin Retrying
        BY <1>0, <3>1 DEF Absent, Retrying
      <4> QED BY <4>2, <4>3 DEF Absent
    <3>4. Absent(stack', Dialling)
      BY <1>0, <3>3 DEF Absent
    <3>5. phaseBar = "up" /\ phaseBar' = "off"
      BY <2>1, <3>1, <3>2, <3>3, <3>4, PhaseIs DEF isConnected
    <3> QED BY <3>2, <3>5 DEF Promise!Next, Promise!Close, retriesBar
  <2>2. CASE ~isConnected
    <3>1. UNCHANGED <<ws, pending, stack, reconnectTries>>
      BY <1>4, <2>2 DEF Stop, state
    <3> QED BY <1>1, <3>1, PhaseIs DEF isConnected
  <2> QED BY <2>1, <2>2
<1>5. CASE Throw
  <2>1. stack' = <<"escaped">> /\ UNCHANGED <<ws, pending, reconnectTries>>
    BY <1>5 DEF Throw, state
  <2>2. Absent(stack', Retrying) /\ Absent(stack', Dialling)
    BY <2>1, Occurrences DEF Retrying, Dialling
  <2>3. phaseBar' = phaseBar \/ (phaseBar \in {"connecting", "lost"} /\ phaseBar' = "off")
    BY <1>0, <2>1, <2>2, PhaseIs DEF isConnected
  <2> QED BY <1>1, <2>1, <2>3 DEF Promise!Next, Promise!Abandon, retriesBar
<1>6. CASE Rerun \/ Return \/ ReconnectingDone
  <2>1. /\ stack # <<>> /\ Continue(<<>>)
        /\ UNCHANGED <<ws, pending, reconnectTries>>
        /\ Head(stack) \notin Retrying
    BY <1>6 DEF Rerun, Return, ReconnectingDone, At, state, Callbacks, Retrying
  <2> QED BY <1>2, <2>1
<1>7. CASE ConnectInternal
  <2>1. /\ stack # <<>> /\ Head(stack) \in Dialling /\ Head(stack) \in Live
        /\ UNCHANGED <<ws, reconnectTries>>
    BY <1>0, <1>7 DEF ConnectInternal, At, state, Dialling
  <2>2. phaseBar = "connecting" /\ pending = 0 /\ ~isConnected
    BY <2>1, LiveHead, PhaseIs
  <2>3. CASE pending' = pending + 1
    <3>1. phaseBar' = "connecting"
      BY <2>1, <2>2, <2>3, PhaseIs DEF isConnected
    <3> QED BY <1>1, <2>1, <2>2, <3>1
  <2>4. CASE Continue(ErrorHandler) /\ UNCHANGED pending
    <3>1. Absent(ErrorHandler, Dialling) /\ ~Absent(ErrorHandler, Retrying)
      BY HandlersTryAgain, Occurrences DEF ErrorHandler, Dialling
    <3>2. Absent(stack', Dialling) /\ ~Absent(stack', Retrying)
      BY <1>0, <2>1, <2>4, <3>1, LiveHead, HandlersAreSequences
    <3>3. phaseBar' = "lost"
      BY <2>1, <2>2, <2>4, <3>2, PhaseIs DEF isConnected
    <3> QED BY <2>1, <2>2, <3>3 DEF Promise!Next, Promise!Fail, retriesBar
  <2> QED BY <1>7, <2>3, <2>4 DEF ConnectInternal
\* reconnect() is a retry, or gives up.
<1>8. ASSUME stack # <<>>, Head(stack) \in Retrying \ Dialling, reconnect,
             UNCHANGED <<ws, pending>>
      PROVE  Promise!Next
  <2>1. phaseBar = "lost" /\ pending = 0 /\ ~isConnected
    BY <1>0, <1>8, LiveHead, PhaseIs
  <2>2. CASE reconnectTries + 1 <= MaxReconnectTries
    <3>1. Continue(Attempt) /\ reconnectTries' = reconnectTries + 1
      BY <1>8, <2>1, <2>2 DEF reconnect, BudgetLeft
    <3>2. ~Absent(Attempt, Dialling)
      <4>1. Attempt[2] = "connectInternal" /\ 2 \in 1..Len(Attempt)
        BY DEF Attempt
      <4> QED BY <4>1 DEF Absent, Dialling
    <3>3. ~Absent(stack', Dialling)
      BY <1>0, <1>8, <3>1, <3>2, LiveHead
    <3>4. phaseBar' = "connecting"
      BY <1>8, <2>1, <3>3, PhaseIs DEF isConnected
    <3>5. retriesBar < MaxReconnectTries /\ retriesBar' = retriesBar + 1
      BY <1>0, <2>2, <3>1 DEF retriesBar
    <3> QED BY <2>1, <3>4, <3>5 DEF Promise!Next, Promise!Retry
  <2>3. CASE ~(reconnectTries + 1 <= MaxReconnectTries)
    <3>1. /\ Continue(<<"onReconnectFail", "reconnectingDone">>)
          /\ reconnectTries' = reconnectTries + 1
      BY <1>8, <2>1, <2>3 DEF reconnect, BudgetLeft
    <3>2. /\ Absent(<<"onReconnectFail", "reconnectingDone">>, Dialling)
          /\ Absent(<<"onReconnectFail", "reconnectingDone">>, Retrying)
      BY HandlersTryAgain, Occurrences DEF Dialling
    <3>3. Absent(stack', Dialling) /\ Absent(stack', Retrying)
      BY <1>0, <1>8, <3>1, <3>2, LiveHead
    <3>4. phaseBar' = "off"
      BY <1>8, <2>1, <3>3, PhaseIs DEF isConnected
    <3>5. retriesBar = MaxReconnectTries /\ retriesBar' = retriesBar
      BY <1>0, <2>3, <3>1 DEF retriesBar
    <3> QED BY <2>1, <3>4, <3>5 DEF Promise!Next, Promise!GiveUp
  <2> QED BY <2>2, <2>3
<1>9. CASE ReconnectIfEnabled
  <2>1. "reconnectIfEnabled" \in Retrying \ Dialling
    BY DEF Retrying, Dialling
  <2> QED BY <1>8, <1>9, <2>1 DEF ReconnectIfEnabled, At
<1>10. CASE ReconnectIfIdle
  <2>1. "reconnectIfIdle" \in Retrying \ Dialling /\ At("reconnectIfIdle")
    BY <1>10 DEF ReconnectIfIdle, Retrying, Dialling
  <2>2. ~isReconnecting
    <3>1. stack # <<>> /\ Head(stack) \in Live /\ Head(stack) \in IdlePoint
      BY <1>0, <2>1 DEF At, IdlePoint
    <3>2. ~Absent(stack, IdlePoint)
      BY <3>1, LiveHead
    <3> QED BY <3>2 DEF Answerable
  <2> QED BY <1>8, <1>10, <2>1, <2>2 DEF ReconnectIfIdle, At
<1>11. CASE CloseIfConnected
  <2>1. At("closeIfConnected") /\ stack # <<>>
    BY <1>11 DEF CloseIfConnected, At
  <2>2. ~isConnected
    <3>1. ~Absent(stack, {"closeIfConnected"})
      BY <2>1, EmptySeq, LenProperties DEF Absent, At, TypeOK
    <3> QED BY <3>1 DEF Single, ConnectedIffOpen
  <2>3. Head(stack) \notin Retrying
    BY <2>1 DEF At, Retrying
  <2>4. Continue(<<>>) /\ UNCHANGED <<ws, pending, reconnectTries>>
    BY <1>11, <2>2 DEF CloseIfConnected, state
  <2> QED BY <1>2, <2>1, <2>3, <2>4
<1>12. ASSUME NEW s \in Sockets, Established(s) PROVE Promise!Next
  <2>1. pending > 0 /\ ~isConnected
    BY <1>12 DEF Established, Single, OneConnection, ConnectedIffOpen, TypeOK
  <2>2. isConnected' /\ reconnectTries' = 0
    BY <1>12, ConstantsAssumption DEF Established, ResetBackoff, isConnected
  <2>3. phaseBar = "connecting" /\ phaseBar' = "up" /\ retriesBar' = 0
    BY <1>0, <2>1, <2>2, PhaseIs DEF retriesBar
  <2> QED BY <2>3 DEF Promise!Next, Promise!Establish
<1>13. CASE AttemptFails
  <2>1. /\ pending = 1 /\ ~isConnected /\ pending' = 0 /\ stack' = ErrorHandler
        /\ UNCHANGED <<ws, reconnectTries>>
    BY <1>13 DEF AttemptFails, Single, OneConnection, ConnectedIffOpen,
                 TypeOK, state
  <2>2. Absent(ErrorHandler, Dialling) /\ ~Absent(ErrorHandler, Retrying)
    BY HandlersTryAgain, Occurrences DEF ErrorHandler, Dialling
  <2>3. phaseBar = "connecting" /\ phaseBar' = "lost"
    BY <2>1, <2>2, PhaseIs DEF isConnected
  <2> QED BY <2>1, <2>3 DEF Promise!Next, Promise!Fail, retriesBar
<1>14. ASSUME NEW s \in Sockets, NEW code \in Codes, Closed(s, code)
       PROVE  Promise!Next
  <2>1. isConnected /\ pending = 0 /\ ~isConnected' /\ pending' = 0
    BY <1>14 DEF Closed, Disconnect, Single, OneConnection, ConnectedIffOpen,
                 TypeOK, isConnected
  <2>2. stack' = DisconnectionHandler(code) /\ UNCHANGED reconnectTries
    BY <1>14 DEF Closed, Disconnect
  <2>3. CASE code = "NORMAL_CLOSURE"
    <3>1. stack' = <<"onClose">>
      BY <2>2, <2>3 DEF DisconnectionHandler
    <3>2. Absent(stack', Dialling) /\ Absent(stack', Retrying)
      BY <3>1, Occurrences DEF Dialling, Retrying
    <3>3. phaseBar = "up" /\ phaseBar' = "off"
      BY <2>1, <3>2, PhaseIs
    <3> QED BY <2>2, <3>3 DEF Promise!Next, Promise!Close, retriesBar
  <2>4. CASE code # "NORMAL_CLOSURE"
    <3>1. stack' = DisconnectionHandler("NO_REASON")
      BY <2>2, <2>4 DEF Codes
    <3>2. stack' = <<"onError", "onClose", "reconnectIfIdle">>
      BY <3>1 DEF DisconnectionHandler
    <3>3. Absent(stack', Dialling) /\ ~Absent(stack', Retrying)
      BY <3>1, <3>2, HandlersTryAgain, Occurrences DEF Dialling
    <3>4. phaseBar = "up" /\ phaseBar' = "lost"
      BY <2>1, <3>3, PhaseIs
    <3> QED BY <2>2, <3>4 DEF Promise!Next, Promise!Lose, retriesBar
  <2> QED BY <2>3, <2>4
<1>15. ASSUME NEW point \in {"onTicks", "onError", "escaped"}, Message(point)
       PROVE  UNCHANGED Promise!vars
  <2>1. isConnected /\ isConnected' /\ UNCHANGED reconnectTries
    BY <1>15 DEF Message, state, Single, ConnectedIffOpen, isConnected
  <2> QED BY <1>1, <2>1, PhaseIs
<1>16. CASE UNCHANGED vars
  <2>1. UNCHANGED <<ws, pending, stack, reconnectTries>>
    BY <1>16 DEF vars
  <2> QED BY <1>1, <2>1, PhaseIs DEF isConnected
<1> QED BY <1>3, <1>4, <1>5, <1>6, <1>7, <1>9, <1>10, <1>11, <1>12, <1>13,
           <1>14, <1>15, <1>16 DEF Next, Program, Library, Resolve, Peer

\* PromiseIsKept without fairness.
LEMMA SafePromise ==
  ASSUME Disciplined, EnableReconnect
  PROVE  Safety => Promise!Safety
<1>1. Init => Promise!Init
  <2> SUFFICES ASSUME Init PROVE phaseBar = "off" /\ retriesBar = 0
    BY DEF Promise!Init
  <2>1. Absent(stack, Dialling) /\ Absent(stack, Retrying)
    BY Occurrences DEF Init, Dialling, Retrying
  <2>2. phaseBar = "off"
    BY <2>1, PhaseIs DEF Init, isConnected
  <2> QED BY <2>2, ConstantsAssumption DEF Init, retriesBar
<1>2. TypeOK /\ Single /\ Answerable /\ [Next]_vars
        => [Promise!Next]_(Promise!vars)
  BY PromiseStep
<1> QED BY <1>1, <1>2, SafeTypes, SafeAnswers, PTL
        DEF Safety, Promise!Safety

\* The handlers implement the promise of automatic reconnection step by step:
\* one attempt at a time, retries counted from the last connection and within
\* their budget, giving up only when it is used up.  (That a retry is made and
\* an attempt ends is KeepsPromise, for TLC.)
THEOREM PromiseIsKept ==
  ASSUME Disciplined, EnableReconnect
  PROVE  Spec => Promise!Safety
BY SafePromise, PTL DEF Spec

=============================================================================
