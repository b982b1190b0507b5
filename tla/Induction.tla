----------------------------- MODULE Induction -----------------------------
(***************************************************************************)
(* Induction over the natural numbers without a predicate as a parameter:  *)
(* a set of numbers that is not all of them leaves out a least one.  This  *)
(* is what lets the provers reason about functions that are defined by     *)
(* recursion, and about FlattenSeq, which is defined by one.               *)
(***************************************************************************)
EXTENDS Naturals, SequencesExt, WellFoundedInduction, TLAPS

\* A set of natural numbers that is not empty has a least element.
LEMMA LeastNumber ==
  ASSUME NEW T \in SUBSET Nat, T # {}
  PROVE  \E n \in T : \A m \in T : n <= m
<1> DEFINE R == OpToRel(<, Nat)
<1>1. IsWellFoundedOn(R, Nat)
  BY NatLessThanWellFounded
<1>2. \A m \in Nat, n \in Nat : m < n => <<m, n>> \in R
  BY DEF OpToRel
<1> HIDE DEF R
<1>3. PICK n \in T : \A m \in T : ~(<<m, n>> \in R)
  BY <1>1, WFMin
<1>4. \A m \in T : ~(m < n)
  BY <1>2, <1>3
<1> QED BY <1>4

\* A set that has m, and with every number from m to below n the next one, has
\* all from m to n.
LEMMA FromTo ==
  ASSUME NEW m \in Nat, NEW n \in Nat, NEW T, m \in T,
         \A k \in m..(n - 1) : k \in T => k + 1 \in T
  PROVE  \A k \in m..n : k \in T
<1> DEFINE missing == {k \in m..n : k \notin T}
<1> SUFFICES ASSUME missing # {} PROVE FALSE
  OBVIOUS
<1>1. missing \in SUBSET Nat
  OBVIOUS
<1>2. PICK k \in missing : \A l \in missing : k <= l
  BY <1>1, LeastNumber
<1>3. k - 1 \in m..(n - 1) /\ k - 1 \in T
  BY <1>2
<1>4. (k - 1) + 1 = k
  BY <1>3
<1> QED BY <1>2, <1>3, <1>4

-----------------------------------------------------------------------------
(* Sequences joined to one.                                                *)

\* The sequences of seqs joined up to each of them, as FlattenSeq does it.
Joined(seqs) ==
  LET flatten[i \in 1..Len(seqs)] ==
        IF i = 1 THEN seqs[i] ELSE flatten[i - 1] \o seqs[i]
  IN  flatten

\* One turn of FlattenSeq, from what is joined before it.
JoinTurn(seqs, joined, i) == IF i = 1 THEN seqs[i] ELSE joined[i - 1] \o seqs[i]

\* FlattenSeq's recursion defines a function, whatever the sequences are.
LEMMA JoinedIsDefined ==
  ASSUME NEW seqs, NEW n \in Nat, Len(seqs) = n
  PROVE  /\ Joined(seqs) = [i \in 1..n |-> JoinTurn(seqs, Joined(seqs), i)]
         /\ n > 0 => FlattenSeq(seqs) = Joined(seqs)[n]
<1> DEFINE Defines(g, k) == g = [i \in 1..k |-> JoinTurn(seqs, g, i)]
           T == {k \in Nat : \E g : Defines(g, k)}
<1>1. 0 \in T
  <2>1. Defines(<<>>, 0)
    OBVIOUS
  <2> QED BY <2>1
<1>2. ASSUME NEW k \in 0..(n - 1), k \in T
      PROVE  k + 1 \in T
  <2>1. PICK g : Defines(g, k)
    BY <1>2
  <2> DEFINE h == [i \in 1..(k + 1) |-> IF i = k + 1 THEN JoinTurn(seqs, g, i) ELSE g[i]]
  <2>2. ASSUME NEW i \in 1..(k + 1) PROVE h[i] = JoinTurn(seqs, h, i)
    <3>1. i # 1 => i - 1 \in 1..k /\ h[i - 1] = g[i - 1]
      OBVIOUS
    <3>2. JoinTurn(seqs, h, i) = JoinTurn(seqs, g, i)
      BY <3>1 DEF JoinTurn
    <3>3. i # k + 1 => i \in 1..k
      OBVIOUS
    <3>4. i \in 1..k => g[i] = JoinTurn(seqs, g, i)
      BY <2>1
    <3> QED BY <3>2, <3>3, <3>4
  <2>3. Defines(h, k + 1)
    BY <2>2
  <2>4. \E f : Defines(f, k + 1)
    <3> HIDE DEF h, Defines
    <3> QED BY <2>3
  <2> QED BY <2>4
<1>3. n \in T
  <2> HIDE DEF T
  <2>1. \A k \in 0..n : k \in T
    BY <1>1, <1>2, FromTo
  <2> QED BY <2>1
<1>4. PICK g : Defines(g, n)
  BY <1>3
<1>5. Joined(seqs) = [i \in 1..n |-> JoinTurn(seqs, Joined(seqs), i)]
  BY <1>4 DEF Joined, JoinTurn
<1>6. n > 0 => FlattenSeq(seqs) = Joined(seqs)[n]
  BY DEF FlattenSeq, Joined
<1> QED BY <1>5, <1>6

\* Two sequences joined: their elements, one after the other.
Joins(S, a, b) ==
  /\ a \o b \in Seq(S)
  /\ Len(a \o b) = Len(a) + Len(b)
  /\ Len(a) \in Nat /\ Len(b) \in Nat
  /\ \A x \in 1..Len(a) : (a \o b)[x] = a[x]
  /\ \A x \in 1..Len(b) : (a \o b)[Len(a) + x] = b[x]

\* This is so of any two.
LEMMA Join ==
  ASSUME NEW S, NEW a \in Seq(S), NEW b \in Seq(S)
  PROVE  Joins(S, a, b)
<1>1. /\ a \o b \in Seq(S) /\ Len(a \o b) = Len(a) + Len(b)
      /\ Len(a) \in Nat /\ Len(b) \in Nat
  OBVIOUS
<1>2. \A x \in 1..Len(a) : (a \o b)[x] = a[x]
  OBVIOUS
<1>3. ASSUME NEW x \in 1..Len(b) PROVE (a \o b)[Len(a) + x] = b[x]
  OBVIOUS
<1> QED BY <1>1, <1>2, <1>3 DEF Joins

\* The recursion, one turn at a time.
LEMMA JoinedTurns ==
  ASSUME NEW n \in Nat \ {0}, NEW seqs, Len(seqs) = n
  PROVE  /\ Joined(seqs)[1] = seqs[1]
         /\ \A i \in 1..(n - 1) : Joined(seqs)[i + 1] = Joined(seqs)[i] \o seqs[i + 1]
<1> DEFINE J == Joined(seqs)
<1>1. \A i \in 1..n : J[i] = JoinTurn(seqs, J, i)
  BY JoinedIsDefined
<1> HIDE DEF J
<1>2. J[1] = JoinTurn(seqs, J, 1)
  BY <1>1
<1>3. ASSUME NEW i \in 1..(n - 1) PROVE J[i + 1] = J[i] \o seqs[i + 1]
  <2>1. i + 1 \in 1..n /\ i + 1 # 1 /\ (i + 1) - 1 = i
    OBVIOUS
  <2>2. J[i + 1] = JoinTurn(seqs, J, i + 1)
    BY <1>1, <2>1
  <2> QED BY <2>1, <2>2 DEF JoinTurn
<1>4. J[1] = seqs[1]
  BY <1>2 DEF JoinTurn
<1> QED BY <1>3, <1>4 DEF J

\* Each of n sequences begins as those before it do.
Grows(S, joined, n) ==
  \A i \in 1..n :
     /\ joined[i] \in Seq(S)
     /\ Len(joined[i]) <= Len(joined[n])
     /\ \A x \in 1..Len(joined[i]) : joined[n][x] = joined[i][x]

\* What is joined is a sequence, and begins with what was joined before.
LEMMA JoinedGrows ==
  ASSUME NEW S, NEW n \in Nat \ {0}, NEW seqs, Len(seqs) = n,
         \A i \in 1..n : seqs[i] \in Seq(S)
  PROVE  Grows(S, Joined(seqs), n)
<1> DEFINE J == Joined(seqs)
<1>1. /\ J[1] = seqs[1]
      /\ \A i \in 1..(n - 1) : J[i + 1] = J[i] \o seqs[i + 1]
  BY JoinedTurns
<1> HIDE DEF J
<1>2. \A i \in 1..n : J[i] \in Seq(S)
  <2> DEFINE T == {i \in 1..n : J[i] \in Seq(S)}
  <2>1. 1 \in T
    BY <1>1
  <2>2. ASSUME NEW i \in 1..(n - 1), i \in T PROVE i + 1 \in T
    <3>1. i + 1 \in 1..n
      OBVIOUS
    <3>2. J[i + 1] = J[i] \o seqs[i + 1]
      BY <1>1
    <3>3. J[i] \in Seq(S) /\ seqs[i + 1] \in Seq(S)
      BY <2>2, <3>1
    <3>4. J[i] \o seqs[i + 1] \in Seq(S)
      BY <3>3, Join DEF Joins
    <3> QED BY <3>1, <3>2, <3>4
  <2> HIDE DEF T
  <2>3. \A i \in 1..n : i \in T
    BY <2>1, <2>2, FromTo
  <2> QED BY <2>3 DEF T
<1>3. ASSUME NEW i \in 1..n
      PROVE  /\ Len(J[i]) <= Len(J[n])
             /\ \A x \in 1..Len(J[i]) : J[n][x] = J[i][x]
  <2> DEFINE Extends(j) == /\ Len(J[i]) <= Len(J[j])
                           /\ \A x \in 1..Len(J[i]) : J[j][x] = J[i][x]
             T == {j \in i..n : Extends(j)}
  <2>1. i \in T
    BY <1>2
  <2>2. ASSUME NEW j \in i..(n - 1), j \in T PROVE j + 1 \in T
    <3>1. j \in 1..(n - 1) /\ j \in 1..n /\ j + 1 \in 1..n /\ j + 1 \in i..n
      OBVIOUS
    <3>2. J[j + 1] = J[j] \o seqs[j + 1]
      BY <1>1, <3>1
    <3>3. J[j] \in Seq(S) /\ seqs[j + 1] \in Seq(S) /\ J[i] \in Seq(S)
      BY <1>2, <3>1
    <3>4. /\ Len(J[j + 1]) = Len(J[j]) + Len(seqs[j + 1])
          /\ Len(J[j]) \in Nat /\ Len(seqs[j + 1]) \in Nat /\ Len(J[i]) \in Nat
          /\ \A x \in 1..Len(J[j]) : J[j + 1][x] = J[j][x]
      <4>1. Joins(S, J[j], seqs[j + 1])
        BY <3>3, Join
      <4>2. Len(J[i]) \in Nat
        BY <3>3
      <4> QED BY <4>1, <4>2, <3>2 DEF Joins
    <3>5. /\ Len(J[i]) <= Len(J[j])
          /\ \A x \in 1..Len(J[i]) : J[j][x] = J[i][x]
      BY <2>2
    <3>6. Extends(j + 1)
      <4>1. ASSUME NEW x \in 1..Len(J[i]) PROVE J[j + 1][x] = J[i][x]
        <5>1. x \in 1..Len(J[j])
          BY <3>4, <3>5
        <5> QED BY <3>4, <3>5, <5>1
      <4>2. Len(J[i]) <= Len(J[j + 1])
        <5>1. \A a, b, c \in Nat : a <= b => a <= b + c
          OBVIOUS
        <5>2. Len(J[i]) <= Len(J[j]) + Len(seqs[j + 1])
          BY <3>4, <3>5, <5>1, Zenon
        <5> QED BY <3>4, <5>2, Zenon
      <4> QED BY <4>1, <4>2
    <3> HIDE DEF Extends
    <3> QED BY <3>1, <3>6
  <2>3. n \in T
    <3> HIDE DEF T
    <3>1. i \in Nat /\ n \in i..n
      OBVIOUS
    <3>2. \A j \in i..n : j \in T
      BY <2>1, <2>2, <3>1, FromTo
    <3> QED BY <3>1, <3>2
  <2> QED BY <2>3
<1> QED BY <1>2, <1>3 DEF J, Grows

=============================================================================
