-------------------------- MODULE EndpointsProofs --------------------------
(***************************************************************************)
(* Proofs about Endpoints, Parameters and Symbols: what a program passes   *)
(* is in the request it makes, for lists of any length and whatever is in  *)
(* the arguments.                                                          *)
(***************************************************************************)
EXTENDS Endpoints, Induction

-----------------------------------------------------------------------------
(* Symbols.                                                                *)

\* Percent-encoding of one character.
Code(char) == CASE char = "&" -> "%26"
                [] char = ":" -> "%3A"
                [] char = "=" -> "%3D"
                [] OTHER      -> char

\* What a query is made of.
Letters == STRING \cup Escapes \cup {"i", "=", ":", "&"}

\* A symbol with an exchange; an escape is no character.
Clean(symbol) ==
  /\ symbol \in Seq(STRING) /\ Has(symbol)
  /\ \A i \in DOMAIN symbol : symbol[i] \notin Escapes

\* No character is encoded as the end of a symbol, nor two as the same.
LEMMA CodeTells ==
  /\ \A char : Code(char) # "&"
  /\ \A a, b : a \notin Escapes /\ b \notin Escapes /\ Code(a) = Code(b) => a = b
<1>1. \A char : Code(char) # "&"
  BY DEF Code
<1>2. \A a, b : a \notin Escapes /\ b \notin Escapes /\ Code(a) = Code(b) => a = b
  BY DEF Code, Escapes
<1> QED BY <1>1, <1>2

\* The first colon.
IsColon(symbol, c) ==
  /\ c \in 1..Len(symbol) /\ symbol[c] = ":"
  /\ \A j \in 1..(c - 1) : symbol[j] # ":"

\* A symbol with an exchange has one.
LEMMA ColonPos ==
  ASSUME NEW symbol, Clean(symbol)
  PROVE  IsColon(symbol, colonPos(symbol))
<1>1. symbol \in Seq(STRING) /\ Len(symbol) \in Nat /\ DOMAIN symbol = 1..Len(symbol)
  BY DEF Clean
<1> DEFINE colons == {i \in 1..Len(symbol) : symbol[i] = ":"}
<1>2. colons \in SUBSET Nat /\ colons # {}
  BY <1>1 DEF Clean, Has
<1>3. PICK c \in colons : \A i \in colons : c <= i
  BY <1>2, LeastNumber
<1>4. \A j \in 1..(c - 1) : symbol[j] # ":"
  BY <1>1, <1>3
<1>5. \E i \in DOMAIN symbol :
         symbol[i] = ":" /\ \A j \in 1..(i - 1) : symbol[j] # ":"
  BY <1>1, <1>3, <1>4
<1>6. /\ colonPos(symbol) \in DOMAIN symbol
      /\ symbol[colonPos(symbol)] = ":"
      /\ \A j \in 1..(colonPos(symbol) - 1) : symbol[j] # ":"
  BY <1>5 DEF colonPos
<1> QED BY <1>1, <1>6 DEF IsColon

\* What a symbol with its first colon at c becomes, character by character.
Spelt(symbol, c, text) ==
  /\ text \in Seq(Letters)
  /\ Len(text) = Len(symbol) + 3
  /\ text[1] = "i" /\ text[2] = "="
  /\ \A x \in 1..c : text[x + 2] = symbol[x]
  /\ \A x \in (c + 1)..Len(symbol) : text[x + 2] = Code(symbol[x])
  /\ text[Len(symbol) + 3] = "&"

\* One turn of the loop spells the symbol.
LEMMA EncodedIsSpelt ==
  ASSUME NEW symbol, Clean(symbol)
  PROVE  Spelt(symbol, colonPos(symbol), Encoded(symbol))
<1> DEFINE c == colonPos(symbol)
           L == Len(symbol)
           exchange == Exchange(symbol)
           ticker == encodeUrl(TickerName(symbol))
<1>1. /\ symbol \in Seq(STRING) /\ L \in Nat /\ DOMAIN symbol = 1..L
      /\ \A i \in 1..L : symbol[i] \in Letters
  BY DEF Clean, Letters
<1>2. c \in 1..L /\ symbol[c] = ":"
  BY ColonPos DEF IsColon
<1> HIDE DEF c
<1>3. /\ exchange \in Seq(Letters) /\ Len(exchange) = c - 1
      /\ \A x \in 1..(c - 1) : exchange[x] = symbol[x]
  BY <1>1, <1>2 DEF Exchange, c
<1>4. /\ Len(TickerName(symbol)) = L - c
      /\ DOMAIN TickerName(symbol) = 1..(L - c)
      /\ \A y \in 1..(L - c) : TickerName(symbol)[y] = symbol[c + y]
  BY <1>1, <1>2 DEF TickerName, c
<1>5. /\ ticker \in Seq(Letters) /\ Len(ticker) = L - c
      /\ \A y \in 1..(L - c) : ticker[y] = Code(symbol[c + y])
  <2>1. \A char \in Letters : Code(char) \in Letters
    BY DEF Code, Letters, Escapes
  <2>2. ticker = [i \in 1..(L - c) |-> Code(TickerName(symbol)[i])]
    BY <1>4 DEF encodeUrl, Code
  <2>3. \A y \in 1..(L - c) : c + y \in 1..L
    BY <1>1, <1>2
  <2>4. \A y \in 1..(L - c) : Code(symbol[c + y]) \in Letters
    BY <1>1, <2>1, <2>3
  <2>5. L - c \in Nat
    BY <1>1, <1>2
  <2> HIDE DEF ticker
  <2>6. ticker = [i \in 1..(L - c) |-> Code(symbol[c + i])]
    BY <1>4, <2>2
  <2> QED BY <2>4, <2>5, <2>6
<1> HIDE DEF exchange, ticker
<1> DEFINE h == <<"i", "=">>
           a == h \o exchange
           b == a \o <<":">>
           d == b \o ticker
           e == d \o <<"&">>
<1>6. /\ a \in Seq(Letters) /\ Len(a) = c + 1 /\ a[1] = "i" /\ a[2] = "="
      /\ \A x \in 1..(c - 1) : a[x + 2] = symbol[x]
  <2>1. h \in Seq(Letters) /\ Len(h) = 2 /\ h[1] = "i" /\ h[2] = "="
    BY DEF Letters
  <2> HIDE DEF h
  <2>2. Joins(Letters, h, exchange)
    BY <1>3, <2>1, Join
  <2>3. \A x \in 1..(c - 1) : 2 + x = x + 2
    BY <1>2
  <2> QED BY <1>1, <1>2, <1>3, <2>1, <2>2, <2>3 DEF Joins
<1> HIDE DEF a
<1>7. /\ b \in Seq(Letters) /\ Len(b) = c + 2 /\ b[1] = "i" /\ b[2] = "="
      /\ \A x \in 1..(c - 1) : b[x + 2] = symbol[x]
      /\ b[c + 2] = ":"
  <2>1. <<":">> \in Seq(Letters) /\ Len(<<":">>) = 1 /\ <<":">>[1] = ":"
    BY DEF Letters
  <2>2. Joins(Letters, a, <<":">>)
    BY <1>6, <2>1, Join
  <2>3. /\ 1 \in 1..(c + 1) /\ 2 \in 1..(c + 1) /\ (c + 1) + 1 = c + 2
        /\ \A x \in 1..(c - 1) : x + 2 \in 1..(c + 1)
    BY <1>1, <1>2
  <2> QED BY <1>6, <2>1, <2>2, <2>3 DEF Joins
<1> HIDE DEF b
<1>8. /\ d \in Seq(Letters) /\ Len(d) = L + 2 /\ d[1] = "i" /\ d[2] = "="
      /\ \A x \in 1..c : d[x + 2] = b[x + 2]
      /\ \A y \in 1..(L - c) : d[c + 2 + y] = ticker[y]
  <2>1. Joins(Letters, b, ticker)
    BY <1>5, <1>7, Join
  <2>2. /\ 1 \in 1..(c + 2) /\ 2 \in 1..(c + 2) /\ (c + 2) + (L - c) = L + 2
        /\ \A x \in 1..c : x + 2 \in 1..(c + 2)
    BY <1>1, <1>2
  <2> QED BY <1>5, <1>7, <2>1, <2>2 DEF Joins
<1> HIDE DEF d
<1>9. /\ e \in Seq(Letters) /\ Len(e) = L + 3 /\ e[1] = "i" /\ e[2] = "="
      /\ \A x \in 1..(L + 2) : e[x] = d[x]
      /\ e[L + 3] = "&"
  <2>1. <<"&">> \in Seq(Letters) /\ Len(<<"&">>) = 1 /\ <<"&">>[1] = "&"
    BY DEF Letters
  <2>2. Joins(Letters, d, <<"&">>)
    BY <1>8, <2>1, Join
  <2>3. 1 \in 1..(L + 2) /\ 2 \in 1..(L + 2) /\ (L + 2) + 1 = L + 3
    BY <1>1, <1>2
  <2> QED BY <1>8, <2>1, <2>2, <2>3 DEF Joins
<1>10. Encoded(symbol) = e
  BY DEF Encoded, exchange, ticker, a, b, d, e
<1> HIDE DEF e
<1>11. ASSUME NEW x \in 1..c PROVE e[x + 2] = symbol[x]
  <2>1. x + 2 \in 1..(L + 2)
    BY <1>1, <1>2
  <2>2. e[x + 2] = b[x + 2]
    BY <1>8, <1>9, <2>1
  <2>3. x = c \/ x \in 1..(c - 1)
    BY <1>2
  <2> QED BY <1>2, <1>7, <2>2, <2>3
<1>12. ASSUME NEW x \in (c + 1)..L PROVE e[x + 2] = Code(symbol[x])
  <2>1. x + 2 \in 1..(L + 2) /\ x - c \in 1..(L - c) /\ c + 2 + (x - c) = x + 2
        /\ c + (x - c) = x
    BY <1>1, <1>2
  <2> QED BY <1>5, <1>8, <1>9, <2>1
<1> QED BY <1>9, <1>10, <1>11, <1>12 DEF Spelt, c

\* A symbol whose text begins like that of another has its colon no earlier.
LEMMA ColonsMeet ==
  ASSUME NEW s, Clean(s), NEW t, Clean(t), NEW c, IsColon(s, c), NEW d, IsColon(t, d),
         NEW v, Spelt(s, c, v), NEW w, Spelt(t, d, w),
         \A x \in Nat : x \in 1..Len(v) /\ x \in 1..Len(w) => v[x] = w[x]
  PROVE  ~(c < d)
<1> SUFFICES ASSUME c < d PROVE FALSE
  OBVIOUS
<1>1. Len(s) \in Nat /\ Len(t) \in Nat /\ c \in 1..Len(s) /\ d \in 1..Len(t)
  BY DEF Clean, IsColon
<1>2. c \in 1..(d - 1) /\ c \in 1..d /\ c \in 1..c
  BY <1>1
<1>3. c + 2 \in 1..(Len(s) + 3) /\ c + 2 \in 1..(Len(t) + 3) /\ c + 2 \in Nat
  BY <1>1, <1>2
<1>4. v[c + 2] = w[c + 2]
  BY <1>3 DEF Spelt
<1>5. v[c + 2] = ":" /\ w[c + 2] = t[c] /\ t[c] # ":"
  BY <1>2 DEF Spelt, IsColon
<1> QED BY <1>4, <1>5

\* With the colon at the same place, it is no longer either.
LEMMA EndsMeet ==
  ASSUME NEW s, Clean(s), NEW t, Clean(t), NEW c, IsColon(s, c), IsColon(t, c),
         NEW v, Spelt(s, c, v), NEW w, Spelt(t, c, w),
         \A x \in Nat : x \in 1..Len(v) /\ x \in 1..Len(w) => v[x] = w[x]
  PROVE  ~(Len(s) < Len(t))
<1> SUFFICES ASSUME Len(s) < Len(t) PROVE FALSE
  OBVIOUS
<1>1. Len(s) \in Nat /\ Len(t) \in Nat /\ c \in 1..Len(s)
  BY DEF Clean, IsColon
<1>2. Len(s) + 1 \in (c + 1)..Len(t) /\ (Len(s) + 1) + 2 = Len(s) + 3
  BY <1>1
<1>3. Len(s) + 3 \in 1..(Len(s) + 3) /\ Len(s) + 3 \in 1..(Len(t) + 3) /\ Len(s) + 3 \in Nat
  BY <1>1
<1>4. v[Len(s) + 3] = w[Len(s) + 3]
  BY <1>3 DEF Spelt
<1>5. v[Len(s) + 3] = "&"
  BY DEF Spelt
<1>6. w[Len(s) + 3] = Code(t[Len(s) + 1])
  BY <1>2 DEF Spelt
<1> QED BY <1>4, <1>5, <1>6, CodeTells

\* The text of a symbol tells the symbol and where it ends.
LEMMA EncodedTells ==
  ASSUME NEW s, Clean(s), NEW t, Clean(t),
         \A x \in Nat : x \in 1..Len(Encoded(s)) /\ x \in 1..Len(Encoded(t))
                          => Encoded(s)[x] = Encoded(t)[x]
  PROVE  s = t
<1> DEFINE c == colonPos(s)
           d == colonPos(t)
           v == Encoded(s)
           w == Encoded(t)
<1>1. IsColon(s, c) /\ IsColon(t, d) /\ Spelt(s, c, v) /\ Spelt(t, d, w)
  BY ColonPos, EncodedIsSpelt
<1>2. \A x \in Nat : x \in 1..Len(v) /\ x \in 1..Len(w) => v[x] = w[x]
  OBVIOUS
<1> HIDE DEF c, d, v, w
<1>3. c = d
  <2>1. ~(c < d)
    BY <1>1, <1>2, ColonsMeet
  <2>2. ~(d < c)
    BY <1>1, <1>2, ColonsMeet
  <2>3. c \in Nat /\ d \in Nat
    BY <1>1 DEF IsColon
  <2> QED BY <2>1, <2>2, <2>3
<1>4. Len(s) = Len(t)
  <2>1. ~(Len(s) < Len(t))
    BY <1>1, <1>2, <1>3, EndsMeet
  <2>2. ~(Len(t) < Len(s))
    BY <1>1, <1>2, <1>3, EndsMeet
  <2>3. Len(s) \in Nat /\ Len(t) \in Nat
    BY DEF Clean
  <2> QED BY <2>1, <2>2, <2>3
<1>5. ASSUME NEW x \in 1..Len(s) PROVE s[x] = t[x]
  <2>1. x + 2 \in 1..(Len(s) + 3) /\ x + 2 \in Nat /\ Len(s) \in Nat
    BY DEF Clean
  <2>2. v[x + 2] = w[x + 2]
    BY <1>1, <1>2, <1>4, <2>1 DEF Spelt
  <2>3. c \in 1..Len(s)
    BY <1>1 DEF IsColon
  <2>4. CASE x \in 1..c
    BY <1>1, <1>3, <2>2, <2>4 DEF Spelt
  <2>5. CASE x \in (c + 1)..Len(s)
    <3>1. Code(s[x]) = Code(t[x])
      BY <1>1, <1>3, <1>4, <2>2, <2>5 DEF Spelt
    <3>2. s[x] \notin Escapes /\ t[x] \notin Escapes
      BY <1>4 DEF Clean
    <3> QED BY <3>1, <3>2, CodeTells
  <2> QED BY <2>1, <2>3, <2>4, <2>5
<1> QED BY <1>4, <1>5 DEF Clean

-----------------------------------------------------------------------------
(* Lists of symbols.                                                       *)

\* Symbols the loop does not throw at.
Listed(a) == a \in Seq(Seq(STRING)) /\ \A i \in 1..Len(a) : Clean(a[i])

\* The turns of the loop, and the text after each of them.
Turns(a) == [i \in DOMAIN a |-> Encoded(a[i])]
Texts(a) == Joined(Turns(a))
Text(a) == Texts(a)[Len(a)]

\* From turn to turn the text grows by a symbol, which ends it.
TurnByTurn(a) ==
  /\ Texts(a)[1] = Encoded(a[1])
  /\ \A i \in 1..(Len(a) - 1) :
        /\ Joins(Letters, Texts(a)[i], Encoded(a[i + 1]))
        /\ Texts(a)[i + 1] = Texts(a)[i] \o Encoded(a[i + 1])
  /\ Grows(Letters, Texts(a), Len(a))
  /\ \A i \in 1..Len(a) : Len(Texts(a)[i]) > 3 /\ Texts(a)[i][Len(Texts(a)[i])] = "&"

\* Every list the loop does not throw at is written so.
LEMMA TurnsWrite ==
  ASSUME NEW a, Listed(a), Len(a) > 0
  PROVE  TurnByTurn(a) /\ FlattenSeq(Turns(a)) = Text(a)
<1> DEFINE n == Len(a)
           s == Turns(a)
           J == Texts(a)
<1>1. n \in Nat \ {0} /\ DOMAIN a = 1..n /\ n \in 1..n
  BY DEF Listed
<1>2. Len(s) = n /\ \A i \in 1..n : s[i] = Encoded(a[i])
  BY <1>1 DEF Turns
<1>3. ASSUME NEW i \in 1..n
      PROVE  /\ Encoded(a[i]) \in Seq(Letters)
             /\ Len(Encoded(a[i])) \in Nat /\ Len(Encoded(a[i])) > 3
             /\ Encoded(a[i])[Len(Encoded(a[i]))] = "&"
  <2>1. Clean(a[i])
    BY DEF Listed
  <2>2. Spelt(a[i], colonPos(a[i]), Encoded(a[i])) /\ IsColon(a[i], colonPos(a[i]))
    BY <2>1, EncodedIsSpelt, ColonPos
  <2>3. Len(a[i]) \in Nat
    BY <2>1 DEF Clean
  <2>4. Len(a[i]) > 0
    BY <2>2, <2>3 DEF IsColon
  <2> QED BY <2>2, <2>3, <2>4 DEF Spelt
<1> HIDE DEF n, s, J
<1>4. /\ J[1] = s[1]
      /\ \A i \in 1..(n - 1) : J[i + 1] = J[i] \o s[i + 1]
  BY <1>1, <1>2, JoinedTurns DEF J, Texts, s
<1>5. Grows(Letters, J, n)
  BY <1>1, <1>2, <1>3, JoinedGrows DEF J, Texts, s
<1>6. ASSUME NEW i \in 1..(n - 1)
      PROVE  /\ Joins(Letters, J[i], Encoded(a[i + 1]))
             /\ J[i + 1] = J[i] \o Encoded(a[i + 1])
             /\ Len(J[i + 1]) > 3 /\ J[i + 1][Len(J[i + 1])] = "&"
  <2>1. i + 1 \in 1..n /\ i \in 1..n
    BY <1>1
  <2>2. J[i] \in Seq(Letters)
    BY <1>5, <2>1 DEF Grows
  <2>3. Joins(Letters, J[i], Encoded(a[i + 1]))
    BY <1>3, <2>1, <2>2, Join
  <2>4. J[i + 1] = J[i] \o Encoded(a[i + 1])
    BY <1>2, <1>4, <2>1
  <2> DEFINE v == Encoded(a[i + 1])
  <2>5. Len(v) \in Nat /\ Len(v) > 3 /\ v[Len(v)] = "&" /\ Len(v) \in 1..Len(v)
    BY <1>3, <2>1
  <2> HIDE DEF v
  <2>6. Len(J[i + 1]) = Len(J[i]) + Len(v) /\ Len(J[i]) \in Nat
    BY <2>3, <2>4 DEF Joins, v
  <2>7. J[i + 1][Len(J[i]) + Len(v)] = v[Len(v)]
    BY <2>3, <2>4, <2>5 DEF Joins, v
  <2>8. Len(J[i + 1]) > 3
    BY <2>5, <2>6
  <2>9. J[i + 1][Len(J[i + 1])] = "&"
    BY <2>5, <2>6, <2>7
  <2> QED BY <2>3, <2>4, <2>8, <2>9
<1>7. 1 \in 1..n
  BY <1>1
<1>8. J[1] = Encoded(a[1]) /\ Len(J[1]) > 3 /\ J[1][Len(J[1])] = "&"
  BY <1>2, <1>3, <1>4, <1>7
<1>9. \A i \in 1..n : Len(J[i]) > 3 /\ J[i][Len(J[i])] = "&"
  <2> TAKE i \in 1..n
  <2>1. i = 1 \/ (i - 1 \in 1..(n - 1) /\ (i - 1) + 1 = i)
    BY <1>1
  <2> QED BY <1>6, <1>8, <2>1
<1>10. FlattenSeq(s) = J[n]
  BY <1>1, <1>2, JoinedIsDefined DEF J, Texts, s
<1> QED BY <1>5, <1>6, <1>8, <1>9, <1>10 DEF TurnByTurn, n, s, J, Text

\* Of two lists with the same text, the shorter begins the longer.
LEMMA ShorterBegins ==
  ASSUME NEW a, Listed(a), Len(a) > 0, NEW b, Listed(b), Len(a) <= Len(b),
         Text(a) = Text(b)
  PROVE  \A k \in 1..Len(a) : a[k] = b[k] /\ Texts(a)[k] = Texts(b)[k]
<1> DEFINE n == Len(a)
           m == Len(b)
           A == Texts(a)
           B == Texts(b)
           W == Text(a)
           T == {k \in 1..n : a[k] = b[k] /\ A[k] = B[k]}
<1>1. n \in Nat \ {0} /\ m \in Nat /\ n <= m /\ m > 0
  BY DEF Listed
<1>2. TurnByTurn(a) /\ TurnByTurn(b)
  BY <1>1, TurnsWrite
<1>3. \A i \in 1..n : Clean(a[i]) /\ Clean(b[i])
  BY <1>1 DEF Listed
<1>4. A[n] = W /\ B[m] = W
  BY DEF Text
<1> HIDE DEF n, m, A, B, W
<1>5. ASSUME NEW i \in 1..n
      PROVE  /\ A[i] \in Seq(Letters) /\ B[i] \in Seq(Letters)
             /\ \A x \in 1..Len(A[i]) : W[x] = A[i][x]
             /\ \A x \in 1..Len(B[i]) : W[x] = B[i][x]
  BY <1>1, <1>2, <1>4 DEF TurnByTurn, Grows, n, m, A, B
<1>6. 1 \in T
  <2>1. A[1] = Encoded(a[1]) /\ B[1] = Encoded(b[1])
    BY <1>2 DEF TurnByTurn, A, B
  <2>2. 1 \in 1..n
    BY <1>1
  <2>3. \A x \in Nat : x \in 1..Len(A[1]) /\ x \in 1..Len(B[1]) => A[1][x] = B[1][x]
    BY <1>5, <2>2
  <2>4. a[1] = b[1]
    BY <1>3, <2>1, <2>2, <2>3, EncodedTells
  <2> QED BY <2>1, <2>2, <2>4
<1>7. ASSUME NEW k \in 1..(n - 1), k \in T PROVE k + 1 \in T
  <2>1. k + 1 \in 1..n /\ k \in 1..n /\ k \in 1..(m - 1)
    BY <1>1
  <2> DEFINE p == A[k]
             v == Encoded(a[k + 1])
             w == Encoded(b[k + 1])
  <2>2. /\ Joins(Letters, p, v) /\ A[k + 1] = p \o v
        /\ Joins(Letters, p, w) /\ B[k + 1] = p \o w
    BY <1>2, <1>7, <2>1 DEF TurnByTurn, A, B, n, m
  <2> HIDE DEF p, v, w
  <2>3. ASSUME NEW x \in Nat, x \in 1..Len(v), x \in 1..Len(w) PROVE v[x] = w[x]
    <3>1. Len(p) + x \in 1..(Len(p) + Len(v)) /\ Len(p) + x \in 1..(Len(p) + Len(w))
      BY <2>2, <2>3 DEF Joins
    <3>3. Len(A[k + 1]) = Len(p) + Len(v) /\ Len(B[k + 1]) = Len(p) + Len(w)
      BY <2>2 DEF Joins
    <3>2. W[Len(p) + x] = A[k + 1][Len(p) + x] /\ W[Len(p) + x] = B[k + 1][Len(p) + x]
      BY <1>5, <2>1, <3>1, <3>3
    <3> QED BY <2>2, <2>3, <3>2 DEF Joins
  <2>4. a[k + 1] = b[k + 1]
    BY <1>3, <2>1, <2>3, EncodedTells DEF v, w
  <2> QED BY <2>1, <2>2, <2>4 DEF v, w
<1>8. \A k \in 1..n : k \in T
  <2> HIDE DEF T
  <2> QED BY <1>1, <1>6, <1>7, FromTo
<1> QED BY <1>8 DEF n, A, B

\* Of two lists with the same text, neither is the shorter.
LEMMA NeitherIsShorter ==
  ASSUME NEW a, Listed(a), Len(a) > 0, NEW b, Listed(b), Text(a) = Text(b)
  PROVE  ~(Len(a) < Len(b))
<1> SUFFICES ASSUME Len(a) < Len(b) PROVE FALSE
  OBVIOUS
<1> DEFINE n == Len(a)
           m == Len(b)
           B == Texts(b)
<1>1. n \in Nat \ {0} /\ m \in Nat /\ n \in 1..n /\ n < m /\ m > 0
      /\ n \in 1..(m - 1)
  BY DEF Listed
<1>2. B[n] = B[m]
  BY <1>1, ShorterBegins DEF Text
<1>3. TurnByTurn(b)
  BY <1>1, TurnsWrite
<1>4. Clean(b[n + 1])
  BY <1>1 DEF Listed
<1> DEFINE v == Encoded(b[n + 1])
<1>5. Len(v) \in Nat /\ Len(v) > 0
  <2>1. Spelt(b[n + 1], colonPos(b[n + 1]), v) /\ Len(b[n + 1]) \in Nat
    BY <1>4, EncodedIsSpelt DEF Clean
  <2> QED BY <2>1 DEF Spelt
<1> HIDE DEF v
<1>6. Joins(Letters, B[n], v) /\ B[n + 1] = B[n] \o v
  BY <1>1, <1>3 DEF TurnByTurn, v
<1>7. Len(B[n + 1]) = Len(B[n]) + Len(v) /\ Len(B[n]) \in Nat
  BY <1>6 DEF Joins
<1>8. Len(B[n + 1]) <= Len(B[m])
  BY <1>1, <1>3 DEF TurnByTurn, Grows
<1> HIDE DEF B
<1> QED BY <1>2, <1>5, <1>7, <1>8

\* The text without the "&" that ends it tells the text.
LEMMA FrontTells ==
  ASSUME NEW a, Listed(a), Len(a) > 0, NEW b, Listed(b), Len(b) > 0,
         Front(Text(a)) = Front(Text(b))
  PROVE  Text(a) = Text(b)
<1> DEFINE v == Text(a)
           w == Text(b)
<1>1. /\ v \in Seq(Letters) /\ Len(v) > 3 /\ v[Len(v)] = "&"
      /\ w \in Seq(Letters) /\ Len(w) > 3 /\ w[Len(w)] = "&"
  <2>1. /\ Len(a) \in 1..Len(a) /\ Len(b) \in 1..Len(b)
        /\ TurnByTurn(a) /\ TurnByTurn(b)
    BY TurnsWrite DEF Listed
  <2> QED BY <2>1 DEF TurnByTurn, Grows, Text
<1>2. Front(v) = Front(w)
  OBVIOUS
<1> HIDE DEF v, w
<1>3. /\ Len(Front(v)) = Len(v) - 1 /\ Len(Front(w)) = Len(w) - 1
      /\ \A x \in 1..(Len(v) - 1) : Front(v)[x] = v[x]
      /\ \A x \in 1..(Len(w) - 1) : Front(w)[x] = w[x]
  BY <1>1 DEF Front
<1>4. Len(v) = Len(w)
  BY <1>1, <1>2, <1>3
<1>5. \A x \in 1..Len(v) : v[x] = w[x]
  BY <1>1, <1>2, <1>3, <1>4
<1> QED BY <1>1, <1>4, <1>5 DEF v, w

\* The query tells the list, whatever is in the symbols.
LEMMA ListTells ==
  ASSUME NEW a, Listed(a), NEW b, Listed(b),
         encodeSymbolsList(a) = encodeSymbolsList(b)
  PROVE  a = b
<1>1. Len(a) \in Nat /\ Len(b) \in Nat
  BY DEF Listed
<1>2. ASSUME NEW s, Listed(s), Len(s) = 0
      PROVE  s = <<>> /\ encodeSymbolsList(s) = <<>>
  <2>1. s = <<>>
    BY <1>2 DEF Listed
  <2>2. Turns(s) = <<>>
    BY <2>1 DEF Turns
  <2>3. FlattenSeq(Turns(s)) = <<>>
    BY <2>2 DEF FlattenSeq
  <2> QED BY <2>1, <2>3 DEF encodeSymbolsList, Turns
<1>3. ASSUME NEW s, Listed(s), Len(s) > 0
      PROVE  encodeSymbolsList(s) = Front(Text(s)) /\ encodeSymbolsList(s) # <<>>
  <2>1. TurnByTurn(s) /\ FlattenSeq(Turns(s)) = Text(s) /\ Len(s) \in 1..Len(s)
    BY <1>3, TurnsWrite DEF Listed
  <2>2. Text(s) \in Seq(Letters) /\ Len(Text(s)) > 3
    BY <2>1 DEF TurnByTurn, Grows, Text
  <2>3. encodeSymbolsList(s) = Front(Text(s))
    BY <2>1, <2>2 DEF encodeSymbolsList, Turns
  <2>4. Len(Front(Text(s))) > 0
    BY <2>2 DEF Front
  <2> QED BY <2>3, <2>4
<1>4. CASE Len(a) = 0 \/ Len(b) = 0
  BY <1>1, <1>2, <1>3, <1>4
<1>5. CASE Len(a) > 0 /\ Len(b) > 0
  <2>1. Text(a) = Text(b)
    BY <1>3, <1>5, FrontTells
  <2>2. Len(a) = Len(b)
    BY <1>1, <1>5, <2>1, NeitherIsShorter
  <2>3. \A k \in 1..Len(a) : a[k] = b[k]
    BY <1>1, <1>5, <2>1, <2>2, ShorterBegins
  <2>4. a = [k \in 1..Len(a) |-> a[k]] /\ b = [k \in 1..Len(b) |-> b[k]]
    <3>1. \A S : \A s \in Seq(S) : s = [k \in 1..Len(s) |-> s[k]]
      OBVIOUS
    <3> QED BY <3>1 DEF Listed
  <2> QED BY <2>2, <2>3, <2>4
<1> QED BY <1>1, <1>4, <1>5

-----------------------------------------------------------------------------
(* The table and the methods.                                              *)

\* The methods whose calls have a body.
Bodied == DOMAIN Forms \cup DOMAIN Gtts \cup Margins

\* The places in the text of a path, for what a method gives for it.
Places(m, fields) ==
  \/ m.arity = 0 /\ fields = <<>>
  \/ m.arity = 1 /\ fields = <<0>>
  \/ m.arity = 2 /\ fields = <<0, 1>>
  \/ m.arity = 3 /\ fields = <<0, 1, 1>> /\ m.name = "cancelOrderBo"
  \/ m.arity = 6 /\ fields = <<0, 1, 2, 3, 4, 5>>

\* What a method does and what the entry of its service says.
Serves(m, e) ==
  /\ Places(m, e.fields)
  /\ m.name \in Quotes => m.arity = 1
  /\ e.responseType = "NON_JSON" <=> m.reads = "raw"
  /\ e.contentType = "JSON" <=> m.name \in Margins
  /\ m.name \in Bodied => e.method \in {"POST", "PUT"}

\* The table has the service, and its entries serve the method.
IsServed(m) ==
  /\ \E e \in endpoints : e.service = m.service
  /\ \A e \in endpoints : e.service = m.service => Serves(m, e)

\* Every method is served by the table.
LEMMA EveryMethodIsServed == \A m \in Methods : IsServed(m)
<1>1. Bodied = {"generateSession", "placeOrder", "modifyOrder", "placeMfOrder",
                "placeMfSip", "modifyMfSip", "convertPosition", "placeGtt",
                "modifyGtt", "getOrderMargins", "getBasketMargins"}
  BY DEF Bodied, Forms, Gtts, Margins
<1> USE <1>1 DEF IsServed, Serves, Places, Quotes, Margins, Method, Raw, Endpoint,
      Csv, JsonBody, endpoints, ApiEndpoints, UserEndpoints, OrderEndpoints,
      GttEndpoints, MfEndpoints, PortfolioEndpoints, MarketEndpoints,
      MarginsEndpoints
<1>2. \A m \in ApiMethods : IsServed(m)
  BY DEF ApiMethods
<1>3. \A m \in UserMethods : IsServed(m)
  BY DEF UserMethods
<1>4. \A m \in OrderMethods : IsServed(m)
  BY SMTT(30) DEF OrderMethods
<1>5. \A m \in GttMethods : IsServed(m)
  BY SMTT(30) DEF GttMethods
<1>6. \A m \in MfMethods : IsServed(m)
  BY SMTT(60) DEF MfMethods
<1>7. \A m \in PortfolioMethods : IsServed(m)
  BY DEF PortfolioMethods
<1>8. \A m \in MarketMethods : IsServed(m)
  BY SMTT(30) DEF MarketMethods
<1>9. \A m \in MarginsMethods : IsServed(m)
  BY DEF MarginsMethods
<1> HIDE DEF IsServed
<1> QED BY <1>2, <1>3, <1>4, <1>5, <1>6, <1>7, <1>8, <1>9 DEF Methods

\* So the entry that is found is one that serves it.
LEMMA TheServiceServes ==
  ASSUME NEW m \in Methods
  PROVE  /\ ServiceOf(m) \in endpoints /\ ServiceOf(m).service = m.service
         /\ Serves(m, ServiceOf(m))
BY EveryMethodIsServed DEF IsServed, ServiceOf

\* A request goes to one service only, and that is the service of one method.
LEMMA RequestsTell ==
  /\ \A e, f \in endpoints :
        e.method = f.method /\ e.text = f.text => e.service = f.service
  /\ \A m, n \in Methods : m.service = n.service => m = n
<1>1. \A e, f \in endpoints :
         e.method = f.method /\ e.text = f.text => e.service = f.service
  BY SMTT(30) DEF endpoints, ApiEndpoints, UserEndpoints, OrderEndpoints,
     GttEndpoints, MfEndpoints, PortfolioEndpoints, MarketEndpoints,
     MarginsEndpoints, Endpoint, Csv, JsonBody
<1>2. \A m, n \in Methods : m.service = n.service => m = n
  BY SMTT(30) DEF Methods, ApiMethods, UserMethods, OrderMethods, GttMethods,
     MfMethods, PortfolioMethods, MarketMethods, MarginsMethods, Method, Raw
<1> QED BY <1>1, <1>2

-----------------------------------------------------------------------------
(* A call.                                                                 *)

\* What is called, and what has left for it.
Calling ==
  /\ called \in Methods /\ args \in Arguments(called)
  /\ passed \in Passable(called.name, MaxList, DecimalsSet)
  /\ sent # <<>> => /\ sent = <<RequestOf(called, args, passed)>>
                    /\ Accepts(called, args)

\* What leaves is the request of the call.
LEMMA CallingHolds == Spec => []Calling
<1>1. Init => Calling
  BY DEF Init, Calling
<1>2. Calling /\ [Next]_vars => Calling'
  BY DEF Calling, Next, Send, Throw, vars
<1> QED BY <1>1, <1>2, PTL DEF Spec

\* A call with its arguments: a list of symbols, or values.
LEMMA ArgumentsAre ==
  ASSUME NEW m \in Methods, NEW as \in Arguments(m)
  PROVE  /\ m.arity \in {0, 1, 2, 3, 6}
         /\ m.name \notin Quotes => as \in [1..m.arity -> Values] /\ FmtArgs(m, as) = as
         /\ m.name \in Quotes =>
               /\ m.arity = 1
               /\ \E symbols \in Seq(SymbolNames) : as = <<symbols>>
               /\ FmtArgs(m, as) = <<encodeSymbolsList(as[1])>>
<1>1. Serves(m, ServiceOf(m))
  BY TheServiceServes
<1>2. m.arity \in {0, 1, 2, 3, 6} /\ (m.name \in Quotes => m.arity = 1)
  BY <1>1 DEF Serves, Places
<1>3. m.name \notin Quotes => as \in [1..m.arity -> Values] /\ FmtArgs(m, as) = as
  BY DEF Arguments, FmtArgs
<1>4. ASSUME m.name \in Quotes
      PROVE  \E symbols \in Seq(SymbolNames) : as = <<symbols>>
  <2>1. PICK symbols \in BoundedSeq(SymbolNames, MaxList) : as = <<symbols>>
    BY <1>4 DEF Arguments
  <2>2. PICK n \in 0..MaxList : symbols \in [1..n -> SymbolNames]
    BY DEF BoundedSeq, SeqOf
  <2>3. symbols \in Seq(SymbolNames)
    BY <2>2, EndpointsAssumption
  <2> QED BY <2>1, <2>3
<1>5. m.name \in Quotes => FmtArgs(m, as) = <<encodeSymbolsList(as[1])>>
  BY DEF FmtArgs
<1> QED BY <1>2, <1>3, <1>4, <1>5

\* Arguments by their number.
LEMMA SomeArguments ==
  ASSUME NEW n \in Nat \ {0}, NEW V, NEW s \in [1..n -> V]
  PROVE  Len(s) = n /\ s # <<>> /\ s = [k \in 1..n |-> s[k]]
<1>1. s \in Seq(V) /\ Len(s) = n
  OBVIOUS
<1> QED BY <1>1

\* The arguments fit the places of the path.
LEMMA PathFits ==
  ASSUME NEW m \in Methods, NEW as \in Arguments(m)
  PROVE  Expand(ServiceOf(m), FmtArgs(m, as)).ok
<1> DEFINE fields == ServiceOf(m).fields
           fmtArgs == FmtArgs(m, as)
<1>1. Places(m, fields)
  BY TheServiceServes DEF Serves
<1>2. /\ m.name \notin Quotes => as \in [1..m.arity -> Values] /\ fmtArgs = as
      /\ m.name \in Quotes => m.arity = 1 /\ fmtArgs = <<encodeSymbolsList(as[1])>>
      /\ m.arity \in {0, 1, 2, 3, 6}
  BY ArgumentsAre
<1>3. CASE m.name \in Quotes
  <2>1. fmtArgs = <<encodeSymbolsList(as[1])>>
    BY <1>2, <1>3
  <2>2. fields = <<0>>
    <3>1. m.arity = 1
      BY <1>2, <1>3
    <3> QED BY <1>1, <3>1 DEF Places
  <2> QED BY <2>1, <2>2 DEF Expand
<1>4. CASE m.name \notin Quotes
  <2>1. fmtArgs = as /\ as \in [1..m.arity -> Values]
    BY <1>2, <1>4
  <2>2. CASE m.arity = 0
    <3>1. fmtArgs = <<>> /\ fields = <<>>
      BY <1>1, <2>1, <2>2 DEF Places
    <3> QED BY <3>1 DEF Expand
  <2>3. CASE m.arity # 0
    <3>1. Len(fmtArgs) = m.arity /\ fmtArgs # <<>>
      <4> HIDE DEF fmtArgs
      <4>1. m.arity \in Nat \ {0}
        BY <1>2, <2>3
      <4>2. fmtArgs \in [1..m.arity -> Values]
        BY <2>1
      <4> QED BY <4>1, <4>2, SomeArguments
    <3>2. \A i \in DOMAIN fields : fields[i] < m.arity
      BY <1>1, <2>3 DEF Places
    <3> QED BY <3>1, <3>2 DEF Expand
  <2> QED BY <2>2, <2>3
<1> QED BY <1>3, <1>4

\* A symbol of the list is one the loop does not throw at.
LEMMA AcceptedIsListed ==
  ASSUME NEW symbols \in Seq(SymbolNames), IsValid(symbols)
  PROVE  Listed(symbols)
<1>1. \A symbol \in SymbolNames : /\ symbol \in Seq(STRING)
                                 /\ \A i \in DOMAIN symbol : symbol[i] \notin Escapes
  BY EndpointsAssumption
<1>2. symbols \in Seq(Seq(STRING)) /\ DOMAIN symbols = 1..Len(symbols)
  BY <1>1
<1>3. \A i \in 1..Len(symbols) : symbols[i] \in SymbolNames
  OBVIOUS
<1> QED BY <1>1, <1>2, <1>3 DEF IsValid, Listed, Clean

\* The path tells the arguments.
LEMMA PathTells ==
  ASSUME NEW m \in Methods, m.name # "cancelOrderBo",
         NEW as \in Arguments(m), Accepts(m, as),
         NEW other \in Arguments(m), Accepts(m, other),
         Expand(ServiceOf(m), FmtArgs(m, as)) = Expand(ServiceOf(m), FmtArgs(m, other))
  PROVE  other = as
<1> DEFINE fields == ServiceOf(m).fields
<1>1. Places(m, fields)
  BY TheServiceServes DEF Serves
<1>2. CASE m.name \in Quotes
  <2>1. PICK symbols \in Seq(SymbolNames) : as = <<symbols>>
    BY <1>2, ArgumentsAre
  <2>2. PICK others \in Seq(SymbolNames) : other = <<others>>
    BY <1>2, ArgumentsAre
  <2>3. /\ FmtArgs(m, as) = <<encodeSymbolsList(symbols)>>
        /\ FmtArgs(m, other) = <<encodeSymbolsList(others)>>
        /\ m.arity = 1
    BY <1>2, <2>1, <2>2, ArgumentsAre
  <2>4. Listed(symbols) /\ Listed(others)
    BY <1>2, <2>1, <2>2, AcceptedIsListed DEF Accepts
  <2>5. fields = <<0>>
    BY <1>1, <2>3 DEF Places
  <2>6. ASSUME NEW q PROVE Expand(ServiceOf(m), <<q>>).fields = <<q>>
    BY <2>5 DEF Expand
  <2>7. encodeSymbolsList(symbols) = encodeSymbolsList(others)
    BY <2>3, <2>6
  <2> QED BY <2>1, <2>2, <2>4, <2>7, ListTells
<1>3. CASE m.name \notin Quotes
  <2>1. /\ FmtArgs(m, as) = as /\ as \in [1..m.arity -> Values]
        /\ FmtArgs(m, other) = other /\ other \in [1..m.arity -> Values]
        /\ m.arity \in {0, 1, 2, 3, 6}
    BY <1>3, ArgumentsAre
  <2>2. CASE m.arity = 0
    BY <2>1, <2>2
  <2>3. CASE m.arity # 0
    <3>1. \A i \in DOMAIN fields : fields[i] < m.arity
      BY <1>1, <2>3 DEF Places
    <3>2. ASSUME NEW s \in [1..m.arity -> Values]
          PROVE  Expand(ServiceOf(m), s).fields
                   = [i \in DOMAIN fields |-> s[fields[i] + 1]]
      <4>1. Len(s) = m.arity /\ s # <<>>
        BY <2>1, <2>3, SomeArguments
      <4> QED BY <3>1, <4>1 DEF Expand
    <3>3. ASSUME NEW i \in DOMAIN fields PROVE as[fields[i] + 1] = other[fields[i] + 1]
      <4>1. Expand(ServiceOf(m), as).fields = Expand(ServiceOf(m), other).fields
        BY <2>1
      <4>2. [j \in DOMAIN fields |-> as[fields[j] + 1]]
              = [j \in DOMAIN fields |-> other[fields[j] + 1]]
        BY <2>1, <3>2, <4>1
      <4> HIDE DEF fields
      <4> QED BY <4>2
    <3>4. \A k \in 1..m.arity : \E i \in DOMAIN fields : fields[i] + 1 = k
      <4>1. CASE fields = <<0>> /\ m.arity = 1
        BY <4>1
      <4>2. CASE fields = <<0, 1>> /\ m.arity = 2
        BY <4>2
      <4>3. CASE fields = <<0, 1, 2, 3, 4, 5>> /\ m.arity = 6
        <5>1. \A k \in 1..6 : k \in DOMAIN fields /\ fields[k] + 1 = k
          BY <4>3
        <5> QED BY <4>3, <5>1
      <4> QED BY <1>1, <2>3, <4>1, <4>2, <4>3 DEF Places
    <3>5. \A k \in 1..m.arity : as[k] = other[k]
      BY <3>3, <3>4
    <3>6. as = [k \in 1..m.arity |-> as[k]] /\ other = [k \in 1..m.arity |-> other[k]]
      BY <2>1, <2>3, SomeArguments
    <3> QED BY <3>5, <3>6
  <2> QED BY <2>2, <2>3
<1> QED BY <1>2, <1>3

-----------------------------------------------------------------------------
(* The theorems.                                                           *)

\* The arguments a method gives fit the text of its path, whatever they are:
\* fmt never throws, and no replacement field leaves in a path.
THEOREM PathsAreExpanded == Spec => []PathsExpand
<1>1. Calling => PathsExpand
  <2> SUFFICES ASSUME Calling, NEW i \in DOMAIN sent
               PROVE  sent[i].path.ok
    BY DEF PathsExpand
  <2>1. sent = <<RequestOf(called, args, passed)>>
    BY DEF Calling
  <2>2. sent[i].path = Expand(ServiceOf(called), FmtArgs(called, args))
    BY <2>1 DEF RequestOf, sendReq
  <2> QED BY <2>2, PathFits DEF Calling
<1> QED BY <1>1, CallingHolds, PTL

\* Two calls of a method with different arguments ask for different paths: no
\* argument is lost, and lists of any length, of symbols with any characters,
\* are told apart by their queries.
THEOREM EveryArgumentIsSent == Spec => []EveryArgumentCounts
<1>1. Calling => EveryArgumentCounts
  <2> SUFFICES ASSUME Calling, sent # <<>>, called.name # "cancelOrderBo",
                      NEW other \in Arguments(called), Accepts(called, other),
                      Expand(ServiceOf(called), FmtArgs(called, other)) = sent[1].path
               PROVE  other = args
    BY DEF EveryArgumentCounts
  <2>1. sent = <<RequestOf(called, args, passed)>> /\ Accepts(called, args)
    BY DEF Calling
  <2>2. sent[1].path = Expand(ServiceOf(called), FmtArgs(called, args))
    BY <2>1 DEF RequestOf, sendReq
  <2> QED BY <2>1, <2>2, PathTells DEF Calling
<1> QED BY <1>1, CallingHolds, PTL

\* The method and the path tell which method was called.
THEOREM MethodsAreTold == Spec => []MethodsAreDistinct
<1>1. Calling => MethodsAreDistinct
  <2> SUFFICES ASSUME Calling, sent # <<>>, NEW m \in Methods \ {called},
                      ServiceOf(m).method = sent[1].method,
                      ServiceOf(m).text = sent[1].text
               PROVE  FALSE
    BY DEF MethodsAreDistinct
  <2>1. sent = <<RequestOf(called, args, passed)>> /\ called \in Methods
    BY DEF Calling
  <2>2. /\ sent[1].method = ServiceOf(called).method
        /\ sent[1].text = ServiceOf(called).text
    BY <2>1 DEF RequestOf, sendReq
  <2>3. ServiceOf(m).service = ServiceOf(called).service
    BY <2>1, <2>2, TheServiceServes, RequestsTell
  <2> QED BY <2>1, <2>3, TheServiceServes, RequestsTell
<1> QED BY <1>1, CallingHolds, PTL

-----------------------------------------------------------------------------
(* Bodies.                                                                 *)

FormNames == {"generateSession", "placeOrder", "modifyOrder", "placeMfOrder",
              "placeMfSip", "modifyMfSip", "convertPosition"}
GttNames == {"placeGtt", "modifyGtt"}

\* The four kinds of bodies.
LEMMA Bodies ==
  /\ DOMAIN Forms = FormNames /\ DOMAIN Gtts = GttNames
  /\ \A name \in FormNames : \A p :
        /\ Body(name, p).entries = FormEntries(Forms[name], p)
        /\ Body(name, p).params = {e.param : e \in FormEntries(Forms[name], p)}
  /\ \A name \in GttNames : \A p :
        /\ Body(name, p).entries = GttEntries(Gtts[name], p)
        /\ Body(name, p).params = {"type", "condition", "orders"}
  /\ \A name \in Margins : \A p :
        Body(name, p).entries = MarginsEntries(p) /\ Body(name, p).params = {""}
  /\ \A name, p : name \notin FormNames \cup GttNames \cup Margins => Body(name, p) = NoBody
<1>1. DOMAIN Forms = FormNames /\ DOMAIN Gtts = GttNames
  BY DEF Forms, Gtts, FormNames, GttNames
<1>2. ASSUME NEW name \in FormNames, NEW p
      PROVE  /\ Body(name, p).entries = FormEntries(Forms[name], p)
             /\ Body(name, p).params = {e.param : e \in FormEntries(Forms[name], p)}
  <2>1. name \in DOMAIN Forms /\ name \notin DOMAIN Gtts /\ name \notin Margins
    BY <1>1 DEF FormNames, GttNames, Margins
  <2>2. Body(name, p) = [params |-> {e.param : e \in FormEntries(Forms[name], p)},
                         entries |-> FormEntries(Forms[name], p)]
    BY <2>1 DEF Body
  <2> QED BY <2>2
<1>3. ASSUME NEW name \in GttNames, NEW p
      PROVE  /\ Body(name, p).entries = GttEntries(Gtts[name], p)
             /\ Body(name, p).params = {"type", "condition", "orders"}
  <2>1. name \notin DOMAIN Forms /\ name \in DOMAIN Gtts /\ name \notin Margins
    BY <1>1 DEF FormNames, GttNames, Margins
  <2>2. Body(name, p) = [params |-> {"type", "condition", "orders"},
                         entries |-> GttEntries(Gtts[name], p)]
    BY <2>1 DEF Body
  <2> QED BY <2>2
<1>4. ASSUME NEW name \in Margins, NEW p
      PROVE  Body(name, p).entries = MarginsEntries(p) /\ Body(name, p).params = {""}
  BY <1>1 DEF Body, Margins, FormNames, GttNames
<1>5. ASSUME NEW name, NEW p, name \notin FormNames \cup GttNames \cup Margins
      PROVE  Body(name, p) = NoBody
  BY <1>1, <1>5 DEF Body
<1> QED BY <1>1, <1>2, <1>3, <1>4, <1>5

\* What each of the methods with a form sends.
LEMMA TheForms ==
  /\ Forms["generateSession"] = sessionForm
  /\ Forms["placeOrder"] = placeOrderForm
  /\ Forms["modifyOrder"] = modifyOrderForm
  /\ Forms["placeMfOrder"] = placeMfOrderForm
  /\ Forms["placeMfSip"] = placeMfSipForm
  /\ Forms["modifyMfSip"] = modifyMfSipForm
  /\ Forms["convertPosition"] = convertPositionForm
BY DEF Forms

\* A form with no parameter without a name.
IsNamed(form) == "" \notin DOMAIN form.required /\ "" \notin DOMAIN form.optional

\* All the forms are named.
LEMMA FormsAreNamed == \A name \in FormNames : IsNamed(Forms[name])
<1> USE DEF IsNamed, Form, NoMembers
<1>1. IsNamed(sessionForm)
  BY DEF sessionForm
<1>2. IsNamed(placeOrderForm)
  BY DEF placeOrderForm
<1>3. IsNamed(modifyOrderForm)
  BY DEF modifyOrderForm
<1>4. IsNamed(placeMfOrderForm)
  BY DEF placeMfOrderForm
<1>5. IsNamed(placeMfSipForm)
  BY DEF placeMfSipForm
<1>6. IsNamed(modifyMfSipForm)
  BY DEF modifyMfSipForm
<1>7. IsNamed(convertPositionForm)
  BY DEF convertPositionForm
<1> HIDE DEF IsNamed
<1> QED BY <1>1, <1>2, <1>3, <1>4, <1>5, <1>6, <1>7, TheForms DEF FormNames

\* An entry of a form: a required member, or an optional one that is given.
LEMMA EntryOfForm ==
  ASSUME NEW form, NEW p, NEW e \in FormEntries(form, p)
  PROVE  \/ \E n \in DOMAIN form.required : e = Added(form, n, form.required[n], p)
         \/ \E n \in DOMAIN form.optional :
               form.optional[n] \in p.given /\ e = Added(form, n, form.optional[n], p)
BY DEF FormEntries

\* What is added stands under its name, and is from no list.
LEMMA AddedIs ==
  \A form, n, m, p :
     LET e == Added(form, n, m, p)
     IN  /\ e.param = n /\ e.name = n /\ e.member = m
         /\ e.element = 0 /\ e.index = 0
         /\ e.decimals = Written(TypeIn(form.struct, m), p)
BY DEF Added, Entry

\* Only the parameters of JSON requests are without a name.
LEMMA ParamsAreNamed ==
  ASSUME NEW name, NEW p, name \notin Margins
  PROVE  "" \notin Body(name, p).params
<1>1. CASE name \in FormNames
  <2>1. Body(name, p).params = {e.param : e \in FormEntries(Forms[name], p)}
    BY <1>1, Bodies
  <2>2. ASSUME NEW e \in FormEntries(Forms[name], p) PROVE e.param # ""
    <3>1. \E n \in DOMAIN Forms[name].required \cup DOMAIN Forms[name].optional :
             e.param = n
      BY EntryOfForm, AddedIs
    <3> QED BY <1>1, <3>1, FormsAreNamed DEF IsNamed
  <2> QED BY <2>1, <2>2
<1>2. CASE name \in GttNames
  <2>1. Body(name, p).params = {"type", "condition", "orders"}
    BY <1>2, Bodies
  <2> QED BY <2>1
<1>3. CASE name \notin FormNames \cup GttNames
  <2>1. Body(name, p) = NoBody
    BY <1>3, Bodies
  <2> QED BY <2>1 DEF NoBody
<1> QED BY <1>1, <1>2, <1>3

\* Each method reads the answer as the table types it, and gives the body that
\* the content type announces.
THEOREM BodiesAlwaysAgree == Spec => []BodiesAgree
<1>1. Calling => BodiesAgree
  <2> SUFFICES ASSUME Calling, sent # <<>> PROVE BodiesAgree
    BY DEF BodiesAgree
  <2> DEFINE e == ServiceOf(called)
             body == Body(called.name, passed)
             params == sent[1].body.params
  <2>1. sent = <<RequestOf(called, args, passed)>> /\ called \in Methods
    BY DEF Calling
  <2>2. Serves(called, e)
    BY <2>1, TheServiceServes
  <2>3. sent[1].body = Carried(e, body)
    BY <2>1 DEF RequestOf, sendReq
  <2>4. params = body.params \/ (params = {} /\ e.method \notin {"POST", "PUT"})
    BY <2>3 DEF Carried, NoBody
  <2>5. (e.responseType = "NON_JSON") <=> (called.reads = "raw")
    BY <2>2 DEF Serves
  <2>6. CASE called.name \in Margins
    <3>1. e.method \in {"POST", "PUT"} /\ e.contentType = "JSON"
      BY <2>2, <2>6 DEF Serves, Bodied
    <3>2. body.params = {""}
      BY <2>6, Bodies
    <3> QED BY <2>4, <2>5, <3>1, <3>2 DEF BodiesAgree
  <2>7. CASE called.name \notin Margins
    <3>1. "" \notin params
      BY <2>4, <2>7, ParamsAreNamed
    <3>2. e.contentType # "JSON"
      BY <2>2, <2>7 DEF Serves
    <3> QED BY <2>5, <3>1, <3>2 DEF BodiesAgree
  <2> QED BY <2>6, <2>7
<1> QED BY <1>1, CallingHolds, PTL

-----------------------------------------------------------------------------
(* What the program passes is in the path or in the body.                  *)

\* A form has every member of its struct that is not in the path, and no other.
IsComplete(form, path) ==
  /\ \A n \in DOMAIN form.required : form.required[n] \in DOMAIN form.struct.required
  /\ \A m \in path : m \in DOMAIN form.struct.required
  /\ \A m \in DOMAIN form.struct.required :
        m \in path \/ \E n \in DOMAIN form.required : form.required[n] = m
  /\ \A m \in DOMAIN form.struct.optional :
        \E n \in DOMAIN form.optional : form.optional[n] = m

\* So have all the forms.
LEMMA FormsAreComplete == \A name \in FormNames : IsComplete(Forms[name], PathMembers(name))
<1> USE DEF IsComplete, Form, NoMembers, Struct, PathMembers, sessionParams,
      placeOrderParams, modifyOrderParams, placeMfOrderParams, placeMfSipParams,
      modifyMfSipParams, convertPositionParams
<1>1. IsComplete(sessionForm, PathMembers("generateSession"))
  BY DEF sessionForm
<1>2. IsComplete(placeOrderForm, PathMembers("placeOrder"))
  BY DEF placeOrderForm
<1>3. IsComplete(modifyOrderForm, PathMembers("modifyOrder"))
  BY DEF modifyOrderForm
<1>4. IsComplete(placeMfOrderForm, PathMembers("placeMfOrder"))
  BY DEF placeMfOrderForm
<1>5. IsComplete(placeMfSipForm, PathMembers("placeMfSip"))
  BY DEF placeMfSipForm
<1>6. IsComplete(modifyMfSipForm, PathMembers("modifyMfSip"))
  BY DEF modifyMfSipForm
<1>7. IsComplete(convertPositionForm, PathMembers("convertPosition"))
  BY DEF convertPositionForm
<1> HIDE DEF IsComplete, PathMembers
<1> QED BY <1>1, <1>2, <1>3, <1>4, <1>5, <1>6, <1>7, TheForms DEF FormNames

\* What entries tell of the program: element, member and decimals.
Told(entries) == {<<e.index, e.member, e.decimals>> : e \in entries}

\* The members an object of JSON has.
NamesOf(names) == {names[n] : n \in DOMAIN names}

\* The builder has a branch for the types of all of them.
IsStored(struct, names) ==
  \A n \in DOMAIN names : TypeIn(struct, names[n]) \in StoredTypes

\* Entries of one element that tell one element of the program.
Tells(entries, element, index, told) ==
  /\ Told(entries) = told
  /\ \A e \in entries : e.element = element /\ e.index = index

\* An object tells the members it has.
LEMMA JsonTold ==
  ASSUME NEW param, NEW element, NEW index, NEW struct, NEW names, NEW p,
         IsStored(struct, names)
  PROVE  Tells(JsonMembers(param, element, index, struct, names, p), element, index,
               Typed(index, NamesOf(names), struct, p))
<1> DEFINE J == JsonMembers(param, element, index, struct, names, p)
           E(n) == Entry(param, element, n, index, names[n],
                         Decimals(TypeIn(struct, names[n]), p))
<1>1. J = {E(n) : n \in DOMAIN names}
  BY DEF JsonMembers, field, IsStored
<1>2. \A n : /\ E(n).index = index /\ E(n).element = element /\ E(n).member = names[n]
             /\ E(n).decimals = Decimals(TypeIn(struct, names[n]), p)
  BY DEF Entry
<1> DEFINE D(m) == Decimals(TypeIn(struct, m), p)
<1>3. Typed(index, NamesOf(names), struct, p) = {<<index, m, D(m)>> : m \in NamesOf(names)}
  BY DEF Typed
<1>4. \A n : <<E(n).index, E(n).member, E(n).decimals>> = <<index, names[n], D(names[n])>>
  BY <1>2
<1> HIDE DEF E, J, D
<1>5. Told(J) = {<<index, names[n], D(names[n])>> : n \in DOMAIN names}
  BY <1>1, <1>4 DEF Told
<1>6. Told(J) = Typed(index, NamesOf(names), struct, p)
  BY <1>3, <1>5 DEF NamesOf
<1> QED BY <1>1, <1>2, <1>6 DEF J, Tells

\* Elements and members without the decimals.
Pairs(S) == {<<v[1], v[2]>> : v \in S}

\* They are those of the members.
LEMMA TypedPairs ==
  ASSUME NEW i, NEW M, NEW struct, NEW p
  PROVE  Pairs(Typed(i, M, struct, p)) = {<<i, m>> : m \in M}
<1> DEFINE D(m) == Decimals(TypeIn(struct, m), p)
<1>1. Typed(i, M, struct, p) = {<<i, m, D(m)>> : m \in M}
  BY DEF Typed
<1> DEFINE F(v) == <<v[1], v[2]>>
<1>2. \A m : F(<<i, m, D(m)>>) = <<i, m>>
  OBVIOUS
<1>3. Pairs(Typed(i, M, struct, p)) = {F(v) : v \in Typed(i, M, struct, p)}
  BY DEF Pairs
<1> HIDE DEF D, F
<1>4. ASSUME NEW x \in Pairs(Typed(i, M, struct, p)) PROVE x \in {<<i, m>> : m \in M}
  <2>1. PICK v \in Typed(i, M, struct, p) : x = F(v)
    BY <1>3
  <2>2. PICK m \in M : v = <<i, m, D(m)>>
    BY <1>1
  <2>3. x = <<i, m>>
    BY <1>2, <2>1, <2>2
  <2> QED BY <2>3
<1>5. ASSUME NEW m \in M PROVE <<i, m>> \in Pairs(Typed(i, M, struct, p))
  <2>1. <<i, m, D(m)>> \in Typed(i, M, struct, p)
    BY <1>1
  <2>2. F(<<i, m, D(m)>>) = <<i, m>>
    BY <1>2
  <2> QED BY <1>3, <2>1, <2>2
<1> QED BY <1>4, <1>5

\* Entries together tell what they tell one by one.
LEMMA ToldOf ==
  /\ \A S, T : Told(S \cup T) = Told(S) \cup Told(T)
  /\ \A F : Told(UNION F) = UNION {Told(S) : S \in F}
  /\ \A S : {<<e.index, e.member>> : e \in S} = Pairs(Told(S))
<1>1. \A S, T : Told(S \cup T) = Told(S) \cup Told(T)
  BY DEF Told
<1>2. ASSUME NEW F PROVE Told(UNION F) = UNION {Told(S) : S \in F}
  BY DEF Told
<1>3. ASSUME NEW S PROVE {<<e.index, e.member>> : e \in S} = Pairs(Told(S))
  <2> DEFINE P(e) == <<e.index, e.member>>
             V(e) == <<e.index, e.member, e.decimals>>
             F(v) == <<v[1], v[2]>>
  <2>1. \A e : F(V(e)) = P(e)
    OBVIOUS
  <2>2. Pairs(Told(S)) = {F(v) : v \in {V(e) : e \in S}}
    BY DEF Pairs, Told
  <2> HIDE DEF P, V, F
  <2>3. {P(e) : e \in S} = {F(v) : v \in {V(e) : e \in S}}
    BY <2>1
  <2> QED BY <2>2, <2>3 DEF P
<1> QED BY <1>1, <1>2, <1>3

\* ParametersReach of the entries of a body and the members in the path.
Arrives(entries, path, program, p) ==
  /\ {<<e.index, e.member>> : e \in entries} \cup ({0} \X path)
       = {<<v[1], v[2]>> : v \in program}
  /\ \A e \in entries :
        /\ e.index \in {0, e.element}
        /\ p.decimals <= ToStringDecimals
             => <<e.index, e.member, e.decimals>> \in program

\* It is so if the entries and the path tell what is passed, decimals and all.
LEMMA ToldArrives ==
  ASSUME NEW entries, NEW path, NEW program, NEW struct, NEW p,
         Told(entries) \cup Typed(0, path, struct, p) = program,
         \A e \in entries : e.index \in {0, e.element}
  PROVE  Arrives(entries, path, program, p)
<1>1. \A e \in entries : <<e.index, e.member, e.decimals>> \in program
  BY DEF Told
<1>2. Pairs(program) = Pairs(Told(entries)) \cup Pairs(Typed(0, path, struct, p))
  BY DEF Pairs
<1>3. Pairs(Typed(0, path, struct, p)) = {0} \X path
  <2>1. Pairs(Typed(0, path, struct, p)) = {<<0, m>> : m \in path}
    BY TypedPairs
  <2> QED BY <2>1
<1>4. {<<e.index, e.member>> : e \in entries} = Pairs(Told(entries))
  BY ToldOf
<1>5. Pairs(program) = {<<v[1], v[2]>> : v \in program}
  BY DEF Pairs
<1> QED BY <1>1, <1>2, <1>3, <1>4, <1>5 DEF Arrives

\* A form that is complete tells what is passed, but for decimals.
LEMMA FormArrives ==
  ASSUME NEW form, NEW path, NEW p, IsComplete(form, path),
         p.given \subseteq DOMAIN form.struct.optional, p.decimals \in Nat
  PROVE  Arrives(FormEntries(form, p), path,
                 Typed(0, DOMAIN form.struct.required \cup p.given, form.struct, p), p)
<1> DEFINE entries == FormEntries(form, p)
           members == DOMAIN form.struct.required \cup p.given
           program == Typed(0, members, form.struct, p)
           D(m) == Decimals(TypeIn(form.struct, m), p)
<1>1. \A form1, n, m :
     LET e == Added(form1, n, m, p)
     IN  /\ e.member = m /\ e.element = 0 /\ e.index = 0
         /\ e.decimals = Written(TypeIn(form1.struct, m), p)
  BY DEF Added, Entry
<1>2. \A e \in entries : /\ e.index = 0 /\ e.member \in members
                        /\ e.decimals = Written(TypeIn(form.struct, e.member), p)
  BY <1>1 DEF FormEntries, IsComplete
<1>3. \A m \in members : m \in path \/ \E e \in entries : e.member = m /\ e.index = 0
  <2>1. ASSUME NEW m \in DOMAIN form.struct.required, m \notin path
        PROVE \E e \in entries : e.member = m /\ e.index = 0
    <3>1. PICK n \in DOMAIN form.required : form.required[n] = m
      BY <2>1 DEF IsComplete
    <3>2. Added(form, n, m, p) \in entries
      BY <3>1 DEF FormEntries
    <3> QED BY <1>1, <3>2
  <2>2. ASSUME NEW m \in p.given
        PROVE \E e \in entries : e.member = m /\ e.index = 0
    <3>1. PICK n \in DOMAIN form.optional : form.optional[n] = m
      BY <2>2 DEF IsComplete
    <3>2. Added(form, n, m, p) \in entries
      BY <2>2, <3>1 DEF FormEntries
    <3> QED BY <1>1, <3>2
  <2> QED BY <2>1, <2>2
<1>4. Pairs(program) = {<<0, m>> : m \in members}
  BY TypedPairs
<1>5. path \subseteq members
  BY DEF IsComplete
<1>6. p.decimals <= ToStringDecimals
        => \A m \in members : Written(TypeIn(form.struct, m), p) = D(m)
  BY DEF Written, ToStringDecimals, Decimals
<1>7. \A m \in members : <<0, m, D(m)>> \in program
  BY DEF Typed
<1> HIDE DEF entries, members, program, D
<1>8. ASSUME NEW e \in entries
      PROVE  /\ e.index \in {0, e.element}
             /\ p.decimals <= ToStringDecimals
                    => <<e.index, e.member, e.decimals>> \in program
  BY <1>2, <1>6, <1>7
<1>9. {<<e.index, e.member>> : e \in entries} \cup ({0} \X path)
        = {<<0, m>> : m \in members}
  BY <1>2, <1>3, <1>5
<1> QED BY <1>4, <1>8, <1>9 DEF Arrives, Pairs, entries, members, program

\* The margins tell every member of every element.
LEMMA MarginsTold ==
  ASSUME NEW p
  PROVE  /\ Told(MarginsEntries(p))
               = UNION {Typed(i, Members(marginsParams), marginsParams, p) : i \in 1..p.list}
         /\ \A e \in MarginsEntries(p) : e.index = e.element
<1> DEFINE names == [exchange |-> "exchange", tradingsymbol |-> "tradingsymbol",
             transaction_type |-> "transactionType", variety |-> "variety",
             product |-> "product", order_type |-> "orderType",
             quantity |-> "quantity", price |-> "price",
             trigger_price |-> "triggerPrice"]
           J(i) == JsonMembers("", i, i, marginsParams, names, p)
           T(i) == Typed(i, Members(marginsParams), marginsParams, p)
<1>1. MarginsEntries(p) = UNION {J(i) : i \in 1..p.list}
  BY DEF MarginsEntries
<1>2. /\ NamesOf(names) = Members(marginsParams)
      /\ IsStored(marginsParams, names)
  BY DEF IsStored, NamesOf, Members, marginsParams, Struct, NoMembers, TypeIn, StoredTypes
<1>3. ASSUME NEW i
      PROVE  Tells(J(i), i, i, T(i))
  <2> HIDE DEF names
  <2>1. Tells(J(i), i, i, Typed(i, NamesOf(names), marginsParams, p))
    BY <1>2, JsonTold
  <2> QED BY <1>2, <2>1
<1> HIDE DEF J, T
<1>4. Told(UNION {J(i) : i \in 1..p.list}) = UNION {T(i) : i \in 1..p.list}
  <2>1. Told(UNION {J(i) : i \in 1..p.list})
          = UNION {Told(S) : S \in {J(i) : i \in 1..p.list}}
    BY ToldOf
  <2> QED BY <1>3, <2>1 DEF Tells
<1>5. \A e \in UNION {J(i) : i \in 1..p.list} : e.index = e.element
  BY <1>3 DEF Tells
<1> QED BY <1>1, <1>4, <1>5 DEF T

\* A GTT tells its members, its trigger values and its orders.
LEMMA GttTold ==
  ASSUME NEW struct \in {placeGttParams, modifyGttParams}, NEW p
  PROVE  /\ Told(GttEntries(struct, p))
               = Typed(0, {"triggerType", "exchange", "symbol", "lastPrice"}, struct, p)
                   \cup {<<i, "triggerValues", p.decimals>> : i \in 1..p.values}
                   \cup UNION {Typed(i, Members(gttParams), gttParams, p) : i \in 1..p.list}
         /\ \A e \in GttEntries(struct, p) : e.index \in {0, e.element}
<1> DEFINE condition == [exchange |-> "exchange", tradingsymbol |-> "symbol",
                         last_price |-> "lastPrice"]
           symbol == [exchange |-> "exchange", tradingsymbol |-> "symbol"]
           order == [transaction_type |-> "transactionType", quantity |-> "quantity",
                     order_type |-> "orderType", product |-> "product",
                     price |-> "price"]
           C == JsonMembers("condition", 0, 0, struct, condition, p)
           V == {Entry("condition", i, "trigger_values", i, "triggerValues", p.decimals)
                   : i \in 1..p.values}
           S(i) == JsonMembers("orders", i, 0, struct, symbol, p)
           O(i) == JsonMembers("orders", i, i, gttParams, order, p)
           type == {Entry("type", 0, "type", 0, "triggerType", 0)}
           T(M) == Typed(0, M, struct, p)
           G(i) == Typed(i, Members(gttParams), gttParams, p)
           R == 1..p.list
<1>1. GttEntries(struct, p) = type \cup (C \cup V) \cup UNION {S(i) \cup O(i) : i \in R}
  BY DEF GttEntries, getConditionJson, getOrdersJson
<1>2. /\ NamesOf(condition) = {"exchange", "symbol", "lastPrice"}
      /\ NamesOf(symbol) = {"exchange", "symbol"}
      /\ NamesOf(order) = Members(gttParams)
  BY DEF NamesOf, Members, gttParams, Struct, NoMembers
<1>3. IsStored(struct, condition) /\ IsStored(struct, symbol) /\ IsStored(gttParams, order)
  BY DEF IsStored, placeGttParams, modifyGttParams, gttParams, Struct, NoMembers,
     TypeIn, StoredTypes
<1>4. TypeIn(struct, "triggerType") = "string"
  BY DEF placeGttParams, modifyGttParams, Struct, TypeIn
<1> HIDE DEF condition, symbol, order
<1>5. Tells(C, 0, 0, T({"exchange", "symbol", "lastPrice"}))
  <2>1. Tells(C, 0, 0, T(NamesOf(condition)))
    BY <1>3, JsonTold
  <2> QED BY <1>2, <2>1
<1>6. ASSUME NEW i
      PROVE  Tells(S(i), i, 0, T({"exchange", "symbol"})) /\ Tells(O(i), i, i, G(i))
  <2>1. Tells(S(i), i, 0, T(NamesOf(symbol)))
    BY <1>3, JsonTold
  <2>2. Tells(O(i), i, i, Typed(i, NamesOf(order), gttParams, p))
    BY <1>3, JsonTold
  <2> QED BY <1>2, <2>1, <2>2
<1>7. /\ Told(V) = {<<i, "triggerValues", p.decimals>> : i \in 1..p.values}
      /\ \A e \in V : e.index = e.element
  <2> DEFINE E(i) == Entry("condition", i, "trigger_values", i, "triggerValues", p.decimals)
  <2>1. \A i : /\ E(i).index = i /\ E(i).element = i
               /\ <<E(i).index, E(i).member, E(i).decimals>>
                     = <<i, "triggerValues", p.decimals>>
    BY DEF Entry
  <2>2. V = {E(i) : i \in 1..p.values}
    OBVIOUS
  <2> HIDE DEF E, V
  <2> QED BY <2>1, <2>2 DEF Told
<1>8. Told(type) = T({"triggerType"}) /\ \A e \in type : e.index = 0
  BY <1>4 DEF Told, Entry, Typed, Decimals
<1>9. T({"triggerType", "exchange", "symbol", "lastPrice"})
        = T({"triggerType"}) \cup T({"exchange", "symbol", "lastPrice"})
  BY DEF Typed
<1>10. T({"exchange", "symbol"}) \subseteq T({"exchange", "symbol", "lastPrice"})
  BY DEF Typed
<1> HIDE DEF C, V, S, O, type, T, G, R
<1>11. ASSUME NEW i
       PROVE  Told(S(i) \cup O(i)) = T({"exchange", "symbol"}) \cup G(i)
  <2>1. Told(S(i) \cup O(i)) = Told(S(i)) \cup Told(O(i))
    BY ToldOf
  <2> QED BY <1>6, <2>1 DEF Tells
<1>12. Told(UNION {S(i) \cup O(i) : i \in R})
         = UNION {T({"exchange", "symbol"}) \cup G(i) : i \in R}
  <2> DEFINE U(i) == S(i) \cup O(i)
             W(i) == T({"exchange", "symbol"}) \cup G(i)
  <2>1. \A i : Told(U(i)) = W(i)
    BY <1>11
  <2> HIDE DEF U, W
  <2>2. Told(UNION {U(i) : i \in R}) = UNION {Told(X) : X \in {U(i) : i \in R}}
    BY ToldOf
  <2>3. Told(UNION {U(i) : i \in R}) = UNION {W(i) : i \in R}
    BY <2>1, <2>2
  <2> QED BY <2>3 DEF U, W
<1>13. Told(type \cup (C \cup V) \cup UNION {S(i) \cup O(i) : i \in R})
         = Told(type) \cup (Told(C) \cup Told(V))
             \cup Told(UNION {S(i) \cup O(i) : i \in R})
  <2> DEFINE U == UNION {S(i) \cup O(i) : i \in R}
  <2>1. Told(type \cup (C \cup V) \cup U) = Told(type \cup (C \cup V)) \cup Told(U)
    BY ToldOf
  <2>2. Told(type \cup (C \cup V)) = Told(type) \cup Told(C \cup V)
    BY ToldOf
  <2>3. Told(C \cup V) = Told(C) \cup Told(V)
    BY ToldOf
  <2> QED BY <2>1, <2>2, <2>3
<1>14. Told(GttEntries(struct, p))
         = T({"triggerType", "exchange", "symbol", "lastPrice"})
             \cup Told(V) \cup UNION {G(i) : i \in R}
  <2> DEFINE A == T({"triggerType"})
             B == T({"exchange", "symbol", "lastPrice"})
             E == T({"exchange", "symbol"})
  <2>1. Told(GttEntries(struct, p))
          = A \cup (B \cup Told(V)) \cup UNION {E \cup G(i) : i \in R}
    BY <1>1, <1>5, <1>8, <1>12, <1>13 DEF Tells
  <2> HIDE DEF A, B, E
  <2>2. E \subseteq B /\ T({"triggerType", "exchange", "symbol", "lastPrice"}) = A \cup B
    BY <1>9, <1>10 DEF A, B, E
  <2>3. E \cup UNION {E \cup G(i) : i \in R} = E \cup UNION {G(i) : i \in R}
    OBVIOUS
  <2> QED BY <2>1, <2>2, <2>3
<1>15. \A e \in GttEntries(struct, p) : e.index \in {0, e.element}
  BY <1>1, <1>5, <1>6, <1>7, <1>8 DEF Tells
<1> QED BY <1>7, <1>14, <1>15 DEF T, G, R

\* What a program has passed, by the kind of the body.
LEMMA PassedIs ==
  ASSUME NEW name, NEW p
  PROVE  /\ name \in FormNames =>
              Passed(name, p) = Typed(0, DOMAIN Forms[name].struct.required \cup p.given,
                                      Forms[name].struct, p)
         /\ name \in GttNames =>
              Passed(name, p) =
                Typed(0, Members(Gtts[name]), Gtts[name], p)
                  \cup {<<i, "triggerValues", p.decimals>> : i \in 1..p.values}
                  \cup UNION {Typed(i, Members(gttParams), gttParams, p) : i \in 1..p.list}
         /\ name \in Margins =>
              Passed(name, p) =
                UNION {Typed(i, Members(marginsParams), marginsParams, p) : i \in 1..p.list}
         /\ name \notin FormNames \cup GttNames \cup Margins => Passed(name, p) = {}
<1>1. DOMAIN Forms = FormNames /\ DOMAIN Gtts = GttNames
  BY Bodies
<1>2. CASE name \in FormNames
  <2>1. name \notin GttNames /\ name \notin Margins
    BY <1>2 DEF FormNames, GttNames, Margins
  <2> QED BY <1>1, <1>2, <2>1 DEF Passed
<1>3. CASE name \in GttNames
  <2>1. name \notin FormNames /\ name \notin Margins
    BY <1>3 DEF FormNames, GttNames, Margins
  <2> QED BY <1>1, <1>3, <2>1 DEF Passed
<1>4. CASE name \in Margins
  <2>1. name \notin FormNames /\ name \notin GttNames
    BY <1>4 DEF FormNames, GttNames, Margins
  <2> QED BY <1>1, <1>4, <2>1 DEF Passed
<1>5. CASE name \notin FormNames \cup GttNames \cup Margins
  BY <1>1, <1>5 DEF Passed
<1> QED BY <1>2, <1>3, <1>4, <1>5

\* What a program can pass.
LEMMA PassableIs ==
  ASSUME NEW name, NEW p \in Passable(name, MaxList, DecimalsSet)
  PROVE  /\ name \in FormNames => p.given \subseteq DOMAIN Forms[name].struct.optional
         /\ p.decimals \in Nat
<1>1. DOMAIN Forms = FormNames
  BY Bodies
<1>2. DecimalsSet \subseteq Nat
  BY EndpointsAssumption
<1>3. p.given \in SUBSET (IF name \in DOMAIN Forms
                            THEN DOMAIN Forms[name].struct.optional ELSE {})
  BY DEF Passable
<1>4. p.decimals \in DecimalsSet \cup {0}
  BY DEF Passable
<1>5. p.decimals \in Nat
  <2>1. DecimalsSet \cup {0} \subseteq Nat
    BY <1>2
  <2> QED BY <1>4, <2>1, Zenon
<1>6. ASSUME name \in FormNames
      PROVE  p.given \subseteq DOMAIN Forms[name].struct.optional
  <2> DEFINE optional == DOMAIN Forms[name].struct.optional
  <2>1. p.given \in SUBSET (IF name \in DOMAIN Forms THEN optional ELSE {})
    BY <1>3
  <2> HIDE DEF optional
  <2>2. p.given \in SUBSET optional
    BY <1>1, <1>6, <2>1
  <2> QED BY <2>2 DEF optional
<1> QED BY <1>5, <1>6

\* Whatever a program passes reaches the server.
LEMMA EveryParameterReaches ==
  ASSUME NEW name, NEW p \in Passable(name, MaxList, DecimalsSet)
  PROVE  Arrives(Body(name, p).entries, PathMembers(name), Passed(name, p), p)
<1>1. CASE name \in FormNames
  <2> DEFINE form == Forms[name]
  <2>1. /\ Body(name, p).entries = FormEntries(form, p)
        /\ Passed(name, p) = Typed(0, DOMAIN form.struct.required \cup p.given,
                                   form.struct, p)
    BY <1>1, Bodies, PassedIs
  <2>2. /\ IsComplete(form, PathMembers(name))
        /\ p.given \subseteq DOMAIN form.struct.optional /\ p.decimals \in Nat
    BY <1>1, FormsAreComplete, PassableIs
  <2> HIDE DEF form
  <2> QED BY <2>1, <2>2, FormArrives
<1>2. CASE name \in GttNames
  <2> DEFINE struct == Gtts[name]
             four == {"triggerType", "exchange", "symbol", "lastPrice"}
             path == PathMembers(name)
  <2>1. /\ struct \in {placeGttParams, modifyGttParams}
        /\ Members(struct) = four \cup path
    BY <1>2 DEF GttNames, Gtts, placeGttParams, modifyGttParams, Struct, NoMembers,
       Members, PathMembers
  <2> HIDE DEF struct, four, path
  <2>2. Typed(0, four \cup path, struct, p)
          = Typed(0, four, struct, p) \cup Typed(0, path, struct, p)
    BY DEF Typed
  <2>3. Body(name, p).entries = GttEntries(struct, p)
    BY <1>2, Bodies DEF struct
  <2>4. Told(Body(name, p).entries) \cup Typed(0, path, struct, p) = Passed(name, p)
    <3>1. Passed(name, p) =
            Typed(0, Members(struct), struct, p)
              \cup {<<i, "triggerValues", p.decimals>> : i \in 1..p.values}
              \cup UNION {Typed(i, Members(gttParams), gttParams, p) : i \in 1..p.list}
      BY <1>2, PassedIs DEF struct
    <3>2. Told(GttEntries(struct, p))
            = Typed(0, four, struct, p)
                \cup {<<i, "triggerValues", p.decimals>> : i \in 1..p.values}
                \cup UNION {Typed(i, Members(gttParams), gttParams, p) : i \in 1..p.list}
      BY <2>1, GttTold DEF four
    <3> QED BY <2>1, <2>2, <2>3, <3>1, <3>2
  <2>5. \A e \in Body(name, p).entries : e.index \in {0, e.element}
    BY <2>1, <2>3, GttTold
  <2> QED BY <2>4, <2>5, ToldArrives DEF path
<1>3. CASE name \in Margins
  <2>1. PathMembers(name) = {}
    BY <1>3 DEF Margins, PathMembers
  <2>2. Typed(0, PathMembers(name), marginsParams, p) = {}
    BY <2>1 DEF Typed
  <2>3. Body(name, p).entries = MarginsEntries(p)
    BY <1>3, Bodies
  <2>4. Told(Body(name, p).entries) \cup Typed(0, PathMembers(name), marginsParams, p)
          = Passed(name, p)
    <3>1. Passed(name, p) =
            UNION {Typed(i, Members(marginsParams), marginsParams, p) : i \in 1..p.list}
      BY <1>3, PassedIs
    <3>2. Told(MarginsEntries(p)) = Passed(name, p)
      BY <3>1, MarginsTold
    <3> QED BY <2>2, <2>3, <3>2
  <2>5. \A e \in Body(name, p).entries : e.index \in {0, e.element}
    BY <2>3, MarginsTold
  <2> QED BY <2>4, <2>5, ToldArrives
<1>4. CASE name \notin FormNames \cup GttNames \cup Margins
  <2>1. PathMembers(name) = {}
    BY <1>4 DEF FormNames, GttNames, PathMembers
  <2>2. Body(name, p).entries = {}
    <3>1. Body(name, p) = NoBody
      BY <1>4, Bodies
    <3> QED BY <3>1 DEF NoBody
  <2>3. Passed(name, p) = {}
    BY <1>4, PassedIs
  <2> QED BY <2>1, <2>2, <2>3 DEF Arrives
<1> QED BY <1>1, <1>2, <1>3, <1>4

\* The body of a call leaves with its request.
LEMMA BodyIsSent ==
  ASSUME Calling, sent # <<>>
  PROVE  sent[1].body.entries = Body(called.name, passed).entries
<1> DEFINE e == ServiceOf(called)
           body == Body(called.name, passed)
<1>1. sent = <<RequestOf(called, args, passed)>> /\ called \in Methods
  BY DEF Calling
<1>2. sent[1].body = Carried(e, body)
  BY <1>1 DEF RequestOf, sendReq
<1>3. CASE called.name \in Bodied
  <2>1. e.method \in {"POST", "PUT"}
    BY <1>1, <1>3, TheServiceServes DEF Serves
  <2> QED BY <1>2, <2>1 DEF Carried
<1>4. CASE called.name \notin Bodied
  <2>1. body = NoBody
    BY <1>4, Bodies DEF Bodied
  <2> QED BY <1>2, <2>1 DEF Carried
<1> QED BY <1>3, <1>4

\* What the program has set in the parameters of a call, in any element of their
\* lists, is in the path or in the body of the request, and nothing else is.
THEOREM ParametersAllReach == Spec => []ParametersReach
<1>1. Calling => ParametersReach
  <2> SUFFICES ASSUME Calling, sent # <<>> PROVE ParametersReach
    BY DEF ParametersReach
  <2>1. Arrives(sent[1].body.entries, PathMembers(called.name),
                Passed(called.name, passed), passed)
    BY BodyIsSent, EveryParameterReaches DEF Calling
  <2> QED BY <2>1 DEF ParametersReach, Arrives
<1> QED BY <1>1, CallingHolds, PTL

-----------------------------------------------------------------------------
(* Names.                                                                  *)

\* What the server calls each member.
NameOf ==
  [key |-> "api_key", requestToken |-> "request_token", apiSecret |-> "checksum",
   exchange |-> "exchange", symbol |-> "tradingsymbol",
   tradingsymbol |-> "tradingsymbol", transactionType |-> "transaction_type",
   quantity |-> "quantity", product |-> "product", orderType |-> "order_type",
   variety |-> "variety", price |-> "price", validity |-> "validity",
   disclosedQuantity |-> "disclosed_quantity", triggerPrice |-> "trigger_price",
   squareOff |-> "squareoff", stopLoss |-> "stoploss",
   trailingStopLoss |-> "trailing_stoploss", icebergLegs |-> "iceberg_legs",
   icebergQuantity |-> "iceberg_quantity", validityTtl |-> "validity_ttl",
   tag |-> "tag", parentOrderId |-> "parent_order_id", amount |-> "amount",
   installments |-> "instalments", frequency |-> "frequency",
   initialAmount |-> "initial_amount", installmentDay |-> "instalment_day",
   status |-> "status", positionType |-> "position_type",
   oldProduct |-> "old_product", newProduct |-> "new_product",
   lastPrice |-> "last_price", triggerValues |-> "trigger_values",
   triggerType |-> "type"]

\* A form, or an object, that calls its members so.
Spells(names) == \A n \in DOMAIN names : NameOf[names[n]] = n

SpellsForm(form) == Spells(form.required) /\ Spells(form.optional)

\* Entries that do.
Spelled(entries) == \A e \in entries : e.name = NameOf[e.member]

\* All the forms do.
LEMMA FormsSpell == \A name \in FormNames : SpellsForm(Forms[name])
<1> USE DEF SpellsForm, Spells, NameOf, Form, NoMembers
<1>1. SpellsForm(sessionForm)
  BY DEF sessionForm
<1>2. SpellsForm(placeOrderForm)
  BY DEF placeOrderForm
<1>3. SpellsForm(modifyOrderForm)
  BY DEF modifyOrderForm
<1>4. SpellsForm(placeMfOrderForm)
  BY DEF placeMfOrderForm
<1>5. SpellsForm(placeMfSipForm)
  BY DEF placeMfSipForm
<1>6. SpellsForm(modifyMfSipForm)
  BY DEF modifyMfSipForm
<1>7. SpellsForm(convertPositionForm)
  BY DEF convertPositionForm
<1> HIDE DEF SpellsForm
<1> QED BY <1>1, <1>2, <1>3, <1>4, <1>5, <1>6, <1>7, TheForms DEF FormNames

\* An object that does makes entries that do.
LEMMA JsonSpells ==
  ASSUME NEW param, NEW element, NEW index, NEW struct, NEW names, NEW p,
         IsStored(struct, names), Spells(names)
  PROVE  Spelled(JsonMembers(param, element, index, struct, names, p))
<1> SUFFICES ASSUME NEW n \in DOMAIN names
             PROVE  LET e == Entry(param, element, n, index,
                                   field(TypeIn(struct, names[n]), names[n]),
                                   Decimals(TypeIn(struct, names[n]), p))
                    IN  e.name = NameOf[e.member]
  BY DEF Spelled, JsonMembers
<1>1. field(TypeIn(struct, names[n]), names[n]) = names[n]
  BY DEF field, IsStored
<1> QED BY <1>1 DEF Entry, Spells

\* So all the bodies do.
LEMMA BodiesSpell ==
  ASSUME NEW name, NEW p
  PROVE  Spelled(Body(name, p).entries)
<1>1. CASE name \in FormNames
  <2>1. SpellsForm(Forms[name])
    BY <1>1, FormsSpell
  <2>2. Spelled(FormEntries(Forms[name], p))
    <3> SUFFICES ASSUME NEW e \in FormEntries(Forms[name], p)
                 PROVE  e.name = NameOf[e.member]
      BY DEF Spelled
    <3> QED BY <2>1, EntryOfForm, AddedIs DEF SpellsForm, Spells
  <2> QED BY <1>1, <2>2, Bodies
<1>2. CASE name \in GttNames
  <2> DEFINE struct == Gtts[name]
             condition == [exchange |-> "exchange", tradingsymbol |-> "symbol",
                           last_price |-> "lastPrice"]
             symbol == [exchange |-> "exchange", tradingsymbol |-> "symbol"]
             order == [transaction_type |-> "transactionType", quantity |-> "quantity",
                       order_type |-> "orderType", product |-> "product",
                       price |-> "price"]
             C == JsonMembers("condition", 0, 0, struct, condition, p)
             V == {Entry("condition", i, "trigger_values", i, "triggerValues", p.decimals)
                     : i \in 1..p.values}
             S(i) == JsonMembers("orders", i, 0, struct, symbol, p)
             O(i) == JsonMembers("orders", i, i, gttParams, order, p)
             type == {Entry("type", 0, "type", 0, "triggerType", 0)}
  <2>1. struct \in {placeGttParams, modifyGttParams}
    BY <1>2 DEF GttNames, Gtts
  <2> HIDE DEF struct
  <2>2. IsStored(struct, condition) /\ IsStored(struct, symbol) /\ IsStored(gttParams, order)
    BY <2>1 DEF IsStored, placeGttParams, modifyGttParams, gttParams, Struct,
       NoMembers, TypeIn, StoredTypes
  <2>3. Spells(condition) /\ Spells(symbol) /\ Spells(order)
    BY DEF Spells, NameOf
  <2>4. Spelled(V) /\ Spelled(type)
    BY DEF Spelled, Entry, NameOf
  <2>5. GttEntries(struct, p)
          = type \cup (C \cup V) \cup UNION {S(i) \cup O(i) : i \in 1..p.list}
    BY DEF GttEntries, getConditionJson, getOrdersJson
  <2> HIDE DEF condition, symbol, order
  <2>6. Spelled(C) /\ \A i : Spelled(S(i)) /\ Spelled(O(i))
    BY <2>2, <2>3, JsonSpells
  <2> HIDE DEF C, V, S, O, type
  <2>7. Spelled(GttEntries(struct, p))
    BY <2>4, <2>5, <2>6 DEF Spelled
  <2> QED BY <1>2, <2>7, Bodies DEF struct
<1>3. CASE name \in Margins
  <2> DEFINE names == [exchange |-> "exchange", tradingsymbol |-> "tradingsymbol",
               transaction_type |-> "transactionType", variety |-> "variety",
               product |-> "product", order_type |-> "orderType",
               quantity |-> "quantity", price |-> "price",
               trigger_price |-> "triggerPrice"]
             J(i) == JsonMembers("", i, i, marginsParams, names, p)
  <2>1. IsStored(marginsParams, names)
    BY DEF IsStored, marginsParams, Struct, NoMembers, TypeIn, StoredTypes
  <2>2. Spells(names)
    BY DEF Spells, NameOf
  <2>3. MarginsEntries(p) = UNION {J(i) : i \in 1..p.list}
    BY DEF MarginsEntries
  <2> HIDE DEF names
  <2>4. \A i : Spelled(J(i))
    BY <2>1, <2>2, JsonSpells
  <2> HIDE DEF J
  <2>5. Spelled(MarginsEntries(p))
    BY <2>3, <2>4 DEF Spelled
  <2> QED BY <1>3, <2>5, Bodies
<1>4. CASE name \notin FormNames \cup GttNames \cup Margins
  <2>1. Body(name, p) = NoBody
    BY <1>4, Bodies
  <2> QED BY <2>1 DEF NoBody, Spelled
<1> QED BY <1>1, <1>2, <1>3, <1>4

\* The same member has the same name in every body that has it.
THEOREM NamesAlwaysAgree == Spec => []NamesAgree
<1>1. Calling => NamesAgree
  <2> SUFFICES ASSUME Calling, NEW i \in DOMAIN sent, NEW e \in sent[i].body.entries,
                      NEW name \in AllNames, e.member = name.member
               PROVE  e.name = name.name
    BY DEF NamesAgree
  <2>1. i = 1 /\ sent # <<>>
    BY DEF Calling
  <2>2. e \in Body(called.name, passed).entries
    BY <2>1, BodyIsSent
  <2>3. e.name = NameOf[e.member]
    BY <2>2, BodiesSpell DEF Spelled
  <2>4. name.name = NameOf[name.member]
    <3> DEFINE P(n) == [given |-> Members(Forms[n].struct), values |-> 0, list |-> 0,
                        decimals |-> 0]
               Q == [given |-> {}, values |-> 1, list |-> 1, decimals |-> 0]
               F == UNION {Body(n, P(n)).entries : n \in DOMAIN Forms}
               G == UNION {Body(n, Q).entries : n \in DOMAIN Gtts \cup Margins}
    <3>1. AllNames = {[member |-> f.member, name |-> f.name] : f \in F \cup G}
      BY DEF AllNames
    <3>2. \A f \in F \cup G : f.name = NameOf[f.member]
      <4> HIDE DEF P, Q
      <4> QED BY BodiesSpell DEF Spelled
    <3> HIDE DEF F, G
    <3>3. PICK f \in F \cup G : name = [member |-> f.member, name |-> f.name]
      BY <3>1
    <3> QED BY <3>2, <3>3
  <2> QED BY <2>3, <2>4
<1> QED BY <1>1, CallingHolds, PTL

=============================================================================
