---------------------------- MODULE DecodeProofs ----------------------------
(***************************************************************************)
(* Proofs about Decode: lists come whole, values are returned as they were *)
(* sent, and what ends a call is a value its type does not hold, whatever  *)
(* the length of an answer.  The proofs rest on the tables of the response *)
(* types, and on the places an odd value can be at, a recursive function   *)
(* the module Induction lets the provers reason about.                     *)
(***************************************************************************)
EXTENDS Decode, Induction

-----------------------------------------------------------------------------
(* The tables.                                                             *)

\* How the members of a JSON object, and the elements of its arrays, are read.
Plain == {"string", "double", "int", "uint32", "int64", "bool", "object",
          "objects", "strings", "doubles", "stringEntry", "doubleEntry",
          "element"}

\* The types that are read by position, and the others.
Csv == {"instrument", "mfInstrument"}
Positional == Csv \cup {"historicalData"}
JsonTypes == DOMAIN Members \ Positional

\* What is within a member is of a type that is read by name; tokens and
\* volumes are read as types that hold all of them.
Roomy(f) ==
  /\ f.of = "none" \/ f.of \in JsonTypes
  /\ f.name = "instrument_token" => f.as \in {"uint32", "cellUint32"}
  /\ f.name = "volume" => f.as \in {"int64", "bareInt64"}

Named(f) == Roomy(f) /\ f.as \in Plain

\* The types that are read by name.
LEMMA JsonTypesAre == JsonTypes = {
     "ohlc", "depth", "mDepth", "quote", "ohlcQuote", "ltpQuote", "order",
     "trade", "postback", "GTTCondition", "GTT", "gst", "orderCharges", "pnl",
     "orderMargins", "basketMargins", "placeMfSipResponse", "mfOrder",
     "mfHolding", "mfSip", "holding", "position", "positions", "meta",
     "userProfile", "userSession", "availableMargins", "usedMargins",
     "margins", "allMargins", "orderId", "sipId", "triggerId", "stringEntry",
     "doubleEntry", "flag"}
BY DEF JsonTypes, Members, Positional, Csv

\* Every member of every type that is read by name.
LEMMA JsonMembersAreNamed ==
  \A type \in JsonTypes : \A f \in Members[type] : Named(f)
<1>a. {"depth", "ohlc", "mDepth", "GTTCondition", "order", "gst", "pnl",
       "orderCharges", "orderMargins", "position", "meta", "availableMargins",
       "usedMargins", "margins", "stringEntry", "doubleEntry"}
         \subseteq JsonTypes
  BY JsonTypesAre
<1> USE DEF Named, Roomy, Plain, Fields, Field, Part, Parts
<1>1. \A f \in Ohlc : Named(f)
  BY <1>a DEF Ohlc
<1>2. \A f \in Depth : Named(f)
  BY <1>a DEF Depth
<1>3. \A f \in MDepth : Named(f)
  BY <1>a DEF MDepth
<1>4. \A f \in Quote : Named(f)
  BY <1>a DEF Quote
<1>5. \A f \in OhlcQuote : Named(f)
  BY <1>a DEF OhlcQuote
<1>6. \A f \in LtpQuote : Named(f)
  BY <1>a DEF LtpQuote
<1>7. \A f \in Order : Named(f)
  BY <1>a DEF Order
<1>8. \A f \in Trade : Named(f)
  BY <1>a DEF Trade
<1>9. \A f \in Postback : Named(f)
  BY <1>a DEF Postback
<1>10. \A f \in GTTCondition : Named(f)
  BY <1>a DEF GTTCondition
<1>11. \A f \in GTT : Named(f)
  BY <1>a DEF GTT
<1>12. \A f \in Gst : Named(f)
  BY <1>a DEF Gst
<1>13. \A f \in OrderCharges : Named(f)
  BY <1>a DEF OrderCharges
<1>14. \A f \in PNL : Named(f)
  BY <1>a DEF PNL
<1>15. \A f \in OrderMargins : Named(f)
  BY <1>a DEF OrderMargins
<1>16. \A f \in BasketMargins : Named(f)
  BY <1>a DEF BasketMargins
<1>17. \A f \in PlaceMfSipResponse : Named(f)
  BY <1>a DEF PlaceMfSipResponse
<1>18. \A f \in MfOrder : Named(f)
  BY <1>a DEF MfOrder
<1>19. \A f \in MfHolding : Named(f)
  BY <1>a DEF MfHolding
<1>20. \A f \in MfSip : Named(f)
  BY <1>a DEF MfSip
<1>21. \A f \in Holding : Named(f)
  BY <1>a DEF Holding
<1>22. \A f \in Position : Named(f)
  BY <1>a DEF Position
<1>23. \A f \in Positions : Named(f)
  BY <1>a DEF Positions
<1>24. \A f \in Meta : Named(f)
  BY <1>a DEF Meta
<1>25. \A f \in UserProfile : Named(f)
  BY <1>a DEF UserProfile
<1>26. \A f \in UserTokens : Named(f)
  BY DEF UserTokens
<1>27. \A f \in UserSession : Named(f)
  BY <1>25, <1>26 DEF UserSession
<1>28. \A f \in AvailableMargins : Named(f)
  BY <1>a DEF AvailableMargins
<1>29. \A f \in UsedMargins : Named(f)
  BY <1>a DEF UsedMargins
<1>30. \A f \in Margins : Named(f)
  BY <1>a DEF Margins
<1>31. \A f \in AllMargins : Named(f)
  BY <1>a DEF AllMargins
<1>32. \A type \in {"orderId", "sipId", "triggerId", "stringEntry",
                    "doubleEntry", "flag"} :
         \A f \in Members[type] : Named(f)
  BY DEF Members
<1>33. /\ Members["ohlc"] = Ohlc
      /\ Members["depth"] = Depth
      /\ Members["mDepth"] = MDepth
      /\ Members["quote"] = Quote
      /\ Members["ohlcQuote"] = OhlcQuote
      /\ Members["ltpQuote"] = LtpQuote
      /\ Members["order"] = Order
      /\ Members["trade"] = Trade
      /\ Members["postback"] = Postback
      /\ Members["GTTCondition"] = GTTCondition
      /\ Members["GTT"] = GTT
      /\ Members["gst"] = Gst
      /\ Members["orderCharges"] = OrderCharges
      /\ Members["pnl"] = PNL
      /\ Members["orderMargins"] = OrderMargins
      /\ Members["basketMargins"] = BasketMargins
      /\ Members["placeMfSipResponse"] = PlaceMfSipResponse
      /\ Members["mfOrder"] = MfOrder
      /\ Members["mfHolding"] = MfHolding
      /\ Members["mfSip"] = MfSip
      /\ Members["holding"] = Holding
      /\ Members["position"] = Position
      /\ Members["positions"] = Positions
      /\ Members["meta"] = Meta
      /\ Members["userProfile"] = UserProfile
      /\ Members["userSession"] = UserSession
      /\ Members["availableMargins"] = AvailableMargins
      /\ Members["usedMargins"] = UsedMargins
      /\ Members["margins"] = Margins
      /\ Members["allMargins"] = AllMargins
  BY DEF Members
<1> HIDE DEF Named
<1> QED BY JsonTypesAre,
           <1>1, <1>2, <1>3, <1>4, <1>5, <1>6, <1>7, <1>8, <1>9, <1>10, <1>11,
           <1>12, <1>13, <1>14, <1>15, <1>16, <1>17, <1>18, <1>19, <1>20,
           <1>21, <1>22, <1>23, <1>24, <1>25, <1>27, <1>28, <1>29, <1>30,
           <1>31, <1>32, <1>33

\* The members of the types that are read by position.
LEMMA PositionalMembers ==
  /\ \A type \in Csv : \A f \in Members[type] : Roomy(f) /\ f.as \in Cells
  /\ \A f \in Members["historicalData"] :
        /\ Roomy(f)
        /\ f.as \in Bare
<1>1. /\ Members["instrument"] = Instrument
      /\ Members["mfInstrument"] = MfInstrument
      /\ Members["historicalData"] = HistoricalData
  BY DEF Members
<1>2. \A f \in Instrument : Roomy(f) /\ f.as \in Cells
  BY DEF Instrument, Roomy, Fields, Field, Cells
<1>3. \A f \in MfInstrument : Roomy(f) /\ f.as \in Cells
  BY DEF MfInstrument, Roomy, Fields, Field, Cells
<1>4. \A f \in HistoricalData :
         /\ Roomy(f)
         /\ f.as \in Bare
  BY DEF HistoricalData, Roomy, Fields, Field, Bare
<1> QED BY <1>1, <1>2, <1>3, <1>4 DEF Csv

\* A member that may be read in an answer of a type, or within it.
Proper(type, f) ==
  /\ Roomy(f)
  /\ type \notin Csv => f.as \notin Cells
  /\ type \in JsonTypes => f.as \in Plain

\* A member that is read by name may be anywhere.
LEMMA NamedIsProper == \A type, f : Named(f) => Proper(type, f)
BY DEF Named, Proper, Plain, Cells

\* Every member of every type.
LEMMA MembersAreProper ==
  \A type \in DOMAIN Members : \A f \in Members[type] : Proper(type, f)
<1> SUFFICES ASSUME NEW type \in DOMAIN Members, NEW f \in Members[type]
             PROVE  Proper(type, f)
  OBVIOUS
<1>1. CASE type \in JsonTypes
  BY <1>1, JsonMembersAreNamed, NamedIsProper
<1>2. CASE type \in Csv
  BY <1>2, PositionalMembers DEF Proper, JsonTypes, Positional
<1>3. CASE type = "historicalData"
  <2>1. Roomy(f) /\ f.as \notin Cells
    BY <1>3, PositionalMembers DEF Cells, Bare
  <2>2. type \notin JsonTypes
    BY <1>3 DEF JsonTypes, Positional
  <2> QED BY <2>1, <2>2 DEF Proper
<1> QED BY <1>1, <1>2, <1>3 DEF JsonTypes, Positional

\* Every method reads a type there is, by position only what is sent so.
LEMMA ReadingsAre ==
  \A r \in Readings :
     /\ r.of \in DOMAIN Members
     /\ r.source = "rows" <=> r.of \in Csv
     /\ r.source = "candles" <=> r.of = "historicalData"
<1> DEFINE Fine(r) == /\ r.of \in DOMAIN Members
                      /\ r.source = "rows" <=> r.of \in Csv
                      /\ r.source = "candles" <=> r.of = "historicalData"
<1>1. DOMAIN Members = JsonTypes \cup Positional
  BY DEF Members, JsonTypes, Positional, Csv
<1>2. \A methods, of : of \in JsonTypes =>
         \A r \in One(methods, of) \cup Every(methods, of) \cup Map(methods, of) : Fine(r)
  BY DEF One, Every, Map, Reading, JsonTypes, Positional
<1>3. \A methods : \A r \in Candles(methods, "historicalData") : Fine(r)
  BY <1>1 DEF Candles, Reading, Positional, Csv
<1>4. \A methods, of : of \in Csv => \A r \in Rows(methods, of) : Fine(r)
  BY <1>1 DEF Rows, Reading, Positional, Csv
<1>5. "instrument" \in Csv /\ "mfInstrument" \in Csv
  BY DEF Csv
<1> HIDE DEF Fine
<1>6. \A r \in ApiReadings : Fine(r)
  BY <1>2, JsonTypesAre DEF ApiReadings
<1>7. \A r \in UserReadings : Fine(r)
  BY <1>2, JsonTypesAre DEF UserReadings
<1>8. \A r \in OrderReadings : Fine(r)
  BY <1>2, JsonTypesAre DEF OrderReadings
<1>9. \A r \in GttReadings : Fine(r)
  BY <1>2, JsonTypesAre DEF GttReadings
<1>10. \A r \in MfReadings : Fine(r)
  BY <1>2, <1>4, <1>5, JsonTypesAre DEF MfReadings
<1>11. \A r \in PortfolioReadings : Fine(r)
  BY <1>2, JsonTypesAre DEF PortfolioReadings
<1>12. \A r \in MarketReadings : Fine(r)
  BY <1>2, <1>3, <1>4, <1>5, JsonTypesAre DEF MarketReadings
<1>13. \A r \in MarginsReadings : Fine(r)
  BY <1>2, JsonTypesAre DEF MarginsReadings
<1>14. \A r \in TickerReadings : Fine(r)
  BY <1>2, JsonTypesAre DEF TickerReadings
<1> QED BY <1>6, <1>7, <1>8, <1>9, <1>10, <1>11, <1>12, <1>13, <1>14
       DEF Fine, Readings

-----------------------------------------------------------------------------
(* The places of odd values.                                               *)

\* What PlacesWithin adds for a type, from the places one level down.
Turn(within, depth, type) ==
  LET nested == {f \in Members[type] : depth > 0 /\ f.of # "none"}
  IN {<<f>> : f \in Members[type]}
       \cup {<<f, Element>> : f \in {g \in nested : g.as = "objects"}}
       \cup UNION {{<<f>> \o p : p \in within[depth - 1][f.of]} : f \in nested}

\* It looks at that level only.
LEMMA TurnLooksBack ==
  ASSUME NEW v, NEW w, NEW type, NEW d \in Nat, d # 0 => v[d - 1] = w[d - 1]
  PROVE  Turn(v, d, type) = Turn(w, d, type)
<1>1. CASE d = 0
  <2>1. \A u : Turn(u, d, type) = {<<m>> : m \in Members[type]}
    BY <1>1 DEF Turn
  <2> QED BY <2>1
<1>2. CASE d # 0
  <2>1. v[d - 1] = w[d - 1]
    BY <1>2
  <2> DEFINE nested == {f \in Members[type] : d > 0 /\ f.of # "none"}
             From(below) ==
               {<<f>> : f \in Members[type]}
                 \cup {<<f, Element>> : f \in {g \in nested : g.as = "objects"}}
                 \cup UNION {{<<f>> \o p : p \in below[f.of]} : f \in nested}
  <2>2. Turn(v, d, type) = From(v[d - 1]) /\ Turn(w, d, type) = From(w[d - 1])
    BY Zenon DEF Turn
  <2> HIDE DEF From
  <2> QED BY <2>1, <2>2
<1> QED BY <1>1, <1>2

\* The recursion defines a function.
LEMMA PlacesAreDefined ==
  \A depth \in 0..MaxDepth : \A type \in DOMAIN Members :
     PlacesWithin[depth][type] = Turn(PlacesWithin, depth, type)
<1> DEFINE At(g, k) == [type \in DOMAIN Members |-> Turn(g, k, type)]
           Defines(g, k) == g = [depth \in 0..k |-> At(g, depth)]
           T == {k \in Nat : \E g : Defines(g, k)}
<1>1. 0 \in T
  <2> DEFINE g == [depth \in 0..0 |-> At(<<>>, 0)]
  <2>1. \A f, type : Turn(f, 0, type) = {<<m>> : m \in Members[type]}
    BY DEF Turn
  <2>2. At(g, 0) = At(<<>>, 0)
    BY <2>1
  <2>3. Defines(g, 0)
    <3> HIDE DEF At
    <3> QED BY <2>2
  <2>4. \E f : Defines(f, 0)
    <3> HIDE DEF g, Defines
    <3> QED BY <2>3
  <2> QED BY <2>4
<1>2. ASSUME NEW k \in 0..(MaxDepth - 1), k \in T
      PROVE  k + 1 \in T
  <2>1. PICK g : Defines(g, k)
    BY <1>2
  <2> DEFINE h == [depth \in 0..(k + 1) |-> IF depth = k + 1 THEN At(g, k + 1) ELSE g[depth]]
  <2>2. ASSUME NEW d \in 0..(k + 1) PROVE h[d] = At(h, d)
    <3>1. d # 0 => d - 1 \in 0..k /\ h[d - 1] = g[d - 1]
      BY DEF MaxDepth
    <3>2. At(h, d) = At(g, d)
      <4>1. d \in Nat /\ (d # 0 => h[d - 1] = g[d - 1])
        BY <3>1
      <4> HIDE DEF h
      <4>2. \A type : Turn(h, d, type) = Turn(g, d, type)
        BY <4>1, TurnLooksBack
      <4> QED BY <4>2
    <3>3. d # k + 1 => d \in 0..k
      BY DEF MaxDepth
    <3>4. d \in 0..k => g[d] = At(g, d)
      BY <2>1
    <3> HIDE DEF At
    <3> QED BY <3>2, <3>3, <3>4
  <2>3. Defines(h, k + 1)
    <3> HIDE DEF At
    <3> QED BY <2>2
  <2>4. \E f : Defines(f, k + 1)
    <3> HIDE DEF h, Defines
    <3> QED BY <2>3
  <2> QED BY <2>4 DEF MaxDepth
<1>3. MaxDepth \in T
  <2> HIDE DEF T
  <2>1. 0 \in Nat /\ MaxDepth \in Nat /\ MaxDepth \in 0..MaxDepth
    BY DEF MaxDepth
  <2>2. \A k \in 0..MaxDepth : k \in T
    BY <1>1, <1>2, <2>1, FromTo
  <2> QED BY <2>1, <2>2
<1>4. PICK g : Defines(g, MaxDepth)
  BY <1>3
<1>5. Defines(PlacesWithin, MaxDepth)
  BY <1>4 DEF PlacesWithin, Turn
<1>6. ASSUME NEW w, Defines(w, MaxDepth),
             NEW depth \in 0..MaxDepth, NEW type \in DOMAIN Members
      PROVE  w[depth][type] = Turn(w, depth, type)
  <2>1. w[depth] = At(w, depth)
    <3> HIDE DEF At
    <3> QED BY <1>6
  <2> HIDE DEF Defines
  <2> QED BY <2>1
<1> HIDE DEF Defines
<1> QED BY <1>5, <1>6

\* The members an odd value may be.
AnyField == {Element, Candle} \cup UNION {Members[type] : type \in DOMAIN Members}

\* A place within a type: a member to be read, through those it is within.
PlaceIn(type, p) ==
  /\ p \in Seq(AnyField)
  /\ Len(p) \in Nat \ {0}
  /\ Proper(type, p[Len(p)])
  /\ Len(p) = 1 => p[1] \in Members[type]

\* What leads to a place is put before it.
LEMMA Longer ==
  ASSUME NEW S, NEW f \in S, NEW q \in Seq(S), Len(q) # 0
  PROVE  LET p == <<f>> \o q
         IN  p \in Seq(S) /\ Len(p) = 1 + Len(q) /\ p[Len(p)] = q[Len(q)]
OBVIOUS

\* Every place is a place within its type.
LEMMA PlacesAreIn ==
  \A type \in DOMAIN Members : \A p \in PlacesWithin[MaxDepth][type] : PlaceIn(type, p)
<1> DEFINE T == {d \in 0..MaxDepth : \A type \in DOMAIN Members :
                   \A p \in PlacesWithin[d][type] : PlaceIn(type, p)}
<1>1. ASSUME NEW type \in DOMAIN Members, NEW f \in Members[type]
      PROVE  PlaceIn(type, <<f>>)
  <2>1. f \in AnyField
    BY DEF AnyField
  <2>2. Proper(type, f)
    BY MembersAreProper
  <2> QED BY <2>1, <2>2 DEF PlaceIn
<1>2. ASSUME NEW type \in DOMAIN Members, NEW f \in Members[type]
      PROVE  PlaceIn(type, <<f, Element>>)
  <2>1. f \in AnyField /\ Element \in AnyField
    BY DEF AnyField
  <2>2. Proper(type, Element)
    <3>1. Named(Element)
      BY DEF Named, Roomy, Plain, Element, Field
    <3> QED BY <3>1, NamedIsProper
  <2>3. /\ <<f, Element>> \in Seq(AnyField) /\ Len(<<f, Element>>) = 2
        /\ <<f, Element>>[2] = Element
    BY <2>1
  <2> QED BY <2>2, <2>3 DEF PlaceIn
<1>3. ASSUME NEW type \in DOMAIN Members, NEW f \in Members[type], f.of # "none",
             NEW q, PlaceIn(f.of, q)
      PROVE  PlaceIn(type, <<f>> \o q)
  <2>1. f \in AnyField
    BY DEF AnyField
  <2>2. f.of \in JsonTypes
    BY <1>3, MembersAreProper DEF Proper, Roomy
  <2>3. Named(q[Len(q)])
    BY <1>3, <2>2 DEF PlaceIn, Proper, Named
  <2>4. Proper(type, q[Len(q)])
    BY <2>3, NamedIsProper
  <2>5. /\ <<f>> \o q \in Seq(AnyField) /\ Len(<<f>> \o q) = 1 + Len(q)
        /\ (<<f>> \o q)[Len(<<f>> \o q)] = q[Len(q)]
    BY <1>3, <2>1, Longer DEF PlaceIn
  <2>6. Len(q) \in Nat \ {0}
    BY <1>3 DEF PlaceIn
  <2>7. Len(<<f>> \o q) \in Nat \ {0} /\ Len(<<f>> \o q) # 1
    BY <2>5, <2>6
  <2> QED BY <2>4, <2>5, <2>7 DEF PlaceIn
<1>4. ASSUME NEW d \in 0..MaxDepth, d # 0 => d - 1 \in T
      PROVE  d \in T
  <2> SUFFICES ASSUME NEW type \in DOMAIN Members, NEW p \in PlacesWithin[d][type]
               PROVE  PlaceIn(type, p)
    OBVIOUS
  <2>1. p \in Turn(PlacesWithin, d, type)
    BY PlacesAreDefined
  <2>2. CASE p \in {<<f>> : f \in Members[type]}
    BY <2>2, <1>1
  <2>3. CASE p \in {<<f, Element>> : f \in Members[type]}
    BY <2>3, <1>2
  <2>4. ASSUME NEW f \in Members[type], d > 0, f.of # "none",
               NEW q \in PlacesWithin[d - 1][f.of], p = <<f>> \o q
        PROVE  PlaceIn(type, p)
    <3>1. d - 1 \in T
      BY <1>4, <2>4
    <3>2. f.of \in DOMAIN Members
      BY <2>4, MembersAreProper DEF Proper, Roomy, JsonTypes
    <3>3. PlaceIn(f.of, q)
      BY <3>1, <3>2
    <3> QED BY <1>3, <2>4, <3>3
  <2> QED BY <2>1, <2>2, <2>3, <2>4 DEF Turn
<1>5. 0 \in T
  BY <1>4 DEF MaxDepth
<1>6. ASSUME NEW k \in 0..(MaxDepth - 1), k \in T PROVE k + 1 \in T
  <2>1. k + 1 \in 0..MaxDepth /\ (k + 1) - 1 = k
    BY DEF MaxDepth
  <2> HIDE DEF T
  <2> QED BY <1>4, <1>6, <2>1
<1> HIDE DEF T
<1>7. 0 \in Nat /\ MaxDepth \in Nat /\ MaxDepth \in 0..MaxDepth
  BY DEF MaxDepth
<1>8. \A k \in 0..MaxDepth : k \in T
  BY <1>5, <1>6, <1>7, FromTo
<1>9. MaxDepth \in T
  BY <1>7, <1>8
<1> QED BY <1>9 DEF T

-----------------------------------------------------------------------------
(* The answers.                                                            *)

\* A field that is read where a reading says, with a value it may have there.
\* Nothing within an array of JSON is absent, nor is a whole element.
Sent(r, f, kind) ==
  /\ f \in AnyField
  /\ Proper(r.of, f) \/ (f = Candle /\ r.source = "candles")
  /\ kind \in Kinds
  /\ r.source # "rows" =>
        (kind = "absent" => f.as \notin {"element", "candle", "stringEntry", "doubleEntry"})

\* An element with an odd value.
IsOdd(r, e) ==
  /\ e \in [place : Seq(AnyField), kind : Kinds]
  /\ Sent(r, OddField(e), e.kind)
  /\ Len(e.place) = 1 => e.place[1] \in Members[r.of] \cup {Element, Candle}

\* Every odd element of an answer is one.
LEMMA OddOnesAreOdd ==
  ASSUME NEW r \in Readings, NEW e \in Odd(r)
  PROVE  IsOdd(r, e)
<1>1. PICK p \in Places(r) : \E k \in KindsAt(r, p) : e = [place |-> p, kind |-> k]
  BY DEF Odd
<1>2. PICK k \in KindsAt(r, p) : e = [place |-> p, kind |-> k]
  BY <1>1
<1>3. /\ r.of \in DOMAIN Members
      /\ r.source = "rows" <=> r.of \in Csv
      /\ r.source = "candles" <=> r.of = "historicalData"
  BY ReadingsAre
<1>4. e.place = p /\ e.kind = k
  BY <1>2
<1>5. k \in Kinds
  BY DEF KindsAt, Kinds, CellKinds
<1>6. r.source # "rows" => (k = "absent" =>
         p[Len(p)].as \notin {"element", "candle", "stringEntry", "doubleEntry"})
  BY DEF KindsAt
<1>7. CASE p \in PlacesWithin[MaxDepth][r.of]
  <2>1. PlaceIn(r.of, p)
    BY <1>3, <1>7, PlacesAreIn
  <2>2. p[Len(p)] \in AnyField
    BY <2>1 DEF PlaceIn
  <2> QED BY <1>2, <1>4, <1>5, <1>6, <2>1, <2>2 DEF PlaceIn, IsOdd, Sent, OddField
<1>8. CASE p = <<Element>>
  <2>1. Named(Element)
    BY DEF Named, Roomy, Plain, Element, Field
  <2>2. Proper(r.of, Element) /\ Element \in AnyField
    BY <2>1, NamedIsProper DEF AnyField
  <2>3. p \in Seq(AnyField) /\ Len(p) = 1 /\ p[1] = Element
    BY <1>8, <2>2
  <2> QED BY <1>2, <1>4, <1>5, <1>6, <2>2, <2>3 DEF IsOdd, Sent, OddField
<1>9. CASE p = <<Candle>> /\ r.source = "candles"
  <2>1. Candle \in AnyField
    BY DEF AnyField
  <2>2. p \in Seq(AnyField) /\ Len(p) = 1 /\ p[1] = Candle
    BY <1>9, <2>1
  <2> QED BY <1>2, <1>4, <1>5, <1>6, <1>9, <2>1, <2>2 DEF IsOdd, Sent, OddField
<1> QED BY <1>7, <1>8, <1>9 DEF Places

\* An element without an odd value is none.
LEMMA SoundIsNotOdd == \A r : ~IsOdd(r, Sound)
BY DEF IsOdd, Sent, Sound, Kinds, Numbers, Integers

\* The elements of an answer: at most one of them has an odd value.
OneOdd(r, elements) ==
  /\ Len(elements) \in Nat /\ DOMAIN elements = 1..Len(elements)
  /\ \A i \in DOMAIN elements : elements[i] = Sound \/ IsOdd(r, elements[i])
  /\ \A i, j \in DOMAIN elements :
        elements[i] # Sound /\ elements[j] # Sound => i = j

\* Every answer is like that.
LEMMA AnswersAreOneOdd ==
  ASSUME NEW r \in Readings, NEW elements \in Answers(r)
  PROVE  OneOdd(r, elements)
<1>1. ASSUME NEW n \in Nat, elements = [i \in 1..n |-> Sound] PROVE OneOdd(r, elements)
  BY <1>1 DEF OneOdd
<1>2. ASSUME NEW n \in Nat, NEW at \in 1..n, NEW e \in Odd(r),
             elements = [i \in 1..n |-> IF i = at THEN e ELSE Sound]
      PROVE  OneOdd(r, elements)
  <2>1. IsOdd(r, e)
    BY OddOnesAreOdd
  <2>2. Len(elements) = n /\ DOMAIN elements = 1..n
    BY <1>2
  <2> QED BY <1>2, <2>1, <2>2 DEF OneOdd
<1>3. \A n \in Lengths(r) : n \in Nat
  BY MaxElementsAssumption DEF Lengths
<1>4. CASE elements \in {[i \in 1..n |-> Sound] : n \in Lengths(r)}
  BY <1>1, <1>3, <1>4
<1>5. CASE elements \in UNION {{[i \in 1..n |-> IF i = at THEN e ELSE Sound] :
                                 at \in 1..n, e \in Odd(r)} : n \in Lengths(r)}
  <2>1. PICK n \in Lengths(r) :
           elements \in {[i \in 1..n |-> IF i = at THEN e ELSE Sound] :
                           at \in 1..n, e \in Odd(r)}
    BY <1>5
  <2>2. PICK at \in 1..n, e \in Odd(r) :
           elements = [i \in 1..n |-> IF i = at THEN e ELSE Sound]
    BY <2>1
  <2> QED BY <1>2, <1>3, <2>2
<1> QED BY <1>4, <1>5 DEF Answers

-----------------------------------------------------------------------------
(* What becomes of a value.                                                *)

\* What is asked of a value, by the way it is read.
LEMMA GetAsks ==
  ASSUME NEW f, NEW kind
  PROVE  /\ f.as = "object"  => get(f, kind) = getObject(kind)
         /\ f.as = "objects" => get(f, kind) = getArray(kind)
         /\ f.as \in Cells   => get(f, kind) = getCell(f.as, kind)
         /\ f.as \in Bare    => get(f, kind) = getCandle(f.as, kind)
         /\ f.as \in Values  => get(f, kind) = getValue(f.as, kind)
         /\ f.as \in {"strings", "doubles", "stringEntry", "doubleEntry"}
              => get(f, kind) = getVector(f.as, kind)
<1> USE DEF get, Cells, Bare, Values
<1>1. f.as = "object" => get(f, kind) = getObject(kind)
  OBVIOUS
<1>2. f.as = "objects" => get(f, kind) = getArray(kind)
  OBVIOUS
<1>3. f.as \in Cells => get(f, kind) = getCell(f.as, kind)
  OBVIOUS
<1>4. f.as \in Bare => get(f, kind) = getCandle(f.as, kind)
  OBVIOUS
<1>5. f.as \in Values => get(f, kind) = getValue(f.as, kind)
  OBVIOUS
<1>6. f.as \in {"strings", "doubles", "stringEntry", "doubleEntry"}
        => get(f, kind) = getVector(f.as, kind)
  OBVIOUS
<1> QED BY <1>1, <1>2, <1>3, <1>4, <1>5, <1>6

\* Decoding ends in one of four ways if a value is not stored.
LEMMA GetEnds ==
  \A f, kind : get(f, kind) \in Stored \cup {TypeError, "libException",
                                             "otherException", "undefined"}
<1>1. \A kind : getObject(kind) \in {"sent", "initial", TypeError}
  BY DEF getObject
<1>2. \A kind : getArray(kind) \in {"sent", "empty", TypeError}
  BY DEF getArray
<1>3. \A as, kind : getValue(as, kind) \in {"sent", "empty", TypeError}
  BY DEF getValue
<1>4. \A as, kind : getVector(as, kind) \in {"sent", "empty", TypeError}
  BY DEF getVector
<1>5. \A as, kind : getCandle(as, kind) \in {"sent", "initial", "undefined", "libException"}
  BY DEF getCandle
<1>6. \A as, kind : getCell(as, kind) \in
                      {"sent", "empty", "altered", "undefined", "otherException"}
  BY DEF getCell, getNumber
<1> QED BY <1>1, <1>2, <1>3, <1>4, <1>5, <1>6 DEF get, Stored

\* What is stored of a JSON value that is there is what was sent.
LEMMA GetKeeps ==
  \A f, kind : f.as \notin Cells /\ kind \notin {"absent", "null"} /\ get(f, kind) \in Stored
                 => get(f, kind) = "sent"
<1>1. \A as, kind : kind \notin {"absent", "null"} /\ getCandle(as, kind) \in Stored
                      => getCandle(as, kind) = "sent"
  BY DEF getCandle, Stored
<1>2. \A as, kind : kind \notin {"absent", "null"} /\ getValue(as, kind) \in Stored
                      => getValue(as, kind) = "sent"
  BY DEF getValue, Stored, TypeError
<1>3. \A as, kind : kind # "absent" /\ getVector(as, kind) \in Stored
                      => getVector(as, kind) = "sent"
  BY DEF getVector, Stored, TypeError
<1>4. \A kind : kind # "absent" /\ getObject(kind) \in Stored => getObject(kind) = "sent"
  BY DEF getObject, Stored, TypeError
<1>5. \A kind : kind # "absent" /\ getArray(kind) \in Stored => getArray(kind) = "sent"
  BY DEF getArray, Stored, TypeError
<1> QED BY <1>1, <1>2, <1>3, <1>4, <1>5 DEF get, Stored

\* A member that is read by name may be absent.
LEMMA GetForgives ==
  \A f : f.as \in Plain \ {"element", "stringEntry", "doubleEntry"}
           => get(f, "absent") \in Stored
<1>1. getObject("absent") \in Stored /\ getArray("absent") \in Stored
  BY DEF getObject, getArray, Stored
<1>2. /\ \A as : getValue(as, "absent") \in Stored
      /\ \A as : getVector(as, "absent") \in Stored
  BY DEF getValue, getVector, Stored
<1>3. Plain \ {"element", "stringEntry", "doubleEntry"}
        = {"object", "objects", "strings", "doubles"} \cup Values
  BY DEF Plain, Values
<1> QED BY <1>1, <1>2, <1>3, GetAsks

\* Tokens and volumes are stored.
LEMMA GetHolds ==
  /\ \A f, kind : f.as \in {"uint32", "cellUint32"} /\ kind \in IsUint
                    => get(f, kind) = "sent"
  /\ \A f, kind : f.as \in {"int64", "bareInt64"} /\ kind \in {"small", "medium", "large"}
                    => get(f, kind) = "sent"
<1>1. ASSUME NEW f, NEW kind, f.as \in {"uint32", "cellUint32"}, kind \in IsUint
      PROVE  get(f, kind) = "sent"
  <2>1. CASE f.as = "uint32"
    <3>1. getValue("uint32", kind) = "sent"
      BY <1>1 DEF getValue, Fits, IsUint
    <3> QED BY <1>1, <2>1, <3>1, GetAsks DEF Values, IsUint
  <2>2. CASE f.as = "cellUint32"
    <3>1. getCell("cellUint32", kind) = "sent"
      BY <1>1 DEF getCell, getNumber, IsUint, Integers
    <3> QED BY <2>2, <3>1, GetAsks DEF Cells
  <2> QED BY <1>1, <2>1, <2>2
<1>2. ASSUME NEW f, NEW kind, f.as \in {"int64", "bareInt64"},
             kind \in {"small", "medium", "large"}
      PROVE  get(f, kind) = "sent"
  <2>1. CASE f.as = "int64"
    <3>1. getValue("int64", kind) = "sent"
      BY <1>2 DEF getValue, Fits, IsInt64, Integers
    <3> QED BY <1>2, <2>1, <3>1, GetAsks DEF Values
  <2>2. CASE f.as = "bareInt64"
    <3>1. getCandle("bareInt64", kind) = "sent"
      BY <1>2 DEF getCandle, IsInt64, Integers
    <3> QED BY <2>2, <3>1, GetAsks DEF Bare
  <2> QED BY <1>2, <2>1, <2>2
<1> QED BY <1>1, <1>2

-----------------------------------------------------------------------------
(* Decoding an answer.                                                     *)

\* What is decoded is what becomes of the elements, in their order, until one
\* is not stored.
Faithful ==
  /\ Len(decoded) <= Len(answer)
  /\ \A i \in 1..Len(decoded) : decoded[i] = Decoded(answer[i])

\* The inductive invariant.
Decoding ==
  /\ reading \in Readings
  /\ whole \in BOOLEAN
  /\ whole => answer \in Answers(reading)
  /\ ~whole => answer = <<>> /\ status \in {"decoding", "undefined"}
  /\ decoded \in Seq(Stored)
  /\ status \in {"decoding", "returned"} => Faithful
  /\ status = "returned" => Len(decoded) = Len(answer)
  /\ Failed => \E i \in DOMAIN answer : Decoded(answer[i]) \notin Stored

\* Every answer, an empty one as well, has at most one odd value.
LEMMA OneOddAlways == Decoding => OneOdd(reading, answer)
<1> SUFFICES ASSUME Decoding PROVE OneOdd(reading, answer)
  OBVIOUS
<1>1. CASE whole
  BY <1>1, AnswersAreOneOdd DEF Decoding
<1>2. CASE ~whole
  <2>1. answer = <<>>
    BY <1>2 DEF Decoding
  <2> QED BY <2>1 DEF OneOdd
<1> QED BY <1>1, <1>2

\* Nothing is decoded to begin with.
LEMMA DecodingStarts == Init => Decoding
<1> SUFFICES ASSUME Init PROVE Decoding
  OBVIOUS
<1>1. /\ reading \in Readings /\ whole \in BOOLEAN
      /\ whole => answer \in Answers(reading)
      /\ ~whole => answer = <<>>
      /\ status = "decoding" /\ decoded = <<>>
  BY DEF Init
<1>2. decoded \in Seq(Stored) /\ Len(decoded) = 0
  BY <1>1
<1>3. Len(answer) \in Nat
  <2>1. CASE whole
    BY <1>1, <2>1, AnswersAreOneOdd DEF OneOdd
  <2>2. CASE ~whole
    BY <1>1, <2>2
  <2> QED BY <2>1, <2>2
<1>4. Faithful
  BY <1>2, <1>3 DEF Faithful
<1> QED BY <1>1, <1>2, <1>4 DEF Decoding, Failed

\* Every step keeps to it.
LEMMA DecodingGoesOn == Decoding /\ [Next]_vars => Decoding'
<1> SUFFICES ASSUME Decoding, [Next]_vars PROVE Decoding'
  OBVIOUS
<1>0. Len(answer) \in Nat /\ DOMAIN answer = 1..Len(answer)
  BY OneOddAlways DEF OneOdd
<1>1. CASE Extract
  BY <1>1 DEF Extract, Decoding, Failed
<1>2. CASE DecodeElement
  <2>1. /\ status = "decoding" /\ whole /\ Len(decoded) < Len(answer)
        /\ UNCHANGED <<reading, answer, whole>>
    BY <1>2 DEF DecodeElement
  <2>2. /\ decoded \in Seq(Stored) /\ Len(decoded) \in Nat
        /\ Len(decoded) + 1 \in DOMAIN answer
    BY <1>0, <2>1 DEF Decoding
  <2>3. CASE Decoded(Upcoming) \in Stored
    <3>1. decoded' = Append(decoded, Decoded(Upcoming)) /\ status' = "decoding"
      BY <1>2, <2>1, <2>3 DEF DecodeElement
    <3>2. /\ decoded' \in Seq(Stored) /\ Len(decoded') = Len(decoded) + 1
          /\ decoded'[Len(decoded) + 1] = Decoded(Upcoming)
          /\ \A i \in 1..Len(decoded) : decoded'[i] = decoded[i]
      BY <2>2, <2>3, <3>1
    <3>3. Faithful'
      <4>1. Len(decoded') <= Len(answer')
        BY <1>0, <2>1, <2>2, <3>2
      <4>2. ASSUME NEW i \in 1..Len(decoded') PROVE decoded'[i] = Decoded(answer[i])
        <5>1. i \in 1..Len(decoded) \/ i = Len(decoded) + 1
          BY <2>2, <3>2
        <5>2. \A j \in 1..Len(decoded) : decoded[j] = Decoded(answer[j])
          BY <2>1 DEF Decoding, Faithful
        <5> QED BY <3>2, <5>1, <5>2 DEF Upcoming
      <4>3. answer' = answer
        BY <2>1
      <4> QED BY <4>1, <4>2, <4>3 DEF Faithful, Decoded
    <3> QED BY <2>1, <3>1, <3>2, <3>3 DEF Decoding, Failed
  <2>4. CASE Decoded(Upcoming) \notin Stored
    <3>1. decoded' = <<>> /\ status' \in Ends(Decoded(Upcoming))
      BY <1>2, <2>4 DEF DecodeElement
    <3>2. status' \notin {"decoding", "returned"}
      <4>1. Decoded(Upcoming) \in {TypeError, "libException", "otherException", "undefined"}
        BY <2>4, GetEnds DEF Decoded, Stored
      <4> QED BY <3>1, <4>1 DEF Ends
    <3>3. \E i \in DOMAIN answer : Decoded(answer[i]) \notin Stored
      BY <2>2, <2>4 DEF Upcoming
    <3>4. answer' = answer /\ decoded' \in Seq(Stored)
      BY <2>1, <3>1
    <3>5. \E i \in DOMAIN answer' : Decoded(answer'[i]) \notin Stored
      BY <3>3, <3>4
    <3> QED BY <2>1, <3>2, <3>4, <3>5 DEF Decoding, Decoded
  <2> QED BY <2>3, <2>4
<1>3. CASE Return
  BY <1>3 DEF Return, Decoding, Failed, Faithful
<1>4. CASE UNCHANGED vars
  BY <1>4 DEF vars, Decoding, Failed, Faithful
<1> QED BY <1>1, <1>2, <1>3, <1>4 DEF Next

\* It holds of every answer.
LEMMA DecodingAlways == Spec => []Decoding
BY DecodingStarts, DecodingGoesOn, PTL DEF Spec

\* What ended a call is the odd value of the answer.
LEMMA TheOddOneFails ==
  ASSUME Decoding, Failed, NEW e \in OddOnes
  PROVE  IsOdd(reading, e) /\ get(OddField(e), e.kind) \notin Stored
<1>1. PICK i \in DOMAIN answer : Decoded(answer[i]) \notin Stored
  BY DEF Decoding
<1>2. PICK j \in DOMAIN answer : e = answer[j] /\ e # Sound
  BY DEF OddOnes
<1>3. answer[i] # Sound
  BY <1>1 DEF Decoded, Stored
<1>4. OneOdd(reading, answer)
  BY OneOddAlways
<1>5. i = j
  BY <1>2, <1>3, <1>4 DEF OneOdd
<1>6. Decoded(e) \notin Stored
  BY <1>1, <1>2, <1>5
<1> QED BY <1>2, <1>4, <1>6 DEF OneOdd, Decoded, OddField

\* Every value of a JSON answer of any length is returned as it was sent, and
\* in its place, or the call is ended.
THEOREM ValuesSurvive == Spec => []SentValuesSurvive
<1>1. ASSUME Decoding PROVE SentValuesSurvive
  <2> SUFFICES ASSUME status = "returned", Json, NEW i \in DOMAIN answer,
                      answer[i].kind \notin {"absent", "null"}
               PROVE  i \in DOMAIN decoded /\ decoded[i] = "sent"
    BY DEF SentValuesSurvive
  <2>1. OneOdd(reading, answer)
    BY <1>1, OneOddAlways
  <2>2. i \in 1..Len(decoded)
    BY <1>1, <2>1 DEF Decoding, OneOdd
  <2>3. DOMAIN decoded = 1..Len(decoded)
    BY <1>1 DEF Decoding
  <2>4. decoded[i] = Decoded(answer[i]) /\ decoded[i] \in Stored
    BY <1>1, <2>2 DEF Decoding, Faithful
  <2>5. CASE answer[i] = Sound
    BY <2>2, <2>3, <2>4, <2>5 DEF Decoded
  <2>6. CASE answer[i] # Sound
    <3> DEFINE f == OddField(answer[i])
    <3>1. IsOdd(reading, answer[i])
      BY <2>1, <2>6 DEF OneOdd
    <3>2. reading.of \notin Csv
      BY <1>1, ReadingsAre DEF Decoding, Json
    <3>3. f.as \notin Cells
      BY <3>1, <3>2 DEF IsOdd, Sent, Proper, Candle, Field, Cells
    <3>4. decoded[i] = get(f, answer[i].kind)
      BY <2>4, <2>6 DEF Decoded, OddField
    <3>5. decoded[i] = "sent"
      BY <2>4, <3>3, <3>4, GetKeeps
    <3> QED BY <2>2, <2>3, <3>5
  <2> QED BY <2>5, <2>6
<1> QED BY <1>1, DecodingAlways, PTL

\* A member that is not sent is no reason for a call to fail.
THEOREM AbsenceIsForgiven == Spec => []MissingIsForgiven
<1>1. ASSUME Decoding PROVE MissingIsForgiven
  <2> SUFFICES ASSUME Failed, reading.source \notin {"candles", "rows"},
                      NEW e \in OddOnes, e.kind = "absent"
               PROVE  FALSE
    BY DEF MissingIsForgiven
  <2>1. IsOdd(reading, e) /\ get(OddField(e), "absent") \notin Stored
    BY <1>1, TheOddOneFails
  <2>2. reading.of \in JsonTypes
    BY <1>1, ReadingsAre DEF Decoding, JsonTypes, Positional
  <2>3. /\ OddField(e).as \in Plain
        /\ OddField(e).as \notin {"element", "stringEntry", "doubleEntry"}
    BY <2>1, <2>2 DEF IsOdd, Sent, Proper
  <2> QED BY <2>1, <2>3, GetForgives
<1> QED BY <1>1, DecodingAlways, PTL

\* No token and no volume is too large for what it is read as.
THEOREM TokensAndVolumesAreHeld == Spec => []TokensAndVolumesFit
<1>1. ASSUME Decoding PROVE TokensAndVolumesFit
  <2> SUFFICES ASSUME Failed, NEW e \in OddOnes
               PROVE  /\ OddField(e).name = "instrument_token" => e.kind \notin IsUint
                      /\ OddField(e).name = "volume"
                           => e.kind \notin {"small", "medium", "large"}
    BY DEF TokensAndVolumesFit
  <2>1. IsOdd(reading, e) /\ get(OddField(e), e.kind) \notin Stored
    BY <1>1, TheOddOneFails
  <2>2. get(OddField(e), e.kind) # "sent"
    BY <2>1 DEF Stored
  <2>3. Roomy(OddField(e))
    BY <2>1 DEF IsOdd, Sent, Proper, Roomy, Candle, Field
  <2> QED BY <2>2, <2>3, GetHolds DEF Roomy
<1> QED BY <1>1, DecodingAlways, PTL

-----------------------------------------------------------------------------
(* Types that tell of the same thing.                                      *)

\* How the members of each family are read, by their names.
OrderAs(name) ==
  CASE name = "instrument_token" -> "uint32"
    [] name \in {"quantity", "disclosed_quantity", "validity_ttl",
                 "filled_quantity", "pending_quantity", "cancelled_quantity",
                 "unfilled_quantity"} -> "int"
    [] name \in {"price", "trigger_price", "average_price"} -> "double"
    [] OTHER -> "string"

QuoteAs(name) ==
  CASE name = "instrument_token" -> "uint32"
    [] name = "volume" -> "int64"
    [] name \in {"last_quantity", "buy_quantity", "sell_quantity"} -> "int"
    [] name \in {"timestamp", "last_trade_time"} -> "string"
    [] name \in {"ohlc", "depth"} -> "object"
    [] OTHER -> "double"

HoldingAs(name) ==
  CASE name = "instrument_token" -> "uint32"
    [] name \in {"quantity", "t1_quantity", "realised_quantity",
                 "collateral_quantity", "overnight_quantity", "buy_quantity",
                 "sell_quantity", "day_buy_quantity", "day_sell_quantity"} -> "int"
    [] name \in {"tradingsymbol", "exchange", "isin", "product",
                 "collateral_type"} -> "string"
    [] OTHER -> "double"

\* A name of a member; it is none of an element's or a candle's.
MemberName(name) == name \notin {"element", "candle"}

\* Orders, postbacks, and the identifiers of orders.
LEMMA OrdersAreAlike ==
  \A type \in {"order", "postback", "orderId"} : \A f \in Members[type] :
     f.as = OrderAs(f.name) /\ MemberName(f.name)
<1>1. \A f \in Members["order"] : f.as = OrderAs(f.name) /\ MemberName(f.name)
  <2>1. \A f \in Order : f.as = OrderAs(f.name) /\ MemberName(f.name)
    BY DEF Order, OrderAs, MemberName, Fields, Part, Field
  <2>2. Members["order"] = Order
    BY DEF Members
  <2> QED BY <2>1, <2>2
<1>2. \A f \in Members["postback"] : f.as = OrderAs(f.name) /\ MemberName(f.name)
  <2>1. \A f \in Postback : f.as = OrderAs(f.name) /\ MemberName(f.name)
    BY DEF Postback, OrderAs, MemberName, Fields, Part, Field
  <2>2. Members["postback"] = Postback
    BY DEF Members
  <2> QED BY <2>1, <2>2
<1>3. \A f \in Members["orderId"] : f.as = OrderAs(f.name) /\ MemberName(f.name)
  BY DEF Members, OrderAs, MemberName, Fields, Field
<1> QED BY <1>1, <1>2, <1>3

\* The three quotes.
LEMMA QuotesAreAlike ==
  \A type \in {"quote", "ohlcQuote", "ltpQuote"} : \A f \in Members[type] :
     f.as = QuoteAs(f.name) /\ MemberName(f.name)
<1>1. \A f \in Members["quote"] : f.as = QuoteAs(f.name) /\ MemberName(f.name)
  <2>1. \A f \in Quote : f.as = QuoteAs(f.name) /\ MemberName(f.name)
    BY DEF Quote, QuoteAs, MemberName, Fields, Part, Field
  <2>2. Members["quote"] = Quote
    BY DEF Members
  <2> QED BY <2>1, <2>2
<1>2. \A f \in Members["ohlcQuote"] : f.as = QuoteAs(f.name) /\ MemberName(f.name)
  <2>1. \A f \in OhlcQuote : f.as = QuoteAs(f.name) /\ MemberName(f.name)
    BY DEF OhlcQuote, QuoteAs, MemberName, Fields, Part, Field
  <2>2. Members["ohlcQuote"] = OhlcQuote
    BY DEF Members
  <2> QED BY <2>1, <2>2
<1>3. \A f \in Members["ltpQuote"] : f.as = QuoteAs(f.name) /\ MemberName(f.name)
  <2>1. \A f \in LtpQuote : f.as = QuoteAs(f.name) /\ MemberName(f.name)
    BY DEF LtpQuote, QuoteAs, MemberName, Fields, Part, Field
  <2>2. Members["ltpQuote"] = LtpQuote
    BY DEF Members
  <2> QED BY <2>1, <2>2
<1> QED BY <1>1, <1>2, <1>3

\* Holdings and positions.
LEMMA HoldingsAreAlike ==
  \A type \in {"holding", "position"} : \A f \in Members[type] :
     f.as = HoldingAs(f.name) /\ MemberName(f.name)
<1>1. \A f \in Members["holding"] : f.as = HoldingAs(f.name) /\ MemberName(f.name)
  <2>1. \A f \in Holding : f.as = HoldingAs(f.name) /\ MemberName(f.name)
    BY DEF Holding, HoldingAs, MemberName, Fields, Part, Field
  <2>2. Members["holding"] = Holding
    BY DEF Members
  <2> QED BY <2>1, <2>2
<1>2. \A f \in Members["position"] : f.as = HoldingAs(f.name) /\ MemberName(f.name)
  <2>1. \A f \in Position : f.as = HoldingAs(f.name) /\ MemberName(f.name)
    BY DEF Position, HoldingAs, MemberName, Fields, Part, Field
  <2>2. Members["position"] = Position
    BY DEF Members
  <2> QED BY <2>1, <2>2
<1> QED BY <1>1, <1>2

\* What becomes of a value depends on how it is read only.
LEMMA GetLooksAtAs ==
  ASSUME NEW f, NEW g, f.as = g.as, NEW kind
  PROVE  get(f, kind) = get(g, kind)
BY DEF get

\* A program gets a value from all of the types that have it, or from none.
THEOREM RelativesAlwaysAgree == Spec => []RelativesAgree
<1>1. ASSUME Decoding PROVE RelativesAgree
  <2> SUFFICES ASSUME NEW e \in OddOnes, NEW family \in Families,
                      reading.of \in family, Len(e.place) = 1,
                      NEW type \in family, NEW f \in Members[type],
                      f.name = OddField(e).name
               PROVE  get(f, e.kind) = Decoded(e)
    BY DEF RelativesAgree
  <2>1. IsOdd(reading, e) /\ e # Sound
    BY <1>1, OneOddAlways DEF OddOnes, OneOdd
  <2>2. OddField(e) \in Members[reading.of] \cup {Element, Candle}
    BY <2>1 DEF IsOdd, OddField
  <2>3. f.as = OddField(e).as
    <3>1. Element.name = "element" /\ Candle.name = "candle"
      BY DEF Element, Candle, Field
    <3>2. CASE family = {"order", "postback", "orderId"}
      BY <2>2, <3>1, <3>2, OrdersAreAlike DEF MemberName
    <3>3. CASE family = {"quote", "ohlcQuote", "ltpQuote"}
      BY <2>2, <3>1, <3>3, QuotesAreAlike DEF MemberName
    <3>4. CASE family = {"holding", "position"}
      BY <2>2, <3>1, <3>4, HoldingsAreAlike DEF MemberName
    <3> QED BY <3>2, <3>3, <3>4 DEF Families
  <2>4. get(f, e.kind) = get(OddField(e), e.kind)
    BY <2>3, GetLooksAtAs
  <2> QED BY <2>1, <2>4 DEF Decoded, OddField
<1> QED BY <1>1, DecodingAlways, PTL

=============================================================================
