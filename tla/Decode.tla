------------------------------- MODULE Decode -------------------------------
(***************************************************************************)
(* From the body of a successful answer to the value a method returns: the *)
(* members of every response type (kitepp/responses), what json::get makes *)
(* of a member (utils.hpp), and the loop over the elements of an answer.   *)
(*                                                                         *)
(* A JSON value is its kind, an integer by the smallest C++ type that      *)
(* holds it.  All of an answer is as the types expect it, except for at    *)
(* most one value, anywhere in one of its elements, of whatever kind.      *)
(***************************************************************************)
EXTENDS Naturals, Sequences

CONSTANT MaxElements   \* bound: elements of a list, rows of a CSV answer

ASSUME MaxElementsAssumption == MaxElements \in Nat

Integers == {"bigNegative",  \* below -2^31
             "negative",     \* down to -2^31
             "small",        \* 0 to 2^31 - 1
             "medium",       \* 2^31 to 2^32 - 1
             "large"}        \* 2^32 to 2^63 - 1
Numbers == Integers \cup {"fraction"}

\* An absent value is a member or a cell that is not there; a CSV cell is a
\* number, other text ("string"), or empty ("null").
Kinds == Numbers \cup {"string", "bool", "object", "array", "null", "absent"}
CellKinds == Numbers \cup {"string", "null", "absent"}

-----------------------------------------------------------------------------
(* Response types: the members parse() reads, by the type it reads them    *)
(* as; "object" and "objects" are members that are of a response type, or  *)
(* arrays of one, themselves.                                              *)

Field(name, as, of) == [name |-> name, as |-> as, of |-> of]
Fields(as, names) == {Field(n, as, "none") : n \in names}
Part(name, of) == {Field(name, "object", of)}
Parts(name, of) == {Field(name, "objects", of)}

Ohlc == Fields("double", {"open", "high", "low", "close"})

Depth == Fields("double", {"price"}) \cup Fields("int", {"quantity", "orders"})

MDepth == Parts("buy", "depth") \cup Parts("sell", "depth")

\* Mutation: the volume is read as an int.
QuoteIntVolume ==
       Fields("uint32", {"instrument_token"})
  \cup Fields("int", {"last_quantity", "buy_quantity", "sell_quantity", "volume"})
  \cup Fields("double", {"last_price"})

Quote ==
       Fields("uint32", {"instrument_token"})
  \cup Fields("int64", {"volume"})
  \cup Fields("int", {"last_quantity", "buy_quantity", "sell_quantity"})
  \cup Fields("string", {"timestamp", "last_trade_time"})
  \cup Fields("double", {"last_price", "average_price", "net_change", "oi",
                         "oi_day_high", "oi_day_low",
                         "lower_circuit_limit", "upper_circuit_limit"})
  \cup Part("ohlc", "ohlc")
  \cup Part("depth", "mDepth")

LtpQuote ==
  Fields("uint32", {"instrument_token"}) \cup Fields("double", {"last_price"})

OhlcQuote ==
       Fields("uint32", {"instrument_token"})
  \cup Fields("double", {"last_price"})
  \cup Part("ohlc", "ohlc")

\* An array: members by position, read with rapidjson's own accessors.
HistoricalData ==
       Fields("bareString", {"datetime"})
  \cup Fields("bareDouble", {"open", "high", "low", "close"})
  \cup Fields("bareInt64", {"volume"})
  \cup Fields("optionalInt64", {"OI"})

Instrument ==
       Fields("cellUint32", {"instrument_token"})
  \cup Fields("cellInt", {"exchange_token"})
  \cup Fields("cellDouble", {"last_price", "strike", "tick_size", "lot_size"})
  \cup Fields("cellText", {"tradingsymbol", "name", "expiry",
                           "instrument_type", "segment", "exchange"})

MfInstrument ==
       Fields("cellFlag", {"purchase_allowed", "redemption_allowed"})
  \cup Fields("cellDouble", {"minimum_purchase_amount",
                             "purchase_amount_multiplier",
                             "minimum_additional_purchase_amount",
                             "minimum_redemption_quantity",
                             "redemption_quantity_multiplier", "last_price"})
  \cup Fields("cellText", {"tradingsymbol", "amc", "name", "dividend_type",
                           "scheme_type", "plan", "settlement_type",
                           "last_price_date"})

Order ==
       Fields("uint32", {"instrument_token"})
  \cup Fields("int", {"quantity", "disclosed_quantity", "validity_ttl",
                      "filled_quantity", "pending_quantity",
                      "cancelled_quantity"})
  \cup Fields("double", {"price", "trigger_price", "average_price"})
  \cup Fields("string", {"account_id", "placed_by", "order_id",
                         "exchange_order_id", "parent_order_id", "status",
                         "status_message", "order_timestamp",
                         "exchange_update_timestamp", "exchange_timestamp",
                         "rejected_by", "variety", "exchange",
                         "tradingsymbol", "order_type", "transaction_type",
                         "validity", "product"})

Trade ==
       Fields("uint32", {"instrument_token"})
  \cup Fields("double", {"average_price", "quantity"})
  \cup Fields("string", {"trade_id", "product", "fill_timestamp",
                         "exchange_timestamp", "exchange_order_id",
                         "order_id", "transaction_type", "tradingsymbol",
                         "exchange"})

\* Mutation: the filled quantity of a postback is read as a double.
PostbackDouble ==
       Fields("double", {"average_price", "price", "trigger_price", "filled_quantity"})
  \cup Fields("string", {"order_id", "status"})

Postback ==
       Fields("int", {"quantity", "filled_quantity", "unfilled_quantity"})
  \cup Fields("double", {"average_price", "price", "trigger_price"})
  \cup Fields("string", {"order_id", "exchange_order_id", "placed_by",
                         "status", "status_message", "tradingsymbol",
                         "exchange", "order_type", "transaction_type",
                         "validity", "product", "user_id",
                         "order_timestamp", "exchange_timestamp",
                         "checksum"})

GTTCondition ==
       Fields("double", {"last_price"})
  \cup Fields("string", {"exchange", "tradingsymbol"})
  \cup {Field("trigger_values", "doubles", "doubleEntry")}

GTT ==
       Fields("int", {"id"})
  \cup Fields("string", {"user_id", "type", "created_at", "updated_at",
                         "expires_at", "status"})
  \cup Part("condition", "GTTCondition")
  \cup Parts("orders", "order")

Gst == Fields("double", {"igst", "cgst", "sgst", "total"})

OrderCharges ==
       Fields("double", {"transaction_tax", "exchange_turnover_charge",
                         "sebi_turnover_charge", "brokerage", "stamp_duty",
                         "total"})
  \cup Fields("string", {"transaction_tax_type"})
  \cup Part("gst", "gst")

PNL == Fields("double", {"realised", "unrealised"})

OrderMargins ==
       Fields("string", {"type", "tradingsymbol", "exchange"})
  \cup Fields("double", {"span", "exposure", "option_premium", "additional",
                         "bo", "cash", "var", "total", "leverage"})
  \cup Part("pnl", "pnl")
  \cup Part("charges", "orderCharges")

BasketMargins ==
       Part("initial", "orderMargins")
  \cup Part("final", "orderMargins")
  \cup Part("charges", "orderCharges")
  \cup Parts("orders", "orderMargins")

PlaceMfSipResponse == Fields("string", {"order_id", "sip_id"})

MfOrder ==
       Fields("double", {"quantity", "amount", "last_price", "average_price"})
  \cup Fields("string", {"order_id", "exchange_order_id", "tradingsymbol",
                         "status", "status_message", "folio", "fund",
                         "order_timestamp", "exchange_timestamp",
                         "settlement_id", "transaction_type", "variety",
                         "purchase_type", "placed_by", "tag"})

MfHolding ==
       Fields("double", {"average_price", "last_price", "pnl", "quantity"})
  \cup Fields("string", {"folio", "fund", "tradingsymbol", "last_price_date"})

MfSip ==
       Fields("int", {"instalments", "pending_instalments", "instalment_day",
                      "completed_instalments"})
  \cup Fields("double", {"instalment_amount", "trigger_price"})
  \cup Fields("string", {"sip_id", "tradingsymbol", "fund", "dividend_type",
                         "transaction_type", "status", "sip_type", "created",
                         "frequency", "last_instalment", "next_instalment",
                         "tag"})

Holding ==
       Fields("uint32", {"instrument_token"})
  \cup Fields("int", {"quantity", "t1_quantity", "realised_quantity",
                      "collateral_quantity"})
  \cup Fields("double", {"price", "average_price", "last_price",
                         "close_price", "pnl", "day_change",
                         "day_change_percentage"})
  \cup Fields("string", {"tradingsymbol", "exchange", "isin", "product",
                         "collateral_type"})

Position ==
       Fields("uint32", {"instrument_token"})
  \cup Fields("int", {"quantity", "overnight_quantity", "buy_quantity",
                      "sell_quantity", "day_buy_quantity",
                      "day_sell_quantity"})
  \cup Fields("double", {"multiplier", "average_price", "close_price",
                         "last_price", "value", "pnl", "m2m", "unrealised",
                         "realised", "buy_price", "buy_value", "buy_m2m",
                         "sell_price", "sell_value", "sell_m2m",
                         "day_buy_price", "day_buy_value", "day_sell_price",
                         "day_sell_value"})
  \cup Fields("string", {"tradingsymbol", "exchange", "product"})

Positions == Parts("net", "position") \cup Parts("day", "position")

Meta == Fields("string", {"demat_consent"})

UserProfile ==
       Fields("string", {"user_id", "user_name", "user_shortname",
                         "avatar_url", "user_type", "email", "broker"})
  \cup {Field(n, "strings", "stringEntry") :
          n \in {"products", "order_types", "exchanges"}}
  \cup Part("meta", "meta")

UserTokens == Fields("string", {"user_id", "access_token", "refresh_token"})

\* Profile and tokens are read from the members of the same object.
UserSession ==
  UserProfile \cup UserTokens
    \cup Fields("string", {"api_key", "public_token", "login_time"})

AvailableMargins ==
  Fields("double", {"adhoc_margin", "cash", "collateral", "intraday_payin"})

UsedMargins ==
  Fields("double", {"debits", "exposure", "m2m_realised", "m2m_unrealised",
                    "option_premium", "payout", "span", "holding_sales",
                    "turnover"})

Margins ==
       Fields("bool", {"enabled"})
  \cup Fields("double", {"net"})
  \cup Part("available", "availableMargins")
  \cup Part("utilised", "usedMargins")

AllMargins == Part("equity", "margins") \cup Part("commodity", "margins")

\* The members of each type.  The last six are what a method or a vector reads
\* without a type of its own.
Members ==
  [ohlc |-> Ohlc, depth |-> Depth, mDepth |-> MDepth,
   quote |-> Quote, ohlcQuote |-> OhlcQuote, ltpQuote |-> LtpQuote,
   historicalData |-> HistoricalData,
   instrument |-> Instrument, mfInstrument |-> MfInstrument,
   order |-> Order, trade |-> Trade, postback |-> Postback,
   GTTCondition |-> GTTCondition, GTT |-> GTT,
   gst |-> Gst, orderCharges |-> OrderCharges, pnl |-> PNL,
   orderMargins |-> OrderMargins, basketMargins |-> BasketMargins,
   placeMfSipResponse |-> PlaceMfSipResponse, mfOrder |-> MfOrder,
   mfHolding |-> MfHolding, mfSip |-> MfSip,
   holding |-> Holding, position |-> Position, positions |-> Positions,
   meta |-> Meta, userProfile |-> UserProfile, userSession |-> UserSession,
   availableMargins |-> AvailableMargins, usedMargins |-> UsedMargins,
   margins |-> Margins, allMargins |-> AllMargins,
   orderId |-> Fields("string", {"order_id"}),
   sipId |-> Fields("string", {"sip_id"}),
   triggerId |-> Fields("int", {"trigger_id"}),
   stringEntry |-> Fields("stringEntry", {"entry"}),
   doubleEntry |-> Fields("doubleEntry", {"entry"}),
   flag |-> {}]

-----------------------------------------------------------------------------
(* What each method reads: one object, every element of an array, every    *)
(* member of an object, every candle, or every row of a CSV answer.        *)

Reading(methods, source, of) ==
  {[method |-> m, source |-> source, of |-> of] : m \in methods}

One(methods, of)     == Reading(methods, "object", of)
Every(methods, of)   == Reading(methods, "array", of)
Map(methods, of)     == Reading(methods, "members", of)
Candles(methods, of) == Reading(methods, "candles", of)
Rows(methods, of)    == Reading(methods, "rows", of)

ApiReadings == One({"generateSession"}, "userSession")
UserReadings ==
       One({"profile"}, "userProfile")
  \cup One({"getMargins"}, "allMargins")
  \cup One({"getMargins of a segment"}, "margins")
OrderReadings ==
       One({"placeOrder", "modifyOrder", "cancelOrder"}, "orderId")
  \cup Every({"orders", "orderHistory"}, "order")
  \cup Every({"trades", "orderTrades"}, "trade")
GttReadings ==
       One({"placeGtt", "modifyGtt", "deleteGtt"}, "triggerId")
  \cup Every({"triggers"}, "GTT")
  \cup One({"getGtt"}, "GTT")
MfReadings ==
       One({"placeMfOrder", "cancelMfOrder", "modifyMfSip"}, "orderId")
  \cup Every({"getMfOrders"}, "mfOrder")
  \cup One({"getMfOrder"}, "mfOrder")
  \cup Every({"getMfHoldings"}, "mfHolding")
  \cup One({"placeMfSip"}, "placeMfSipResponse")
  \cup One({"cancelMfSip"}, "sipId")
  \cup Every({"getSips"}, "mfSip")
  \cup One({"getSip"}, "mfSip")
  \cup Rows({"getMfInstruments"}, "mfInstrument")
PortfolioReadings ==
       Every({"holdings"}, "holding")
  \cup One({"getPositions"}, "positions")
  \cup One({"convertPosition"}, "flag")
MarketReadings ==
       Map({"getQuote"}, "quote")
  \cup Map({"getOhlc"}, "ohlcQuote")
  \cup Map({"getLtp"}, "ltpQuote")
  \cup Candles({"getHistoricalData"}, "historicalData")
  \cup Rows({"getInstruments"}, "instrument")
MarginsReadings ==
       Every({"getOrderMargins"}, "orderMargins")
  \cup One({"getBasketMargins"}, "basketMargins")
TickerReadings == One({"onOrderUpdate"}, "postback")

Readings ==
  ApiReadings \cup UserReadings \cup OrderReadings \cup GttReadings \cup MfReadings
    \cup PortfolioReadings \cup MarketReadings \cup MarginsReadings
    \cup TickerReadings

-----------------------------------------------------------------------------
(* Where the odd value can be: a field, inside of the fields that lead to  *)
(* it.  Element is an element of an array of objects, Candle of candles.   *)

Element == Field("element", "element", "none")
Candle == Field("candle", "candle", "none")

MaxDepth == 5   \* initial, charges, gst, igst is the deepest, after an element

PlacesWithin[depth \in 0..MaxDepth] ==
  [type \in DOMAIN Members |->
     LET nested == {f \in Members[type] : depth > 0 /\ f.of # "none"}
     IN {<<f>> : f \in Members[type]}
          \cup {<<f, Element>> : f \in {g \in nested : g.as = "objects"}}
          \cup UNION {{<<f>> \o p : p \in PlacesWithin[depth - 1][f.of]} : f \in nested}]

Places(reading) ==
  PlacesWithin[MaxDepth][reading.of]
    \cup CASE reading.source \in {"array", "members"} -> {<<Element>>}
           [] reading.source = "candles" -> {<<Candle>>}
           [] OTHER -> {}

KindsAt(reading, place) ==
  IF reading.source = "rows" THEN CellKinds
  ELSE IF place[Len(place)].as \in {"element", "candle", "stringEntry", "doubleEntry"}
    THEN Kinds \ {"absent"}
    ELSE Kinds

\* An element of an answer: where its odd value is, and of what kind.
Sound == [place |-> <<>>, kind |-> "none"]
Odd(reading) == UNION {{[place |-> p, kind |-> k] : k \in KindsAt(reading, p)} :
                       p \in Places(reading)}
Lengths(reading) == IF reading.source = "object" THEN {1} ELSE 0..MaxElements
Answers(reading) ==
  {[i \in 1..n |-> Sound] : n \in Lengths(reading)}
    \cup UNION {{[i \in 1..n |-> IF i = at THEN e ELSE Sound] :
                   at \in 1..n, e \in Odd(reading)} : n \in Lengths(reading)}

-----------------------------------------------------------------------------
(* What becomes of a value.  It is stored as it was sent, as the empty     *)
(* value of its type (0, "", an empty vector), altered, or not at all, so  *)
(* that members keep what they are initialised with (-1 for most numbers); *)
(* or decoding ends, in libException or another exception.                 *)

Stored == {"sent", "empty", "altered", "initial"}

\* The type error of json::get: its text is made by a lambda that keeps a
\* reference to the parameter of the call that first came by, which is gone
\* by now.  To read it is undefined.
TypeError == "type error"
Ends(became) ==
  IF became = TypeError THEN {"libException", "undefined"} ELSE {became}

\* rapidjson's Is... predicates.
IsInt == {"negative", "small"}
IsUint == {"small", "medium"}
IsInt64 == Integers
IsDouble == {"fraction"}

Fits(as, kind) ==
  \/ as \in {"string", "stringEntry"} /\ kind = "string"
  \/ as \in {"double", "doubleEntry"} /\ kind \in IsDouble \cup IsInt
  \/ as = "int"    /\ kind \in IsInt
  \/ as = "uint32" /\ kind \in IsUint
  \/ as = "int64"  /\ kind \in IsInt64
  \/ as = "bool"   /\ kind = "bool"
  \/ as \in {"strings", "doubles"} /\ kind = "array"

\* Mutation: a value of the wrong type is taken for a missing one.
getValueLenient(as, kind) == IF Fits(as, kind) THEN "sent" ELSE "empty"

getValue(as, kind) ==
  CASE Fits(as, kind) -> "sent"
    [] kind = "absent" -> "empty"
    [] as = "string" /\ kind = "null" -> "empty"
    [] OTHER -> TypeError

\* Vectors and their entries, among which a null is an error.
getVector(as, kind) ==
  CASE Fits(as, kind) -> "sent"
    [] kind = "absent" -> "empty"
    [] OTHER -> TypeError

\* Mutation: an object that is missing is a type error.
getObjectRequired(kind) == IF kind = "object" THEN "sent" ELSE TypeError

getObject(kind) ==
  CASE kind = "object" -> "sent"
    [] kind = "absent" -> "initial"
    [] OTHER           -> TypeError

\* A missing array leaves the buffer it would be moved to empty.
getArray(kind) ==
  CASE kind = "array"  -> "sent"
    [] kind = "absent" -> "empty"
    [] OTHER           -> TypeError

\* The members of a candle.  Accessors of rapidjson assert, which a release
\* build leaves out; only getDouble looks first.
getCandle(as, kind) ==
  IF kind = "absent" THEN IF as = "optionalInt64" THEN "initial" ELSE "undefined"
  ELSE CASE as = "bareDouble" ->
              IF kind \in IsDouble \cup IsInt THEN "sent" ELSE "libException"
         [] as = "bareString" -> IF kind = "string" THEN "sent" ELSE "undefined"
         [] OTHER -> IF kind \in IsInt64 THEN "sent" ELSE "undefined"

\* The number in a cell: std::stoi stops at the first character that is no
\* digit, std::stoul takes 64 bits, of which 32 are kept.
getNumber(as, kind) ==
  CASE as = "cellDouble" -> "sent"
    [] as # "cellDouble" /\ kind = "fraction" -> "altered"
    [] as = "cellUint32" /\ kind \in Integers ->
         IF kind \in IsUint THEN "sent" ELSE "altered"
    [] OTHER -> IF kind \in IsInt THEN "sent" ELSE "otherException"

\* The cells of a row.
getCell(as, kind) ==
  CASE kind = "absent" -> "undefined"
    [] kind # "absent" /\ as = "cellText" -> "sent"
    [] kind = "null" /\ as # "cellText" ->
         IF as = "cellFlag" THEN "otherException" ELSE "empty"
    [] kind = "string" /\ as # "cellText" -> "otherException"
    [] OTHER -> getNumber(as, kind)

Values == {"string", "double", "int", "uint32", "int64", "bool"}
Bare == {"bareString", "bareDouble", "bareInt64", "optionalInt64"}
Cells == {"cellText", "cellInt", "cellUint32", "cellDouble", "cellFlag"}

get(field, kind) ==
  CASE field.as = "object" -> getObject(kind)
    [] field.as = "objects" -> getArray(kind)
    [] field.as = "element" -> IF kind = "object" THEN "sent" ELSE "undefined"
    [] field.as = "candle" -> IF kind = "array" THEN "sent" ELSE "undefined"
    [] field.as \in Cells -> getCell(field.as, kind)
    [] field.as \in Bare -> getCandle(field.as, kind)
    [] field.as \in Values -> getValue(field.as, kind)
    [] OTHER -> getVector(field.as, kind)

Decoded(e) == IF e = Sound THEN "sent" ELSE get(e.place[Len(e.place)], e.kind)

-----------------------------------------------------------------------------

VARIABLES
  reading,  \* the method that was called, and what it reads
  answer,   \* the elements of the answer
  whole,    \* the data of the answer is what the method extracts
  decoded,  \* what became of each element's odd value, as far as decoded
  status    \* "decoding", "returned", or what ended it

vars == <<reading, answer, whole, decoded, status>>

\* The answers a server may send.  A wrong data member has no elements.
Init ==
  /\ reading \in Readings
  /\ \/ whole = TRUE  /\ answer \in Answers(reading)
     \/ whole = FALSE /\ answer = <<>> /\ reading.source # "rows"
  /\ decoded = <<>>
  /\ status = "decoding"

\* data is missing or of another type: extractObject, extractArray and
\* extractBool catch what rapidjson does not throw.  Its assertions end the
\* program or, compiled out, let it go on with what is not there.
Extract ==
  /\ status = "decoding"
  /\ ~whole
  /\ status' = "undefined"
  /\ UNCHANGED <<reading, answer, whole, decoded>>

Upcoming == answer[Len(decoded) + 1]

\* One turn of the loop over the elements, or the one object there is.  An
\* exception leaves the loop and what it has filled is gone.
DecodeElement ==
  /\ status = "decoding" /\ whole
  /\ Len(decoded) < Len(answer)
  /\ LET became == Decoded(Upcoming)
     IN IF became \in Stored
          THEN decoded' = Append(decoded, became) /\ UNCHANGED status
          ELSE decoded' = <<>> /\ status' \in Ends(became)
  /\ UNCHANGED <<reading, answer, whole>>

Return ==
  /\ status = "decoding" /\ whole
  /\ Len(decoded) = Len(answer)
  /\ status' = "returned"
  /\ UNCHANGED <<reading, answer, whole, decoded>>

Next == Extract \/ DecodeElement \/ Return

Spec == Init /\ [][Next]_vars

-----------------------------------------------------------------------------

Json == reading.source # "rows"
OddField(e) == e.place[Len(e.place)]
OddOnes == {e \in {answer[i] : i \in DOMAIN answer} : e # Sound}
Failed == whole /\ status \notin {"decoding", "returned"}

\* What a method returns has every value of a JSON answer as it was sent,
\* at whatever depth and in its place: a value json::get cannot take ends the
\* call, and neither is it replaced by a default the program would take for
\* data nor its element left out of the list.
SentValuesSurvive ==
  status = "returned" /\ Json =>
    \A i \in DOMAIN answer :
      answer[i].kind \notin {"absent", "null"} =>
         i \in DOMAIN decoded /\ decoded[i] = "sent"

\* A member the server does not send, or a whole object of them, at any
\* depth, is no reason for a call to fail.  Candles and rows go by position.
MissingIsForgiven ==
  Failed /\ reading.source \notin {"candles", "rows"} =>
    \A e \in OddOnes : e.kind # "absent"

\* Instrument tokens use all of their 32 bits, and volumes more: wherever
\* they are read, however nested, in JSON or CSV, their types hold them.
TokensAndVolumesFit ==
  Failed =>
    \A e \in OddOnes :
      /\ OddField(e).name = "instrument_token" => e.kind \notin IsUint
      /\ OddField(e).name = "volume" => e.kind \notin {"small", "medium", "large"}

\* The answers that tell of the same thing.  A trade is not among the orders:
\* its quantity is a double, so that a fraction is taken there and not by order.
Families == {{"order", "postback", "orderId"},
             {"quote", "ohlcQuote", "ltpQuote"},
             {"holding", "position"}}

\* A program that gets an order from a list and its update from the ticker,
\* or a price from any of the three quotes, gets both or neither: a value
\* that one of the types takes, another type that has it takes as well.
RelativesAgree ==
  \A e \in OddOnes : \A family \in Families :
    reading.of \in family /\ Len(e.place) = 1 =>
      \A type \in family : \A f \in Members[type] :
        f.name = OddField(e).name => get(f, e.kind) = Decoded(e)

\* Violated: a number is decoded although it comes without a floating point
\* "this time" (the comment in json::get).  One that no int holds, 2^31 or more
\* or below -2^31, is an error.
WholeNumbersDecode ==
  Failed =>
    \A e \in OddOnes : OddField(e).as = "double" => e.kind \notin Integers

=============================================================================
