----------------------------- MODULE Parameters -----------------------------
(***************************************************************************)
(* What the methods that take parameters put into the body of a request.   *)
(*                                                                         *)
(* A member of a struct stands for its value: what is passed in price is   *)
(* "price", and numbers have decimals.  A body has parameters, some of     *)
(* which are JSON texts; its entries say for each value in it where it     *)
(* stands (the parameter, the element of a list, or 0, and the name) and   *)
(* where it comes from (the element of the program's list, or 0, and the   *)
(* member).                                                                *)
(***************************************************************************)
EXTENDS Naturals, JsonField

-----------------------------------------------------------------------------
(* The structs.  Optional members may be left unset.                       *)

Struct(required, optional) == [required |-> required, optional |-> optional]
NoMembers == [m \in {} |-> ""]

Members(struct) == DOMAIN struct.required \cup DOMAIN struct.optional
TypeIn(struct, m) ==
  IF m \in DOMAIN struct.required THEN struct.required[m] ELSE struct.optional[m]

\* Its arguments, and the member key of kite.
sessionParams == Struct(
  [key |-> "string", requestToken |-> "string", apiSecret |-> "string"],
  NoMembers)

placeOrderParams == Struct(
  [quantity |-> "int", variety |-> "string", exchange |-> "string",
   symbol |-> "string", transactionType |-> "string", product |-> "string",
   orderType |-> "string"],
  [disclosedQuantity |-> "int", validityTtl |-> "int", icebergLegs |-> "int",
   icebergQuantity |-> "int", price |-> "double", triggerPrice |-> "double",
   squareOff |-> "double", stopLoss |-> "double",
   trailingStopLoss |-> "double", validity |-> "string", tag |-> "string"])

modifyOrderParams == Struct(
  [variety |-> "string", orderId |-> "string"],
  [quantity |-> "int", disclosedQuantity |-> "int", price |-> "double",
   triggerPrice |-> "double", parentOrderId |-> "string",
   orderType |-> "string", validity |-> "string"])

gttParams == Struct(
  [quantity |-> "int", price |-> "double", transactionType |-> "string",
   orderType |-> "string", product |-> "string"], NoMembers)

\* Without their lists, triggerValues and gttParamsList.
placeGttParams == Struct(
  [lastPrice |-> "double", triggerType |-> "string", symbol |-> "string",
   exchange |-> "string"], NoMembers)
modifyGttParams == Struct(
  [triggerId |-> "int", lastPrice |-> "double", triggerType |-> "string",
   symbol |-> "string", exchange |-> "string"], NoMembers)

placeMfOrderParams == Struct(
  [symbol |-> "string", transactionType |-> "string"],
  [quantity |-> "int", amount |-> "double", tag |-> "string"])

placeMfSipParams == Struct(
  [installments |-> "int", amount |-> "double", symbol |-> "string",
   frequency |-> "string"],
  [installmentDay |-> "int", initialAmount |-> "double", tag |-> "string"])

modifyMfSipParams == Struct(
  [sipId |-> "string"],
  [installmentDay |-> "int", installments |-> "int", amount |-> "double",
   status |-> "string", frequency |-> "string"])

convertPositionParams == Struct(
  [quantity |-> "int", exchange |-> "string", symbol |-> "string",
   transactionType |-> "string", positionType |-> "string",
   oldProduct |-> "string", newProduct |-> "string"], NoMembers)

marginsParams == Struct(
  [quantity |-> "double", price |-> "double", triggerPrice |-> "double",
   exchange |-> "string", tradingsymbol |-> "string",
   transactionType |-> "string", variety |-> "string", product |-> "string",
   orderType |-> "string"], NoMembers)

-----------------------------------------------------------------------------
(* Values and entries.  p is what the program passes: the optional members *)
(* it sets, the lengths of its lists, the decimals of its doubles.         *)

Entry(param, element, name, index, member, decimals) ==
  [param |-> param, element |-> element, name |-> name,
   index |-> index, member |-> member, decimals |-> decimals]

Decimals(type, p) == IF type = "double" THEN p.decimals ELSE 0

\* std::to_string, which writes a double with six decimals.
ToStringDecimals == 6
Written(type, p) ==
  IF Decimals(type, p) < ToStringDecimals THEN Decimals(type, p) ELSE ToStringDecimals

\* JSON members of an object, from element index of the program's list.
JsonMembers(param, element, index, struct, names, p) ==
  {LET m == names[n]
       type == TypeIn(struct, m)
   IN  Entry(param, element, n, index, field(type, m), Decimals(type, p))
     : n \in DOMAIN names}

-----------------------------------------------------------------------------
(* Form bodies: name |-> member, of required and of optional members.      *)

Form(struct, required, optional) ==
  [struct |-> struct, required |-> required, optional |-> optional]

\* The last parameter is a hash of all three arguments; it stands for the
\* secret, which is nowhere else.
sessionForm == Form(sessionParams,
  [api_key |-> "key", request_token |-> "requestToken",
   checksum |-> "apiSecret"], NoMembers)

placeOrderForm == Form(placeOrderParams,
  [exchange |-> "exchange", tradingsymbol |-> "symbol",
   transaction_type |-> "transactionType", quantity |-> "quantity",
   product |-> "product", order_type |-> "orderType"],
  [price |-> "price", validity |-> "validity",
   disclosed_quantity |-> "disclosedQuantity",
   trigger_price |-> "triggerPrice", squareoff |-> "squareOff",
   stoploss |-> "stopLoss", trailing_stoploss |-> "trailingStopLoss",
   iceberg_legs |-> "icebergLegs", iceberg_quantity |-> "icebergQuantity",
   validity_ttl |-> "validityTtl", tag |-> "tag"])

modifyOrderForm == Form(modifyOrderParams, NoMembers,
  [parent_order_id |-> "parentOrderId", quantity |-> "quantity",
   price |-> "price", order_type |-> "orderType",
   trigger_price |-> "triggerPrice", validity |-> "validity",
   disclosed_quantity |-> "disclosedQuantity"])

placeMfOrderForm == Form(placeMfOrderParams,
  [tradingsymbol |-> "symbol", transaction_type |-> "transactionType"],
  [quantity |-> "quantity", amount |-> "amount", tag |-> "tag"])

placeMfSipForm == Form(placeMfSipParams,
  [tradingsymbol |-> "symbol", amount |-> "amount",
   instalments |-> "installments", frequency |-> "frequency"],
  [initial_amount |-> "initialAmount", instalment_day |-> "installmentDay",
   tag |-> "tag"])

\* Mutation: the name is spelt like the member.
modifyMfSipFormSpelt == Form(modifyMfSipParams, NoMembers,
  [amount |-> "amount", status |-> "status", installments |-> "installments",
   frequency |-> "frequency", instalment_day |-> "installmentDay"])

modifyMfSipForm == Form(modifyMfSipParams, NoMembers,
  [amount |-> "amount", status |-> "status", instalments |-> "installments",
   frequency |-> "frequency", instalment_day |-> "installmentDay"])

convertPositionForm == Form(convertPositionParams,
  [exchange |-> "exchange", tradingsymbol |-> "symbol",
   transaction_type |-> "transactionType", position_type |-> "positionType",
   quantity |-> "quantity", old_product |-> "oldProduct",
   new_product |-> "newProduct"], NoMembers)

\* A member that is added to the form.
Added(form, name, member, p) ==
  Entry(name, 0, name, 0, member, Written(TypeIn(form.struct, member), p))

\* addParam adds an optional member that has a value.
FormEntries(form, p) ==
  {Added(form, n, form.required[n], p) : n \in DOMAIN form.required}
    \cup {Added(form, n, form.optional[n], p) :
            n \in {o \in DOMAIN form.optional : form.optional[o] \in p.given}}

-----------------------------------------------------------------------------
(* Bodies with JSON.                                                       *)

getConditionJson(struct, p) ==
  JsonMembers("condition", 0, 0, struct,
              [exchange |-> "exchange", tradingsymbol |-> "symbol",
               last_price |-> "lastPrice"], p)
  \cup {Entry("condition", i, "trigger_values", i, "triggerValues", p.decimals)
          : i \in 1..p.values}

\* Exchange and symbol are the same for every order of a GTT.
getOrdersJson(struct, p) ==
  UNION {JsonMembers("orders", i, 0, struct,
            [exchange |-> "exchange", tradingsymbol |-> "symbol"], p)
         \cup JsonMembers("orders", i, i, gttParams,
            [transaction_type |-> "transactionType", quantity |-> "quantity",
             order_type |-> "orderType", product |-> "product",
             price |-> "price"], p)
           : i \in 1..p.list}

GttEntries(struct, p) ==
  {Entry("type", 0, "type", 0, "triggerType", 0)}
     \cup getConditionJson(struct, p) \cup getOrdersJson(struct, p)

MarginsEntries(p) ==
  UNION {JsonMembers("", i, i, marginsParams,
            [exchange |-> "exchange", tradingsymbol |-> "tradingsymbol",
             transaction_type |-> "transactionType", variety |-> "variety",
             product |-> "product", order_type |-> "orderType",
             quantity |-> "quantity", price |-> "price",
             trigger_price |-> "triggerPrice"], p)
           : i \in 1..p.list}

-----------------------------------------------------------------------------
(* The body of each method, by the method's name.                          *)

Forms ==
  [generateSession |-> sessionForm,
   placeOrder      |-> placeOrderForm,
   modifyOrder     |-> modifyOrderForm,
   placeMfOrder    |-> placeMfOrderForm,
   placeMfSip      |-> placeMfSipForm,
   modifyMfSip     |-> modifyMfSipForm,
   convertPosition |-> convertPositionForm]

Gtts == [placeGtt |-> placeGttParams, modifyGtt |-> modifyGttParams]

Margins == {"getOrderMargins", "getBasketMargins"}

NoBody == [params |-> {}, entries |-> {}]

Body(name, p) ==
  CASE name \in DOMAIN Forms ->
         LET entries == FormEntries(Forms[name], p)
         IN  [params |-> {e.param : e \in entries}, entries |-> entries]
    [] name \in DOMAIN Gtts ->
         [params |-> {"type", "condition", "orders"},
          entries |-> GttEntries(Gtts[name], p)]
    [] name \in Margins ->
         [params |-> {""}, entries |-> MarginsEntries(p)]
    [] OTHER -> NoBody

\* The members that go into the path instead.
PathMembers(name) ==
  CASE name = "placeOrder"  -> {"variety"}
    [] name = "modifyOrder" -> {"variety", "orderId"}
    [] name = "modifyGtt"   -> {"triggerId"}
    [] name = "modifyMfSip" -> {"sipId"}
    [] OTHER                -> {}

\* What a program can pass: optional members as it likes, lists of up to
\* maxList elements, doubles with any of the numbers of decimals in ds.
Passable(name, maxList, ds) ==
  [given    : SUBSET (IF name \in DOMAIN Forms
                        THEN DOMAIN Forms[name].struct.optional ELSE {}),
   values   : IF name \in DOMAIN Gtts THEN 0..maxList ELSE {0},
   list     : IF name \in DOMAIN Gtts \cup Margins THEN 0..maxList ELSE {0},
   decimals : IF name \in DOMAIN Forms \cup DOMAIN Gtts \cup Margins
                THEN ds ELSE {0}]

Typed(index, members, struct, p) ==
  {<<index, m, Decimals(TypeIn(struct, m), p)>> : m \in members}

\* What a program that passes p has passed: triples of element, member and
\* decimals.
Passed(name, p) ==
  CASE name \in DOMAIN Forms ->
         LET struct == Forms[name].struct
         IN  Typed(0, DOMAIN struct.required \cup p.given, struct, p)
    [] name \in DOMAIN Gtts ->
         Typed(0, Members(Gtts[name]), Gtts[name], p)
           \cup {<<i, "triggerValues", p.decimals>> : i \in 1..p.values}
           \cup UNION {Typed(i, Members(gttParams), gttParams, p) : i \in 1..p.list}
    [] name \in Margins ->
         UNION {Typed(i, Members(marginsParams), marginsParams, p) : i \in 1..p.list}
    [] OTHER -> {}

\* The name of every member in every body that has it.
AllNames ==
  {[member |-> e.member, name |-> e.name] :
     e \in (UNION {Body(n, [given |-> Members(Forms[n].struct),
                            values |-> 0, list |-> 0, decimals |-> 0]).entries
                      : n \in DOMAIN Forms})
             \cup (UNION {Body(n, [given |-> {}, values |-> 1, list |-> 1,
                                  decimals |-> 0]).entries
                            : n \in DOMAIN Gtts \cup Margins})}

=============================================================================
