----------------------------- MODULE Endpoints -----------------------------
(***************************************************************************)
(* From a call of a kite method to the request that leaves: the service    *)
(* the method names, the endpoint table, fmt's expansion of the path, and  *)
(* the body.                                                               *)
(*                                                                         *)
(* A path is its text in the table together with the places of its replace-*)
(* ment fields, written [0] here for the table's {0}; an argument that     *)
(* goes into one is a member of a small set, or a list of symbols.  The    *)
(* bodies are in Parameters.                                               *)
(***************************************************************************)
EXTENDS Parameters, Symbols

CONSTANTS
  Values,       \* what the program can pass for an argument of a path
  SymbolNames,  \* symbols, as sequences of characters
  MaxList,      \* bound: elements of a list the program passes
  DecimalsSet   \* numbers of decimals of a double the program passes

NoArgument == ""
ASSUME EndpointsAssumption ==
  /\ "bo" \in Values /\ NoArgument \in Values
  /\ \A symbol \in SymbolNames : symbol \in Seq(STRING \ Escapes)
  /\ MaxList \in Nat /\ DecimalsSet \subseteq Nat

-----------------------------------------------------------------------------
(* The table.                                                              *)

Endpoint(service, method, text, fields) ==
  [service |-> service, method |-> method, text |-> text, fields |-> fields,
   contentType |-> "NON_JSON", responseType |-> "JSON"]

JsonBody(e) == [e EXCEPT !.contentType = "JSON"]
Csv(e) == [e EXCEPT !.responseType = "NON_JSON"]

ApiEndpoints ==
  {Endpoint("api.token", "POST", "/session/token", <<>>),
   Endpoint("api.token.invalidate", "DEL",
        "/session/token?api_key=[0]&access_token=[1]", <<0, 1>>)}

UserEndpoints ==
  {Endpoint("user.profile", "GET", "/user/profile", <<>>),
   Endpoint("user.margins", "GET", "/user/margins", <<>>),
   Endpoint("user.margins.segment", "GET", "/user/margins/[0]", <<0>>)}

OrderEndpoints ==
  {Endpoint("order.info", "GET", "/orders/[0]", <<0>>),
   Endpoint("order.place", "POST", "/orders/[0]", <<0>>),
   Endpoint("order.modify", "PUT", "/orders/[0]/[1]", <<0, 1>>),
   Endpoint("order.cancel", "DEL", "/orders/[0]/[1]", <<0, 1>>),
   Endpoint("order.cancel.bo", "DEL",
        "/orders/[0]/[1]?parent_order_id=[1]", <<0, 1, 1>>),
   Endpoint("order.trades", "GET", "/orders/[0]/trades", <<0>>),
   Endpoint("orders", "GET", "/orders", <<>>),
   Endpoint("trades", "GET", "/trades", <<>>)}

GttEndpoints ==
  {Endpoint("gtt", "GET", "/gtt/triggers", <<>>),
   Endpoint("gtt.place", "POST", "/gtt/triggers", <<>>),
   Endpoint("gtt.info", "GET", "/gtt/triggers/[0]", <<0>>),
   Endpoint("gtt.modify", "PUT", "/gtt/triggers/[0]", <<0>>),
   Endpoint("gtt.delete", "DEL", "/gtt/triggers/[0]", <<0>>)}

MfEndpoints ==
  {Endpoint("mf.orders", "GET", "/mf/orders", <<>>),
   Endpoint("mf.order.info", "GET", "/mf/orders/[0]", <<0>>),
   Endpoint("mf.order.place", "POST", "/mf/orders", <<>>),
   Endpoint("mf.order.cancel", "DEL", "/mf/orders/[0]", <<0>>),
   Endpoint("mf.holdings", "GET", "/mf/holdings", <<>>),
   Csv(Endpoint("mf.instruments", "GET", "/mf/instruments", <<>>)),
   Endpoint("mf.sips", "GET", "/mf/sips", <<>>),
   Endpoint("mf.sip.info", "GET", "/mf/sips/[0]", <<0>>),
   Endpoint("mf.sip.place", "POST", "/mf/sips", <<>>),
   Endpoint("mf.sip.modify", "PUT", "/mf/sips/[0]", <<0>>),
   Endpoint("mf.sip.cancel", "DEL", "/mf/sips/[0]", <<0>>)}

\* Mutation: convertPosition is sent as a GET, which carries no body.
PortfolioEndpointsGet ==
  {Endpoint("portfolio.holdings", "GET", "/portfolio/holdings", <<>>),
   Endpoint("portfolio.positions", "GET", "/portfolio/positions", <<>>),
   Endpoint("portfolio.positions.convert", "GET", "/portfolio/positions", <<>>)}

PortfolioEndpoints ==
  {Endpoint("portfolio.holdings", "GET", "/portfolio/holdings", <<>>),
   Endpoint("portfolio.positions", "GET", "/portfolio/positions", <<>>),
   Endpoint("portfolio.positions.convert", "PUT", "/portfolio/positions", <<>>)}

MarketEndpoints ==
  {Csv(Endpoint("market.instruments.all", "GET", "/instruments", <<>>)),
   Csv(Endpoint("market.instruments", "GET", "/instruments/[0]", <<0>>)),
   Endpoint("market.margins", "GET", "/margins/[0]", <<0>>),
   Endpoint("market.historical", "GET",
        "/instruments/historical/[0]/[1]?from=[2]&to=[3]&continuous=[4]&oi=[5]",
        <<0, 1, 2, 3, 4, 5>>),
   Endpoint("market.trigger_range", "GET",
        "/instruments/trigger_range/[9]", <<9>>),
   Endpoint("market.quote", "GET", "/quote?[0]", <<0>>),
   Endpoint("market.quote.ohlc", "GET", "/quote/ohlc?[0]", <<0>>),
   Endpoint("market.quote.ltp", "GET", "/quote/ltp?[0]", <<0>>)}

\* Mutation: a table entry does not say that the body is JSON.
MarginsEndpointsForm ==
  {Endpoint("margins.orders", "POST", "/margins/orders", <<>>),
   JsonBody(Endpoint("margins.basket", "POST",
        "/margins/basket?consider_positions=[0]", <<0>>))}

MarginsEndpoints ==
  {JsonBody(Endpoint("margins.orders", "POST", "/margins/orders", <<>>)),
   JsonBody(Endpoint("margins.basket", "POST",
        "/margins/basket?consider_positions=[0]", <<0>>))}

endpoints == ApiEndpoints \cup UserEndpoints \cup OrderEndpoints
               \cup GttEndpoints \cup MfEndpoints \cup PortfolioEndpoints
               \cup MarketEndpoints \cup MarginsEndpoints

-----------------------------------------------------------------------------
(* The methods.  A method is its service and the number of arguments that  *)
(* go into the path; a Raw answer is read by the method itself, without    *)
(* callApi.                                                                *)

Method(name, service, arity) ==
  [name |-> name, service |-> service, arity |-> arity, reads |-> "callApi"]
Raw(m)  == [m EXCEPT !.reads = "raw"]

ApiMethods ==
  {Method("generateSession", "api.token", 0),
   Method("invalidateSession", "api.token.invalidate", 2)}

UserMethods ==
  {Method("profile", "user.profile", 0),
   Method("getMargins", "user.margins", 0),
   Method("getMarginsSegment", "user.margins.segment", 1)}

\* cancelOrder takes a third argument, the parent order, and uses it for
\* bracket orders.
OrderMethods ==
  {Method("placeOrder", "order.place", 1),
   Method("modifyOrder", "order.modify", 2),
   Method("cancelOrder", "order.cancel", 2),
   Method("cancelOrderBo", "order.cancel.bo", 3),
   Method("orders", "orders", 0),
   Method("orderHistory", "order.info", 1),
   Method("trades", "trades", 0),
   Method("orderTrades", "order.trades", 1)}

GttMethods ==
  {Method("placeGtt", "gtt.place", 0),
   Method("triggers", "gtt", 0),
   Method("getGtt", "gtt.info", 1),
   Method("modifyGtt", "gtt.modify", 1),
   Method("deleteGtt", "gtt.delete", 1)}

MfMethods ==
  {Method("placeMfOrder", "mf.order.place", 0),
   Method("cancelMfOrder", "mf.order.cancel", 1),
   Method("getMfOrders", "mf.orders", 0),
   Method("getMfOrder", "mf.order.info", 1),
   Method("getMfHoldings", "mf.holdings", 0),
   Method("placeMfSip", "mf.sip.place", 0),
   Method("modifyMfSip", "mf.sip.modify", 1),
   Method("cancelMfSip", "mf.sip.cancel", 1),
   Method("getSips", "mf.sips", 0),
   Method("getSip", "mf.sip.info", 1),
   Raw(Method("getMfInstruments", "mf.instruments", 0))}

PortfolioMethods ==
  {Method("holdings", "portfolio.holdings", 0),
   Method("getPositions", "portfolio.positions", 0),
   Method("convertPosition", "portfolio.positions.convert", 0)}

MarketMethods ==
  {Method("getQuote", "market.quote", 1),
   Method("getOhlc", "market.quote.ohlc", 1),
   Method("getLtp", "market.quote.ltp", 1),
   Method("getHistoricalData", "market.historical", 6),
   Raw(Method("getInstruments", "market.instruments", 1)),
   Raw(Method("getInstrumentsAll", "market.instruments.all", 0))}

\* Mutation: considerPositions is not handed to callApi.
MarginsMethodsNoArgument ==
  {Method("getOrderMargins", "margins.orders", 0),
   Method("getBasketMargins", "margins.basket", 0)}

MarginsMethods ==
  {Method("getOrderMargins", "margins.orders", 0),
   Method("getBasketMargins", "margins.basket", 1)}

Methods == ApiMethods \cup UserMethods \cup OrderMethods \cup GttMethods
             \cup MfMethods \cup PortfolioMethods \cup MarketMethods
             \cup MarginsMethods

-----------------------------------------------------------------------------
(* A call.                                                                 *)

VARIABLES
  called,   \* the method the program calls, one of Methods
  args,     \* its arguments that go into the path, in the order of fmtArgs
  passed,   \* its parameters, as far as they may vary: Passable
  sent,     \* the requests that have left
  thrown    \* the call has ended in an exception before anything was sent

vars == <<called, args, passed, sent, thrown>>

\* The methods that take a list of symbols, and encode it for the path.
Quotes == {"getQuote", "getOhlc", "getLtp"}

\* cancelOrder and getInstruments look at an argument to choose the service;
\* the two halves of each are two methods here.
Chosen(name, as) ==
  CASE name = "cancelOrder"    -> as[1] # "bo"
    [] name = "cancelOrderBo"  -> as[1] = "bo"
    [] name = "getInstruments" -> as[1] # NoArgument
    [] OTHER                   -> TRUE

Arguments(m) ==
  IF m.name \in Quotes
    THEN {<<symbols>> : symbols \in BoundedSeq(SymbolNames, MaxList)}
    ELSE {as \in [1..m.arity -> Values] : Chosen(m.name, as)}

\* encodeSymbolsList throws before anything is sent.
Accepts(m, as) == m.name \in Quotes => IsValid(as[1])

\* What callApi is given for the path.
FmtArgs(m, as) == IF m.name \in Quotes THEN <<encodeSymbolsList(as[1])>> ELSE as

\* path::operator(): without arguments the text goes out as it is, with
\* arguments every replacement field must name one of them, or fmt throws.
Expand(e, fmtArgs) ==
  IF fmtArgs = <<>>
    THEN [ok |-> e.fields = <<>>, fields |-> <<>>]
    ELSE IF \A i \in DOMAIN e.fields : e.fields[i] < Len(fmtArgs)
           THEN [ok |-> TRUE,
                 fields |-> [i \in DOMAIN e.fields |-> fmtArgs[e.fields[i] + 1]]]
           ELSE [ok |-> FALSE, fields |-> <<>>]

\* request::send: only POST and PUT carry the body.
Carried(e, body) == IF e.method \in {"POST", "PUT"} THEN body ELSE NoBody

\* sendReq: what leaves for the server.
sendReq(e, fmtArgs, body) ==
  [method |-> e.method, text |-> e.text, path |-> Expand(e, fmtArgs),
   contentType |-> e.contentType, body |-> Carried(e, body)]

ServiceOf(m) == CHOOSE e \in endpoints : e.service = m.service

RequestOf(m, as, p) == sendReq(ServiceOf(m), FmtArgs(m, as), Body(m.name, p))

Init == /\ called \in Methods
        /\ args \in Arguments(called)
        /\ passed \in Passable(called.name, MaxList, DecimalsSet)
        /\ sent = <<>>
        /\ thrown = FALSE

Send == /\ sent = <<>> /\ Accepts(called, args)
        /\ sent' = <<RequestOf(called, args, passed)>>
        /\ UNCHANGED <<called, args, passed, thrown>>

Throw == /\ ~Accepts(called, args) /\ ~thrown
         /\ thrown' = TRUE
         /\ UNCHANGED <<called, args, passed, sent>>

Next == Send \/ Throw
Spec == Init /\ [][Next]_vars

-----------------------------------------------------------------------------
(* Correctness of what is sent.                                            *)

\* No path leaves with a replacement field in it and none makes fmt throw: the
\* arguments each method gives fit the text the table has for its service.
PathsExpand == \A i \in DOMAIN sent : sent[i].path.ok

\* Nothing the program passes for the path is lost on the way: two calls of a
\* method with different arguments ask for different paths.  Two different
\* lists of symbols ask for different quotes, whatever is in the symbols.
\* (Not so for the parent of a bracket order, see ParentOrderReaches.)
EveryArgumentCounts ==
  (sent # <<>> /\ called.name # "cancelOrderBo") =>
     \A other \in Arguments(called) :
        (/\ Accepts(called, other)
         /\ Expand(ServiceOf(called), FmtArgs(called, other)) = sent[1].path)
           => other = args

\* No two methods can be confused by the server: the method, the path and the
\* arguments in it tell which one was called.
MethodsAreDistinct ==
  sent # <<>> =>
     \A m \in Methods \ {called} :
        LET e == ServiceOf(m)
        IN  (e.method = sent[1].method /\ e.text = sent[1].text) =>
              \A other \in Arguments(m) :
                 Expand(e, FmtArgs(m, other)) # sent[1].path

\* Each method reads the answer as the table types it and gives the body the
\* content type announces: callApi never looks for JSON in a CSV answer, and
\* a JSON request has the first element sendReq takes, while no form has a
\* parameter without a name.
BodiesAgree ==
  sent # <<>> =>
     LET e == ServiceOf(called)
     IN  /\ (e.responseType = "NON_JSON") <=> (called.reads = "raw")
         /\ (e.contentType = "JSON") <=> (sent[1].body.params = {""})
         /\ "" \in sent[1].body.params => sent[1].body.params = {""}

\* Whatever the program has set in the parameters of a call, in them or in any
\* element of their lists, is in the path or in the body, and nothing else is:
\* no optional member is sent unset or dropped when set, no element of a list
\* mixes with another, no value comes out as null, and doubles of no more
\* decimals than std::to_string writes keep them.
ParametersReach ==
  sent # <<>> =>
     LET entries == sent[1].body.entries
         program == Passed(called.name, passed)
     IN  /\ {<<e.index, e.member>> : e \in entries}
               \cup ({0} \X PathMembers(called.name)) = {<<v[1], v[2]>> : v \in program}
         /\ \A e \in entries :
               /\ e.index \in {0, e.element}
               /\ passed.decimals <= ToStringDecimals
                    => <<e.index, e.member, e.decimals>> \in program

\* The same member has the same name in the body of every method that sends
\* it: the server is told of a quantity, a trigger or the instalments of a
\* plan in one way only.
NamesAgree ==
  \A i \in DOMAIN sent : \A e \in sent[i].body.entries :
     \A name \in AllNames : e.member = name.member => e.name = name.name

\* The parent order the program names reaches the server.
ParentOrderReaches ==
  (sent # <<>> /\ called.name = "cancelOrderBo") =>
     \E i \in DOMAIN sent[1].path.fields : sent[1].path.fields[i] = args[3]

=============================================================================
