# A verification of cppkiteconnect

TLA+ models of [cppkiteconnect](../src/README.md), a C++ client for Zerodha's
Kite Connect API, with the TLC configurations that check them and proofs that
TLAPS checks. Paths below are relative to the repository.

## The system

The library is header-only (`include/kitepp`). It has two halves that share
nothing but helpers.

| component | state | operations | hard part |
|---|---|---|---|
| ticker connection (`ticker/internal.hpp`, `ticker/ws.hpp`) | `ws`, `isReconnecting`, `reconnectTries`, `reconnectDelay` | `connect`, `run`, `stop`, `reconnect`, the handlers `assignCallbacks` gives to uWS | handlers nest in one another and in the program's callbacks; losses, failed attempts and retries in any order |
| ticker subscriptions | `subbedInstruments` | `subscribe`, `unsubscribe`, `setMode`, `resubInstruments` | the record outlives connections, requests on their way do not |
| ticker binary messages | the cursor of `splitPackets` | `splitPackets`, `parseBinaryMessage` | hand-written offsets, six kinds of packets |
| ticker message dispatch, heartbeats | `lastBeatTime`, `lastPongTime` | `onMessage`, `processTextMessage`, `onPong` | exceptions leave `run()` |
| kite session and calls (`kite/api.hpp`, `kite/internal.hpp`, `utils.hpp`, `exceptions.hpp`) | `key`, `token`, `authorization` | session methods, `callApi`, `sendReq`, `request::send`, `response::parse`, `throwException` | what a failed call says about what the server did |
| kite endpoints and methods (`kite.hpp`, `kite/*.hpp`) | the table `endpoints` | some forty methods | table and arguments agree by position only |
| response types (`responses/*.hpp`, `utils.hpp`) | none | `json::get`, `json::parse`, the constructors of three dozen types, the loops over lists | missing and mistyped members, anywhere in an answer; the range of numbers |
| request parameters, symbol lists (`responses/*.hpp`, `kite/*.hpp`, `utils.hpp`) | none | the parameter structs, `addParam`, `json::field`, `getConditionJson`, `getOrdersJson`, `encodeSymbolsList` | optional members, lists, names written by hand in nine bodies |

The ticker is driven by uWS's event loop on the thread that calls `run()`. uWS
calls the handlers, the handlers call the program's `on...` callbacks, and those
may call the ticker again. `kite` blocks in httplib and has no callbacks.
Correct means, for the connection: `isConnected()` tells the truth, there is one
connection at a time, every loss ends in a connection or in `onReconnectFail`,
retries follow the documented backoff and budget, and stopping is final; for the
subscriptions: the server comes to serve what the program asked for; for binary
messages: every byte of a message ends up in the field it belongs to; for calls:
the request carries all that the program passed and nothing else, is made once, and its outcome says
what the server did; for answers: the program gets every value that was sent, or
an exception. The list of hazards in `PROJECT.json` gives the lines where
each of these could go wrong.

## Modules

- **AutoReconnect** is the abstract promise: a connection is off, being made, up
  or lost, and at most `MaxReconnectTries` retries follow a loss.
- **Connection** is the core. `stack` is the work left on the call stack,
  innermost first. Each element is a place where control is about to enter a
  callback of the program or the rest of a handler; the empty stack is the event
  loop. This makes the nesting explicit: `ws->close()` runs the disconnection
  handler before it returns, `hub.connect()` may run the error handler before it
  returns, and a callback may call `stop()` or `connect()`. There is one action per
  handler part: `ErrorHandler` (`onConnectError`, `CloseIfConnected`,
  `ReconnectIfEnabled`), `DisconnectionHandler` (`onError`, `onClose`,
  `ReconnectIfIdle`), `reconnect` with `ReconnectingDone` after `onReconnectFail`,
  `Established`. `AttemptFails`, `Closed` and the outcome of `hub.connect()` are
  uWS's, taken from how the code uses it. `retried`, `slept`, `stopped` and
  `outcome` are history. `connects` bounds the program's calls.
  `Disciplined` describes a program that calls `connect()` only when the ticker
  is not going to: before `run()`, in `onReconnectFail`, and after an exception that came
  out of `run()` when `isConnected()` says no; or, without automatic
  reconnection, in `onConnectError` and `onClose`. `KeepsPromise` is the refinement
  of AutoReconnect by `phaseBar` and `retriesBar`.
- **Subscriptions** has the client's record, the requests on their way on each
  connection, and the server's record per connection. **JsonField** says what the
  JSON builder makes of a C++ type, and is used here and in Parameters. `unheard`
  is history: the instruments whose last request on this connection has lost its
  action (finding 1) or named a mode that does not exist, which `setMode` records as full.
- **Messages** is `onMessage` and `processTextMessage`: for each kind of message
  the callback it runs, the exception it throws or nothing, and the time of the last
  heartbeat, counted in heartbeats.
- **Ticker** composes the three: the program's requests from callbacks,
  resubscription inside `Established`, a closed socket that takes its requests along
  (`Keeping`), and `Deliver`, which replaces Connection's free `Message` by a message
  with its kind. A callback that throws (`Throw`), which `subscribe` does when nothing
  is connected, drops what is left of the handlers and leaves `run()`; the program
  may call `run()` or `connect()` again.
- **TickParser** has one step per turn of each loop. A payload byte is a packet
  and a place in it, so a field's value is the bytes it was read from.
- **Parameters** has every parameter struct with the types of its members, and the
  form or JSON body each method makes of it. A member stands for its value. A body is
  a set of entries that say where a value stands and where it comes from, so that
  "dropped", "sent though unset" and "from another element" are different sets.
  `std::to_string` keeps six decimals of a double, JSON keeps all.
- **Symbols** is `encodeSymbolsList` on characters, because what could go wrong is a
  character: a `&` in a symbol. `parser::encodeUrl` is declared nowhere in the
  repository and is taken to percent-encode.
- **Endpoints** has the table and, per method, the service and the arguments that
  go into the path. A path is its text and the numbers of its replacement fields
  (written `[0]` in the text for the table's `{0}`), expanded as fmt does. It sends what Parameters and Symbols make, or throws before
  anything is sent.
- **KiteCalls** has the session state, numbered blocking calls, a network that
  loses requests and answers and brings requests late, a server with sessions, and
  the classification of answers. **CallPromise** is what a program may rely on: every call is
  carried out once or never, which is decided once, perhaps after the call has returned, and
  the program learns the truth or that the outcome is unknown. `KeepsPromise` of KiteCalls is the
  refinement, by `fateBar` and `toldBar`.
- **Decode** goes from the body of an answer to the value a method returns. It has
  the members of every response type with the C++ type they are read as, what each
  method reads (an object, a list, a map, candles, CSV rows; `reading` is the method
  that was called), what `json::get` makes of a value, and the loop over the elements, which an exception leaves. A value is
  its kind: integers by the smallest C++ type that holds them, other values by
  their JSON type. What becomes of it: stored as sent, empty (0, `""`), altered
  (CSV only), or left as initialised (-1), or decoding ends. Two outcomes are
  undefined in the code and nondeterministic in the model: rapidjson's assertions,
  and the message of a type error, whose lambda keeps a reference to a parameter
  that is gone (`utils.hpp:146`).
- **ConnectionProofs**, **ReconnectProofs** (both about Connection), **TickerProofs**,
  **KiteCallsProofs**, **TickParserProofs**, **DecodeProofs** and **EndpointsProofs** hold
  the theorems, **Induction** the lemmas about numbers and joined sequences they share. `MCConnection`,
  `MCTicker` and `MCEndpoints` fix what TLC needs. Definitions under a
  comment "Mutation" are plausible bugs; the runs find each of them (`mutants` in
  `PROJECT.json`).

## Runs

| run | shows |
|---|---|
| `connection_auto` | automatic reconnection, with a program that may connect again after an exception: all invariants, `LossIsAnswered`, refinement of AutoReconnect |
| `ticker_both` | a program that connects from `onClose` and after exceptions beside the ticker, two connections at once, messages, one instrument |
| `ticker_sync` | two instruments, two requests on their way, losses and exceptions: `InSync`, `ServerCatchesUp` |
| `ticker_subscribe` | violation: `subscribe` does not subscribe |
| `tick_parser` | all messages of up to three packets |
| `decode` | every answer with one odd value of any kind, anywhere in it |
| `decode_numbers` | violation: whole numbers that no int holds are no doubles |
| `endpoints` | every method with three values per path argument, lists of symbols, all sets of optional members, lists of up to two elements |
| `endpoints_parent` | violation: the parent order is not sent |
| `kite_calls` | two calls of any kind over the lossy network: invariants, refinement of CallPromise |
| `kite_unknown` | violation: `unknownException` is not thrown where documented |
| `kite_empty` | violation: `getInstruments` hides errors |

Bounds. Two sockets let a closed socket be handed out
again and two be open at once; three retries let the delay grow, reach its cap of
5 and the budget run out; three calls of `connect()` allow two whole cycles after
the first. Reconnection by the program itself (`EnableReconnect = FALSE`) has no run
of its own: the theorems cover it. In `ticker_sync` two instruments let a request name one or both and
resubscription need two messages (`ticker_both` has one, and two sockets and two
retries with a cap of 3 that the second reaches); one socket and one retry are enough for a loss
at every point of the traffic, because connections do not overlap there; two
requests on their way let one be lost behind another. Three packets put every size
before and after every other. In `decode`, one odd value suffices because members
and elements are decoded independently, each by its own call of `json::get`, and
the first that throws ends them all; lists of two put it before and after a sound
element; `MaxDepth` exceeds the nesting of the types. In `endpoints` all 2^11 sets of optional
members of an order are tried, lists of two tell elements apart, doubles have 4 or 7
decimals, fewer and more than are written; the symbols can be taken for one another
if they are not encoded. `Values` has the empty string, "bo" and one more,
which are those the code tells apart. Two calls let a request be carried out
during or after the next call. The server's errors are of two sorts, by what `exceptions.hpp` says
of them: those about the token, the user, the order, the input and the permission, which
reject, and those about the network, the data and "general" ones, which leave open what became
of the request and may come after it was carried out. Two of the first and one of the second
stand for them in the runs; the theorems take any. Deadlock is not checked
where the system may stop: the event loop of a closed ticker, a program that has
made its calls.

Fairness. Handlers run to their end and callbacks return or throw (`WF(Library)`, in
Ticker `WF(Handlers)`), uWS resolves every attempt because `connectInternal` gives it
a timeout (`WF(Resolve)`; left out in Ticker, whose liveness does not need it),
the ticker server takes requests in order (`WF(Server)`), and httplib's time limits end every
call (`WF(Receive \/ Lost)`). Nothing obliges the program
or the peer. A handler that blocks in the program's callback is outside of this.

## Findings

1. `subscribe` and `unsubscribe` send `{"a":null,"v":[...]}`: `json::field` has no
   branch for the string literal they pass (`ticker/internal.hpp:101`, `:117`,
   `utils.hpp:333`). The client records the instruments all the same and the next
   resubscription, which uses `setMode`, asks for them; `InSync` and `ServerCatchesUp`
   are therefore about what `setMode` or a resubscription has named last.
2. `order.cancel.bo` sends the order as its own parent (`kite.hpp:651`).
3. `unknownException` is never thrown; an error without `error_type` ends in
   `libException`, which is no `kiteppException` (`utils.hpp:465`).
4. `getInstruments` and `getMfInstruments` return an empty list for an error answer
   (`kite/market.hpp:100`, `kite/mf.hpp:137`).
5. `json::get<double>` takes a number without a fraction only when an int holds it
   (`utils.hpp:161`): a turnover or margin of 2^31 or more, or below -2^31, makes the
   whole call throw.

Other behaviour a user should know of, without a run of its own:

- `stop()` closes only an open connection (`ticker/internal.hpp:96`). Called between two
  attempts it changes nothing, and the ticker goes on retrying.
- In the setting of `ticker_both`, `ConnectedIffOpen`, `OneConnection` and
  `StopIsFinal` do not hold: `onDisconnection` sets `ws` to null whichever socket was
  closed (`ticker/internal.hpp:419`), so a second connection may be left open that
  `stop()` does not see. No document promises anything for such a program; the
  theorems state the condition.
- An exception out of a callback or a malformed message drops what is left of the
  handlers, a retry included, and leaves `isReconnecting` as it was. `NeverSilent` and
  `LossIsAnswered` leave that to the program; what they and `OneConnection` say is that
  a program that catches it and connects again is well served.
- A heartbeat counts only when `onTicks` is set (`ticker/internal.hpp:391`): for a program
  that only wants order updates `getLastBeatTime()` never changes, although
  `ticker/ws.hpp:182` recommends it for watching the connection.
- The first retry waits for two seconds whatever `MaxReconnectDelay` is
  (`ticker/internal.hpp:180`); only later delays are capped, as `BackoffSchedule` states.
- A CSV cell that is not the number it should be, or an empty flag of a mutual fund, ends the
  call with `std::invalid_argument` or `std::out_of_range` and not with `libException`
  (`responses/market.hpp:241`, `responses/mf.hpp:248`).
- `lastBeatTime` stays what it was over a new connection, and `lastPongTime` is
  written and never read.
- `quantity` of `placeOrderParams`, `installments` and `amount` of `placeMfSipParams`,
  `triggerId` and `lastPrice` of `modifyGttParams` have no initial value: left unset,
  what is sent is undefined.

## Proofs

`tlapm` on the seven `...Proofs.tla` and on `Induction.tla` proves every safety invariant
that a passing run checks, for all values of the constants that satisfy the assumptions of
the modules (any number of sockets, retries, calls, instruments, heartbeats, packets and
list elements). Where a theorem needs more, its ASSUME says so:
`Disciplined` describes a program that leaves reconnecting to the ticker, and for other
programs the property fails (see Findings). TLC checked each strengthening on an instance
before it was proved.

**Connection.**

- `TypeCorrect` (`TypeOK`) and `NeverDangling` (`NoDanglingSocket`), for every program.
- `BudgetIsKept` (`GivesUpAtBudget`), for every program. The invariant `Budget`
  relates `retried` to `reconnectTries`: they agree until the budget is exceeded,
  after which no further attempt begins before the next connection.
- `OneAtATime` (`OneConnection`) and `IsConnectedIsTrue` (`ConnectedIffOpen`) for
  disciplined programs. Neither is inductive, because a handler still on the stack may
  connect later. `Single` adds that of the points that lead to an attempt at most one is
  on the stack, and none while a socket is open or an attempt is in flight; a
  counting argument about sequences carries it through the handlers. Once an exception is out
  nothing is behind it on the stack (`NoneBehind`), so that a `connect()` there is the only one.
- `StopEndsReconnection` (`StopIsFinal`) for disciplined programs, from `Single`
  and the fact that after such a `stop()` no retrying point is on the stack.
- `DelaysDouble` (`BackoffSchedule`), for every program. `Backoff` says what
  `reconnectDelay` will be from the number of retries, before, at and after the cap.
- `AlwaysTold` (`NeverSilent`) for disciplined programs. `Answerable` says that after a
  loss some point on the stack, the attempt in flight or the socket still answers for it.
  The hypothesis is needed: an undisciplined program that connects beside the ticker can
  make it fall silent.
- `PromiseIsKept`: the handlers implement the safety part of AutoReconnect. Each step maps
  to one step of the promise or to a stutter, by `Single` and `Answerable`. It needs
  automatic reconnection, as the promise does.

**Ticker.**

- `TickerIsAConnection`: the ticker implements `Safety`, the safety part of Connection;
  each step of it maps to a step of the connection or to a stutter. `TickerNeverDangles`,
  `TickerKeepsBudget`, `TickerKeepsSchedule`, `TickerIsNeverSilent` and
  `TickerKeepsPromise` follow, since their lemmas need no fairness.
- `TickerTypes` (`TickerTypeOK`).
- `StaysInSync` (`InSync`), for every program. What the server will have after the requests on
  their way is a fold; a lemma replaces it by "the last request that names the
  instrument decides", after which each action is a case about the end of the queue.

**KiteCalls**, for any number of calls over the lossy network.

- `CallTypes` (`TypeOK`), together with `SessionKeys`.
- `PlacedAtMostOnce` (`AtMostOnce`) and `OutcomeIsTrue` (`OutcomeTells`). Neither is
  inductive, because a request may outlive its call. `Accounts` adds that a request in the
  network has not been carried out, and that an answer belongs to the call in progress,
  whose request is gone, and says what the server did.
- `CallsAreTold`: each step is one of CallPromise or a stutter, from `Accounts` before and after it.
- `LogoutIsFinal` (`LoggedOut`). `Logins` adds that a token belongs to one session, and
  that a token the server has revoked is in none and is never given out again.

**TickParser**, for messages of any length.

- `PacketsAreCutAtTheSeams` (`CutsAtTheSeams`) from `Seams`: the cursor stands where
  the packets before it end. `EveryByteIsReadOnce` (`EveryByteOnce`) and `ModesAreTold`
  (`TicksTellTheMode`) from `Seams` and `TicksRead`, which says of each tick
  parsed so far which bytes of its packet each field is.

**Decode**, for lists of any length.

- `ValuesSurvive` (each value as sent and in its place in the list), `AbsenceIsForgiven`, `TokensAndVolumesAreHeld`
  and `RelativesAlwaysAgree`, one for each property of the run. All rest on `Decoding`:
  what is decoded so far agrees with the answer, an error has an odd value as its cause. The
  tables of members are gone through once, in lemmas about every field there is; where an odd value
  can stand is defined by recursion on the nesting.

**Endpoints**, for any arguments, lists of any length and any number of decimals.

- `PathsAreExpanded`, `EveryArgumentIsSent`, `MethodsAreTold`, `BodiesAlwaysAgree`,
  `ParametersAllReach` and `NamesAlwaysAgree`, one for each property of the run. They rest
  on `Calling` (what has left is the request of the call) and on lemmas about the
  table, about what each form and JSON body holds, and about symbol lists: the
  encoded text of no symbol begins another's, so the query tells the list.

Two techniques recur. Handlers are concatenations of literal sequences, so the proofs
about Connection rest on lemmas about the points in `s \o Tail(stack)` (`ReplaceHead`,
`Tuples`, `Occurrences`). Where an argument is an induction, it is about a set of numbers,
which has a least element (`LeastNumber`, `FromTo` in Induction), because the provers cannot take a
predicate as a parameter; a function defined by recursion is first shown to equal one turn of it.

Only model-checked: liveness, which TLAPS does not prove (`LossIsAnswered`,
`ServerCatchesUp`, and the fairness parts of the two `KeepsPromise`: that a retry is made,
an attempt ends and a call ends). The violations of Findings are counterexamples and need no proof.

## Plan and what is not modelled

Done in this order: Connection with AutoReconnect and its proofs, Subscriptions,
Endpoints, KiteCalls, TickParser, Decode, Messages and the composition in Ticker,
Parameters and Symbols, the proofs above, CallPromise. Left: an abstract specification of
the subscriptions as one set that client and server come to agree on, which the ticker refines.

Limits of what is modelled. A path is its text and fields: that a string argument which
the code puts in unencoded, an exchange or an order id, could hold a separator is not
seen by `EveryArgumentCounts`. `MethodsAreDistinct` compares the texts of the table, not the
expanded paths. `NamesAgree` compares bodies with one another and cannot tell a
name that is misspelt in all of them or in its only one. `RelativesAgree` leaves trades out of
the family of orders, because `trade` reads `quantity` as a double and `order` as an int.

Not modelled: third-party code under `deps` (only the behaviour the library relies
on); calls from other threads than the one in `run()`, which are data races on
everything but `isReconnecting` and about which nothing is promised; floating-point
arithmetic; the wording of messages; tests and examples.
