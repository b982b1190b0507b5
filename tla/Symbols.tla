------------------------------ MODULE Symbols ------------------------------
(***************************************************************************)
(* The query of the quote methods, made of the symbols the program passes. *)
(* A symbol is a sequence of characters, as it is characters that matter:  *)
(* the first ':' ends the exchange, and '&' separates the symbols of a     *)
(* query although it may occur in one.                                     *)
(***************************************************************************)
EXTENDS Naturals, Sequences, SequencesExt

Has(symbol) == \E i \in DOMAIN symbol : symbol[i] = ":"
colonPos(symbol) ==
  CHOOSE i \in DOMAIN symbol :
     symbol[i] = ":" /\ \A j \in 1..(i - 1) : symbol[j] # ":"

Exchange(symbol) == SubSeq(symbol, 1, colonPos(symbol) - 1)
TickerName(symbol) == SubSeq(symbol, colonPos(symbol) + 1, Len(symbol))

\* Percent-encoding of the characters that mean something in a query.
encodeUrl(chars) ==
  [i \in DOMAIN chars |-> CASE chars[i] = "&" -> "%26"
                            [] chars[i] = ":" -> "%3A"
                            [] chars[i] = "=" -> "%3D"
                            [] OTHER          -> chars[i]]

\* What it makes of them, which are no characters of a symbol.
Escapes == {"%26", "%3A", "%3D"}

\* Mutation: the ticker is not encoded.
EncodedRaw(symbol) ==
  <<"i", "=">> \o Exchange(symbol) \o <<":">> \o TickerName(symbol) \o <<"&">>

\* One turn of the loop.
Encoded(symbol) ==
  <<"i", "=">> \o Exchange(symbol) \o <<":">>
     \o encodeUrl(TickerName(symbol)) \o <<"&">>

\* The loop throws at a symbol without an exchange.
IsValid(symbols) == \A i \in DOMAIN symbols : Has(symbols[i])

encodeSymbolsList(symbols) ==
  LET list == FlattenSeq([i \in DOMAIN symbols |-> Encoded(symbols[i])])
  IN  IF list = <<>> THEN list ELSE Front(list)

=============================================================================
