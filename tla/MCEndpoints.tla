---------------------------- MODULE MCEndpoints ----------------------------
(***************************************************************************)
(* A small instance of Endpoints for TLC: symbols that could be taken for  *)
(* one another in a query, and one without an exchange.                    *)
(***************************************************************************)
EXTENDS Endpoints

FewSymbols ==
  {<<"N", ":", "A">>,
   <<"N", ":", "A", ":", "A">>,
   <<"N", ":", "A", "&", "i", "=", "N", ":", "A">>,
   <<"N", "A">>}

=============================================================================
