--------------------------- MODULE MCDataExchange ---------------------------
(***************************************************************************)
(* Finite instances of DataExchange for TLC.                               *)
(***************************************************************************)
EXTENDS DataExchange, TLC

CONSTANTS x1, x2, c1, c2

OneExchange == {x1}
TwoExchanges == {x1, x2}
TwoConnectors == {c1, c2}

\* c1 is the consumer of x1; where there is an x2, it is the provider of that.
OppositeRoles ==
    [x \in Exchanges |->
        IF x = x1 THEN [consumer |-> c1, provider |-> c2]
                  ELSE [consumer |-> c2, provider |-> c1]]

\* The exchanges are interchangeable: no action and no property names one, and
\* no variable holds a connector, so that to exchange x1 and x2 is to exchange
\* the names of c1 and c2.
ExchangeSymmetry == Permutations(Exchanges)
=============================================================================
