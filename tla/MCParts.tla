------------------------------ MODULE MCParts ------------------------------
(***************************************************************************)
(* Constants for TLC: what each of the parts is checked with.              *)
(***************************************************************************)
EXTENDS Parts, MCSampleWeights, MCRecipeStore

MCMarkets == <<"BTC/USD">>
MCSpan == ("15m" :> 1 @@ "1h" :> 2)

Bar(low, close, high, volume) == [low |-> low, close |-> close, high |-> high, volume |-> volume]
\* Quiet and busy candles at three prices, with and without a tail.
MCMarket == {Bar(1, 1, 2, 1), Bar(1, 1, 1, 2), Bar(1, 2, 2, 1), Bar(1, 2, 2, 2),
             Bar(3, 3, 4, 1), Bar(3, 4, 4, 2)}

\* Every regime of the decay: below -1, at -1, truncating, linear and none.
MCDecay == {-6, -4, -3, -1, 0, 2, 4}

=============================================================================
