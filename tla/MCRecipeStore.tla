--------------------------- MODULE MCRecipeStore ---------------------------
(* Constants for TLC: two spellings of one symbol.                         *)
EXTENDS RecipeStore, TLC

MCSymbols == ("BTC/USD" :> "BTC_USD" @@ "btc/usd" :> "BTC_USD")

=============================================================================
