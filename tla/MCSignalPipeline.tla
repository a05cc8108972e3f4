-------------------------- MODULE MCSignalPipeline --------------------------
(* An instance of SignalPipeline for TLC: the two symbols of kraken.py:22, *)
(* one entry price, and stops at distances that give each verdict.         *)
EXTENDS SignalPipeline

MCSymbols == <<"BTC/USD", "ETH/USD">>
MCPnLs == {0, -499, -500}

=============================================================================
