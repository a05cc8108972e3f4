---------------------------- MODULE MCDollarBars ----------------------------
(* Instances of DollarBars for TLC. Every cfg has a price that fills a bar *)
(* on its own and one that takes three trades to fill it, and pages of two *)
(* trades, so that bars end inside pages and pages inside bars.            *)
EXTENDS DollarBars

MCPrices == {1, 3}
MCThreshold == 3
MCPageSize == 2

=============================================================================
