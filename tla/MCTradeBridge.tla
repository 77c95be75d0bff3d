---------------------------- MODULE MCTradeBridge ----------------------------
(***************************************************************************)
(* TradeBridge for TLC: a market with two verdicts on each candle; where   *)
(* bridges crowd, one verdict is published.  Where refusals are looked at, *)
(* launches do not overlap.                                                *)
(***************************************************************************)
EXTENDS TradeBridge

MCCandleOf == [v \in Verdict |-> (v + 1) \div 2]

CrowdsIdle == crowded => newest <= 1

LaunchesApart == \A b, c \in Starting : b = c
=============================================================================
