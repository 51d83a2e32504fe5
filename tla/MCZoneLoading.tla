---------------------------- MODULE MCZoneLoading ----------------------------
(* Instances of ZoneLoading for TLC                                         *)
EXTENDS ZoneLoading

CONSTANTS z1, z2, z3

(* Two views that load, one of them with two zones                          *)
TwoViews == <<{z1, z2}, {z3}>>

(* The same, and an empty zone table behind them                            *)
EmptyView == <<{z1, z2}, {z3}, {}>>
=============================================================================
