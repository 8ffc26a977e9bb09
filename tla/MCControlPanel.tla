---------------------------- MODULE MCControlPanel ----------------------------
(* A small instance of ControlPanel. *)
EXTENDS ControlPanel, TLC

CONSTANTS s1, s2

StrategyList == <<s1, s2>>
==============================================================================
