------------------------------ MODULE MCFasst -------------------------------
(* A finite instance of Fasst: few rounds, tool calls and runs.            *)
EXTENDS Fasst
=============================================================================
