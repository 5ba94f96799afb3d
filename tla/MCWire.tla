------------------------------- MODULE MCWire -------------------------------
(* Every message format, with the bounds the formats themselves name.      *)
EXTENDS Codecs
=============================================================================
