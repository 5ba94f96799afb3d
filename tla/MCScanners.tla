----------------------------- MODULE MCScanners -----------------------------
(* All scanner modules against every peer.                                 *)
EXTENDS Scanners
=============================================================================
