----------------------------- MODULE MCRagCache -----------------------------
(* Finite instances of RagCache: one or two servers, a few versions.       *)
EXTENDS RagCache
=============================================================================
