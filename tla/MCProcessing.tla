---------------------------- MODULE MCProcessing ----------------------------
(* Finite instances of Processing: small inputs, tags and scanner lists.   *)
EXTENDS Processing

\* targets and scanners all of one tag
SameTag == [j \in 1..NTargets |-> "x"]
AllTriggered == [s \in 1..NScanners |-> "x"]

\* the targets after the first and the second scanner have another tag
MixedTag == [j \in 1..NTargets |-> IF j = 1 THEN "x" ELSE "y"]
MixedTrigger == [s \in 1..NScanners |-> IF s = 2 THEN "y" ELSE "x"]
=============================================================================
