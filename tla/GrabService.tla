---------------------------- MODULE GrabService -----------------------------
(***************************************************************************)
(* What a run of zgrab2 promises, with no queue, sender or monitor in      *)
(* sight: every grab (a target and a connection number) is delivered to    *)
(* the output once, in some order; the run ends normally only when all of  *)
(* them have been, and may be aborted at any time.                         *)
(***************************************************************************)
EXTENDS Naturals

CONSTANT Grabs

VARIABLES delivered, phase

svars == <<delivered, phase>>

Init == delivered = [g \in Grabs |-> 0] /\ phase = "running"

Deliver(g) ==
    /\ phase = "running"
    /\ delivered[g] = 0
    /\ delivered' = [delivered EXCEPT ![g] = 1]
    /\ UNCHANGED phase

Finish ==
    /\ phase = "running"
    /\ \A g \in Grabs : delivered[g] = 1
    /\ phase' = "finished"
    /\ UNCHANGED delivered

Abort ==
    /\ phase = "running"
    /\ phase' \in {"fatal", "panicked"}
    /\ UNCHANGED delivered

Next == Finish \/ Abort \/ \E g \in Grabs : Deliver(g)

Spec == Init /\ [][Next]_svars
=============================================================================
