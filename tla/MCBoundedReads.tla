--------------------------- MODULE MCBoundedReads ---------------------------
(* A finite instance of BoundedReads: a few ticks and a few bytes.         *)
EXTENDS BoundedReads

ReadSetter == {"SetReadDeadline"}

(* The clock runs past the end of the longest session by the longest       *)
(* operation: no deadline of the connection's own lies beyond the bound.   *)
Longest == {DefaultSessionTimeout} \cup Timeouts \cup OpTimeouts
ASSUME ClockIsLongEnough == \A s, t \in Longest : s + t <= MaxClock
=============================================================================
