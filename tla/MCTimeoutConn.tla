--------------------------- MODULE MCTimeoutConn ----------------------------
(* Finite instances of TimeoutConn: a few ticks and a few bytes.           *)
EXTENDS TimeoutConn

(* The clock runs past the end of the longest session by the longest       *)
(* operation: no deadline of the connection's own lies beyond the bound.   *)
Longest == {DefaultSessionTimeout} \cup Timeouts \cup OpTimeouts
ASSUME ClockIsLongEnough == \A s, t \in Longest : s + t <= MaxClock
=============================================================================
