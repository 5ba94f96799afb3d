-------------------------------- MODULE Http --------------------------------
(* The HTTP client of lib/http over either protocol: dialConn leaves a     *)
(* connection that negotiated "h2" to the HTTP/2 client (TLSNextProto) and *)
(* keeps any other for the HTTP/1 transport.  The two share no state.      *)
EXTENDS HttpTransport, Http2Client

CONSTANT Cases  \* the protocol a server negotiates, with a Setting and a Play

ASSUME CasesAssumption == \A c \in Cases : c[1] \in {"http/1.1", "h2"} /\ c[2] \in Settings /\ c[3] \in Plays

VARIABLE negotiated

httpVars == <<negotiated, h, caller, conn, pool, reqCanceler, seen, hung,
              play, rt, cc, cs, sv, wire, acted>>

Init == H1Init /\ H2Init /\ negotiated \in {"http/1.1", "h2"} /\ <<negotiated, h, play>> \in Cases

Http1Client == negotiated = "http/1.1" /\ H1Client /\ UNCHANGED <<negotiated, h2Vars>>
Http1Surroundings == negotiated = "http/1.1" /\ Surroundings /\ UNCHANGED <<negotiated, h2Vars>>
Http2Duty == negotiated = "h2" /\ (H2Client \/ H2Duty) /\ UNCHANGED <<negotiated, h1Vars>>
Http2Whims == negotiated = "h2" /\ H2Whims /\ UNCHANGED <<negotiated, h1Vars>>
HandsOver(k) == negotiated = "h2" /\ addConnLocked(k) /\ UNCHANGED <<negotiated, h1Vars>>

Next == Http1Client \/ Http1Surroundings \/ Http2Duty \/ Http2Whims

Spec == Init /\ [][Next]_httpVars

(* Every goroutine of the client runs when it can, and an HTTP/2 server    *)
(* answers its requests; an HTTP/1 server owes nothing.  A dialling        *)
(* goroutine of the HTTP/2 pool is not starved by a RoundTrip that retries *)
(* with the connection it has not yet handed over.                         *)
FairSpec ==
    /\ Spec
    /\ WF_httpVars(Http1Client) /\ WF_httpVars(Http2Duty)
    /\ \A k \in Conns2 : WF_httpVars(HandsOver(k))

-----------------------------------------------------------------------------
(* Every answer belongs to its question: a caller is given the response    *)
(* and body the server sent for its own request, and "canceled" only when  *)
(* somebody cancelled (with the exception of Honest).                      *)
AnswersBelong == H1TypeOK /\ OwnAnswers /\ Honest

(* No request that must not be repeated is: RoundTrip's retries            *)
(* (shouldRetryRequest) reach a server twice over neither protocol.        *)
NothingTwice == SentOnce /\ OnceEach

(* The pool of idle connections: no connection has two users, the lists    *)
(* agree and keep their limits, and an open connection nobody uses is in   *)
(* them (tryPutIdleConn, getIdleConn, removeIdleConn).                     *)
PoolKept == PoolSound /\ OneUser /\ NoLeak

(* HTTP/2 flow control: both ends agree on every window whatever settings, *)
(* updates and data cross, but for the client's receive window of the      *)
(* connection, which may be the larger one after a cancellation            *)
(* (processData, h2_bundle.go:6967-6976).  A well-behaved server never     *)
(* fails the connection, and the read loop never blocks on a response      *)
(* nobody receives.                                                        *)
FlowKept == H2TypeOK /\ Flow /\ NoFault /\ NeverBlocks

(* Every call returns: a Do with a Timeout whatever the server does (with  *)
(* the exception of Orphaned), and a RoundTrip over HTTP/2 whatever frames *)
(* cross, as long as the server answers.                                   *)
CallsReturn == <>[](H1Done /\ (negotiated = "h2" => H2Done))
=============================================================================
