---------------------------- MODULE Http2Client -----------------------------
(* The HTTP/2 client of lib/http (h2_bundle.go): RoundTrip over a pool of  *)
(* ClientConns, each with its read loop, its streams, their body writers   *)
(* and flow control.  wire[k] is what the server of connection k has sent  *)
(* and the client has not read.  The server handles what the client sends  *)
(* at once: what it does late is on the wire.  The n-th stream of a        *)
(* connection (id 2n - 1) is n; window and body sizes are in small units.  *)
EXTENDS Integers, Sequences, FiniteSets, SequencesExt

CONSTANTS
    Requests,       \* the callers of RoundTrip
    Conns2,         \* the connections that can be dialled
    Streams,        \* 1..the streams of a connection
    InitialWindow,  \* http2initialWindowSize
    StreamFlow,     \* http2transportDefaultStreamFlow
    ConnFlow,       \* http2transportDefaultConnFlow
    MinRefresh,     \* http2transportDefaultStreamMinRefresh
    MaxWindow,      \* math.MaxInt32
    Plays           \* what requests there are and what the server does (see Play)

(* A play: the size of each request's body and response, which requests    *)
(* have GetBody, are cancelled, or have their response closed unread; the  *)
(* server's MAX_CONCURRENT_STREAMS and the INITIAL_WINDOW_SIZEs it sends,  *)
(* one after the other; the response's status; whether it pads DATA and    *)
(* sends trailers; and what else may happen.                               *)
Play ==
    [up: [Requests -> Nat], down: [Requests -> Nat], getBody: BOOLEAN, cancelled: SUBSET Requests,
     closed: SUBSET Requests, max: Nat, windows: Seq(Nat), status: SUBSET {"100", "ok", "refused", "bad"},
     frills: BOOLEAN, events: SUBSET {"goaway", "rst", "garble", "hangup", "ping", "idle", "unreachable"}]

ASSUME PlaysAssumption == Plays \subseteq Play /\ Streams \subseteq Nat /\ Conns2 \subseteq Nat \ {0}

VARIABLES
    play,
    rt,     \* each request's RoundTrip and the reading of its response
    cc,     \* each http2ClientConn, and its entry in the pool
    cs,     \* each http2clientStream with its body writer and its pipe
    sv,     \* each connection's server
    wire,   \* the frames on their way to each client
    acted   \* the requests a server has acted on, with connection and stream

h2Vars == <<play, rt, cc, cs, sv, wire, acted>>

Nothing == 0
Blank == "blank"    \* no error, or a part a frame does not have
RtInit == [pc |-> "get", conn |-> Nothing, id |-> Nothing, cancel |-> FALSE, written |-> FALSE,
           res |-> Blank, err |-> Blank]
CcInit == [dial |-> "no", pooled |-> FALSE, closed |-> FALSE, goAway |-> -1,
           next |-> 1, max |-> 9, init |-> InitialWindow, flow |-> InitialWindow,
           inflow |-> ConnFlow + InitialWindow, wantAck |-> TRUE,
           streams |-> {}, tconn |-> "open", read |-> TRUE, fault |-> Blank]
CsInit == [req |-> Nothing, flow |-> 0, inflow |-> 0, buf |-> 0, pipe |-> FALSE, err |-> Blank, brk |-> FALSE,
           resc |-> <<>>, done |-> FALSE, peerReset |-> FALSE, didReset |-> FALSE, stop |-> Blank,
           left |-> 0, w |-> "none", wres |-> Blank, past |-> FALSE]
SvInit == [windows |-> 0, init |-> InitialWindow, send |-> ConnFlow + InitialWindow,
           recv |-> InitialWindow, last |-> -1, pinged |-> FALSE,
           stream |-> [n \in Streams |-> [st |-> "none", head |-> FALSE, early |-> FALSE, down |-> 0, send |-> 0,
                                          recv |-> 0, got |-> 0]]]

H2Init ==
    /\ play \in Plays
    /\ rt = [q \in Requests |-> RtInit]
    /\ cc = [k \in Conns2 |-> CcInit]
    /\ cs = [k \in Conns2 |-> [n \in Streams |-> CsInit]]
    /\ sv = [k \in Conns2 |-> SvInit]
    /\ wire = [k \in Conns2 |-> <<>>]
    /\ acted = {}

-----------------------------------------------------------------------------
(* http2flow.  A stream's window is limited by its connection's.           *)

Least(a, b) == IF a < b THEN a ELSE b
CanAdd(n, inc) == inc <= MaxWindow - n
outAvailable(k, n) == Least(cs[k][n].flow, cc[k].flow)
inAvailable(k, n) == Least(cs[k][n].inflow, cc[k].inflow)

-----------------------------------------------------------------------------
(* What the server learns of at once.                                      *)

Gone(k) == cc[k].tconn # "open"
ServerOpens(S, k, n, q) ==
    IF Gone(k) THEN S
    ELSE [S EXCEPT ![k].stream[n] = [@ EXCEPT !.st = "open", !.down = play.down[q],
                       !.send = StreamFlow, !.recv = S[k].init]]
ServerResets(S, k, n) == [S EXCEPT ![k].stream[n].st = IF @ = "open" THEN "closed" ELSE @]
ServerGains(S, k, n, inc) ==
    IF n = 0 THEN [S EXCEPT ![k].send = @ + inc] ELSE [S EXCEPT ![k].stream[n].send = @ + inc]
ServerTakes(S, k, n, len) ==
    [S EXCEPT ![k].recv = @ - len, ![k].stream[n].recv = @ - len, ![k].stream[n].got = @ + len]

-----------------------------------------------------------------------------
(* The pool, and RoundTripOpt's loop.                                      *)

canTakeNewRequestLocked(k) ==
    /\ cc[k].goAway = -1 /\ ~cc[k].closed
    /\ Cardinality(cc[k].streams) + 1 < cc[k].max
    /\ cc[k].next \in Streams

getClientConn(q) ==
    LET ready == {k \in Conns2 : cc[k].pooled /\ canTakeNewRequestLocked(k)}
        dialing == {k \in Conns2 : cc[k].dial \in {"dialing", "dialled"}}
        fresh == {k \in Conns2 : cc[k].dial = "no"}
    IN
    /\ rt[q].pc = "get"
    /\ \/ /\ ready # {}
          /\ \E k \in ready : (\A j \in ready : k <= j)
                /\ rt' = [rt EXCEPT ![q].pc = "start", ![q].conn = k]
          /\ UNCHANGED cc
       \/ /\ ready = {}
          /\ \E k \in (IF dialing # {} THEN dialing ELSE fresh) :
                /\ dialing = {} => \A j \in fresh : k <= j
                /\ rt' = [rt EXCEPT ![q].pc = "dial", ![q].conn = k]
                /\ cc' = IF dialing # {} THEN cc ELSE [cc EXCEPT ![k].dial = "dialing"]
    /\ UNCHANGED <<play, cs, sv, wire, acted>>

(* dialCall.dial: those who wait are let go before the connection is put   *)
(* into the pool.                                                          *)
dial(k) ==
    /\ cc[k].dial = "dialing"
    /\ \E d \in {"dialled"} \cup (IF "unreachable" \in play.events THEN {"failed"} ELSE {}) :
        cc' = [cc EXCEPT ![k].dial = d]
    /\ UNCHANGED <<play, rt, cs, sv, wire, acted>>

addConnLocked(k) ==
    /\ cc[k].dial = "dialled"
    /\ cc' = [cc EXCEPT ![k].dial = "pooled", ![k].pooled = TRUE]
    /\ UNCHANGED <<play, rt, cs, sv, wire, acted>>

Failed(R, q, err) == [R EXCEPT ![q].pc = "done", ![q].err = err]

DialReturns(q) ==
    LET k == rt[q].conn IN
    /\ rt[q].pc = "dial" /\ cc[k].dial # "dialing"
    /\ rt' = IF cc[k].dial = "failed" THEN Failed(rt, q, "dial") ELSE [rt EXCEPT ![q].pc = "start"]
    /\ UNCHANGED <<play, cc, cs, sv, wire, acted>>

(* RoundTrip's end with an error, and http2shouldRetryRequest.             *)
Retried(R, q) == [R EXCEPT ![q] = [RtInit EXCEPT !.cancel = R[q].cancel]]
(* A mutant: a request is sent again whatever it failed with.              *)
RetryAnything(q, err) == rt' = Retried(rt, q)

RoundTripFails(q, err) ==
    rt' = IF \/ err \in {"unusable", "goaway"}
             \/ err = "goaway after body" /\ (play.up[q] = 0 \/ play.getBody)
          THEN Retried(rt, q) ELSE Failed(rt, q, err)

-----------------------------------------------------------------------------
(* http2ClientConn.RoundTrip.                                              *)

Forget(C, S, k, n) ==
    IF n \in C[k].streams /\ ~C[k].closed
    THEN [cc |-> [C EXCEPT ![k].streams = @ \ {n}], cs |-> [S EXCEPT ![k][n].done = TRUE]]
    ELSE [cc |-> C, cs |-> S]

newStream(k, n, q) ==
    [CsInit EXCEPT !.req = q, !.flow = cc[k].init, !.inflow = StreamFlow, !.left = play.up[q],
                   !.w = IF play.up[q] > 0 THEN "ready" ELSE "none"]

RoundTrip(q) ==
    LET k == rt[q].conn  n == cc[k].next IN
    /\ rt[q].pc = "start"
    /\ \/ /\ ~canTakeNewRequestLocked(k)
          /\ RoundTripFails(q, "unusable")
          /\ UNCHANGED <<cc, cs, sv>>
       \/ /\ canTakeNewRequestLocked(k)
          /\ cc' = [cc EXCEPT ![k].next = @ + 1, ![k].streams = @ \cup {n}]
          /\ cs' = [cs EXCEPT ![k][n] = newStream(k, n, q)]
          /\ sv' = ServerOpens(sv, k, n, q)
          /\ rt' = [rt EXCEPT ![q].pc = "wait", ![q].id = n]
       \/ /\ canTakeNewRequestLocked(k) /\ Gone(k)        \* writeHeaders fails
          /\ cc' = [cc EXCEPT ![k].next = @ + 1]
          /\ RoundTripFails(q, "write")
          /\ UNCHANGED <<cs, sv>>
    /\ UNCHANGED <<play, wire, acted>>

(* handleReadLoopResponse.                                                 *)
Result(q) ==
    LET k == rt[q].conn  n == rt[q].id  re == Head(cs[k][n].resc)
        answers == {"body", "no body", "refused", "refused no body"}
        stops == re \notin {"body", "no body"}
        S == [cs EXCEPT ![k][n].resc = <<>>, ![k][n].stop = IF stops THEN "stop" ELSE @]
        err == IF re = "goaway" /\ cs[k][n].w \notin {"none", "ready"} THEN "goaway after body" ELSE re
    IN
    /\ rt[q].pc = "wait" /\ cs[k][n].resc # <<>>
    /\ \/ /\ re \in answers
          /\ rt' = [rt EXCEPT ![q].pc = IF re \in {"body", "refused"} THEN "body" ELSE "done",
                              ![q].res = re]
          /\ cs' = S
          /\ UNCHANGED cc
       \/ /\ re \notin answers
          /\ RoundTripFails(q, err)
          /\ LET f == Forget(cc, S, k, n) IN cc' = f.cc /\ cs' = f.cs
    /\ UNCHANGED <<play, sv, wire, acted>>

Canceled(q) ==
    LET k == rt[q].conn  n == rt[q].id
        now == play.up[q] = 0 \/ rt[q].written
        f == Forget(cc, IF now THEN cs ELSE [cs EXCEPT ![k][n].stop = "stop and cancel"], k, n)
    IN
    /\ rt[q].pc = "wait" /\ rt[q].cancel
    /\ cc' = f.cc /\ cs' = f.cs
    /\ sv' = IF now THEN ServerResets(sv, k, n) ELSE sv
    /\ rt' = Failed(rt, q, "canceled")
    /\ UNCHANGED <<play, wire, acted>>

PeerReset(q) ==
    /\ rt[q].pc = "wait" /\ cs[rt[q].conn][rt[q].id].peerReset
    /\ rt' = Failed(rt, q, "reset")
    /\ UNCHANGED <<play, cc, cs, sv, wire, acted>>

BodyWritten(q) ==
    LET s == cs[rt[q].conn][rt[q].id] IN
    /\ rt[q].pc = "wait" /\ s.wres # Blank /\ ~rt[q].written /\ s.resc = <<>>
    /\ rt' = IF s.wres = "nil" THEN [rt EXCEPT ![q].written = TRUE] ELSE Failed(rt, q, s.wres)
    /\ UNCHANGED <<play, cc, cs, sv, wire, acted>>

-----------------------------------------------------------------------------
(* The body writer: writeRequestBody with awaitFlowControl.                *)

StartsBody(k, n) ==
    /\ cs[k][n].w = "ready"
    /\ cs' = [cs EXCEPT ![k][n].w = "writing"]
    /\ UNCHANGED <<play, rt, cc, sv, wire, acted>>

WriteRefused(k, n) ==
    IF cc[k].closed THEN "conn closed"
    ELSE IF cs[k][n].stop # Blank THEN cs[k][n].stop
    ELSE IF cs[k][n].peerReset THEN "reset"
    ELSE IF cs[k][n].done THEN "stream closed" ELSE Blank

writeRequestBody(k, n) ==
    LET s == cs[k][n]  refused == WriteRefused(k, n)
        take == Least(outAvailable(k, n), s.left)
        Ends(e) == [cs EXCEPT ![k][n].w = "done", ![k][n].wres = e]
    IN
    /\ s.w = "writing"
    /\ \/ /\ s.left > 0 /\ refused # Blank
          /\ cs' = Ends(refused)
          /\ sv' = IF refused = "stop and cancel" THEN ServerResets(sv, k, n) ELSE sv
          /\ UNCHANGED cc
       \/ /\ s.left > 0 /\ refused = Blank /\ take > 0
          /\ cs' = [cs EXCEPT ![k][n].flow = @ - take, ![k][n].left = @ - take]
          /\ cc' = [cc EXCEPT ![k].flow = @ - take]
          /\ sv' = IF Gone(k) THEN sv ELSE ServerTakes(sv, k, n, take)
       \/ /\ s.left = 0 /\ cc[k].tconn # "closed"
          /\ cs' = Ends("nil")
          /\ UNCHANGED <<cc, sv>>
       \/ /\ Gone(k) /\ (s.left = 0 \/ (refused = Blank /\ take > 0))
          /\ cs' = Ends("write")
          /\ UNCHANGED <<cc, sv>>
    /\ UNCHANGED <<play, rt, wire, acted>>

-----------------------------------------------------------------------------
(* Reading a response's body, closing it, and its cancellation.            *)

(* transportResponseBody.Read: what is buffered, and the windows given     *)
(* back once they are low; or the pipe's error.                            *)
ReadResponse(q) ==
    LET k == rt[q].conn  n == rt[q].id  s == cs[k][n]
        connAdd == IF cc[k].inflow < ConnFlow \div 2 THEN ConnFlow - cc[k].inflow ELSE 0
        v == Least(s.inflow, cc[k].inflow + connAdd)
        streamAdd == IF v < StreamFlow - MinRefresh THEN StreamFlow - v ELSE 0
    IN
    /\ rt[q].pc = "body" /\ q \notin play.closed
    /\ \/ /\ s.buf > 0
          /\ cs' = [cs EXCEPT ![k][n].buf = 0, ![k][n].inflow = @ + streamAdd]
          /\ cc' = [cc EXCEPT ![k].inflow = @ + connAdd]
          /\ sv' = ServerGains(ServerGains(sv, k, 0, connAdd), k, n, streamAdd)
          /\ UNCHANGED rt
       \/ /\ s.buf = 0 /\ s.err # Blank
          /\ rt' = [rt EXCEPT ![q].pc = "done", ![q].err = IF s.err = "EOF" THEN @ ELSE s.err]
          /\ UNCHANGED <<cc, cs, sv>>
    /\ UNCHANGED <<play, wire, acted>>

CloseResponse(q) ==
    LET k == rt[q].conn  n == rt[q].id  s == cs[k][n] IN
    /\ rt[q].pc = "body" /\ (q \in play.closed \/ rt[q].cancel)
    /\ cc' = [cc EXCEPT ![k].inflow = @ + s.buf]
    /\ sv' = ServerGains(IF s.err = "EOF" THEN sv ELSE ServerResets(sv, k, n), k, 0, s.buf)
    /\ cs' = [cs EXCEPT ![k][n].brk = TRUE]
    /\ rt' = [rt EXCEPT ![q].pc = "done"]
    /\ UNCHANGED <<play, wire, acted>>

awaitRequestCancel(q) ==
    LET k == rt[q].conn  n == rt[q].id IN
    /\ rt[q].cancel /\ n # Nothing /\ cs[k][n].pipe /\ ~cs[k][n].done /\ ~cs[k][n].didReset
    /\ cs' = [cs EXCEPT ![k][n].didReset = TRUE, ![k][n].err = IF @ = Blank THEN "canceled" ELSE @]
    /\ sv' = ServerResets(sv, k, n)
    /\ UNCHANGED <<play, rt, cc, wire, acted>>

CancelFires(q) ==
    /\ q \in play.cancelled /\ ~rt[q].cancel /\ rt[q].pc # "done"
    /\ rt' = [rt EXCEPT ![q].cancel = TRUE]
    /\ UNCHANGED <<play, cc, cs, sv, wire, acted>>

-----------------------------------------------------------------------------
(* The read loop.  A handler's result is the connection and its streams    *)
(* after the frame, and what the server learns; err ends the loop.         *)

Handled(C, S, V, e) == [cc |-> C, cs |-> S, sv |-> V, err |-> e]
Offer(S, k, n, re) == [S EXCEPT ![k][n].resc = IF @ = <<>> THEN <<re>> ELSE @]
EndPipe(S, k, n, e) == [S EXCEPT ![k][n].err = IF @ = Blank THEN e ELSE @]
endStreamError(S, k, n, e) == Offer(EndPipe(S, k, n, e), k, n, e)

handleResponse(S, k, f) ==
    IF f.v = "bad" THEN [S EXCEPT ![k][f.n].resc = <<"bad response">>]
    ELSE [S EXCEPT ![k][f.n].pipe = ~f.end,
                   ![k][f.n].resc = <<IF f.end THEN IF f.v = "ok" THEN "no body" ELSE "refused no body"
                                      ELSE IF f.v = "ok" THEN "body" ELSE "refused">>]

processHeaders(k, f) ==
    LET known == f.n \in cc[k].streams
        b == IF f.end THEN Forget(cc, cs, k, f.n) ELSE [cc |-> cc, cs |-> cs]
        S == [b.cs EXCEPT ![k][f.n].past = TRUE]
    IN  IF ~known THEN Handled(cc, cs, sv, Blank)
        ELSE IF ~cs[k][f.n].past /\ f.v = "100" THEN Handled(cc, cs, sv, Blank)
        ELSE IF cs[k][f.n].past                                       \* processTrailers
             THEN IF f.end THEN Handled(b.cc, endStreamError(S, k, f.n, "EOF"), sv, Blank)
                  ELSE Handled(b.cc, S, sv, "protocol")
        ELSE Handled(b.cc, handleResponse(S, k, f),
                     IF f.v = "bad" THEN ServerResets(sv, k, f.n) ELSE sv, Blank)

processData(k, f) ==
    LET n == f.n  len == f.len + f.pad  s == cs[k][n]
        b == IF f.end THEN Forget(cc, cs, k, n) ELSE [cc |-> cc, cs |-> cs]
        C == [b.cc EXCEPT ![k].inflow = @ - f.len]
        S == [b.cs EXCEPT ![k][n].inflow = @ - f.len, ![k][n].buf = @ + (IF s.didReset THEN 0 ELSE f.len)]
        V == ServerGains(ServerGains(sv, k, 0, f.pad), k, n, f.pad)
    IN  IF n \notin cc[k].streams
        THEN IF n >= cc[k].next THEN Handled(cc, cs, sv, "protocol")
             ELSE Handled([cc EXCEPT ![k].inflow = @ + len], cs, ServerGains(sv, k, 0, len), Blank)
        ELSE IF f.len > 0 /\ ~s.pipe THEN Handled(b.cc, b.cs, sv, "protocol")
        ELSE IF inAvailable(k, n) < len THEN Handled(b.cc, b.cs, sv, "flow control")
        ELSE IF f.len > 0 /\ ~s.didReset /\ s.err # Blank
             THEN Handled(C, endStreamError(S, k, n, "closed pipe"), V, "closed pipe")
        ELSE Handled(C, IF f.end THEN endStreamError(S, k, n, "EOF") ELSE S, V, Blank)

MarkDead(C, k) == [C EXCEPT ![k].pooled = FALSE]

(* A mutant: the streams the server will not serve are not told.           *)
GoAwayUntold(k, f) == Handled([MarkDead(cc, k) EXCEPT ![k].goAway = f.n], cs, sv, Blank)

setGoAway(k, f) ==
    Handled([MarkDead(cc, k) EXCEPT ![k].goAway = f.n],
            [cs EXCEPT ![k] = [n \in Streams |-> IF n \in cc[k].streams /\ n > f.n
                                                 THEN Offer(cs, k, n, "goaway")[k][n] ELSE @[n]]],
            sv, Blank)

processResetStream(k, f) ==
    LET b == Forget(cc, cs, k, f.n) IN
    IF f.n \notin cc[k].streams THEN Handled(cc, cs, sv, Blank)
    ELSE Handled(b.cc, EndPipe([b.cs EXCEPT ![k][f.n].peerReset = TRUE], k, f.n, "reset"), sv, Blank)

(* A frame the framer refuses with a StreamError.                          *)
streamError(k, f) ==
    LET b == Forget(cc, cs, k, f.n) IN
    IF f.n \notin cc[k].streams THEN Handled(cc, cs, sv, Blank)
    ELSE Handled(b.cc, endStreamError(b.cs, k, f.n, "stream error"), ServerResets(sv, k, f.n), Blank)

processSettings(k, f) ==
    IF f.t = "ack" THEN Handled([cc EXCEPT ![k].wantAck = FALSE], cs, sv,
                                IF cc[k].wantAck THEN Blank ELSE "protocol")
    ELSE Handled([cc EXCEPT ![k].max = play.max, ![k].init = f.len],
                 [cs EXCEPT ![k] = [n \in Streams |-> IF n \in cc[k].streams
                         THEN [cs[k][n] EXCEPT !.flow = @ + (f.len - cc[k].init)] ELSE cs[k][n]]],
                 sv, Blank)

(* A mutant: an update for a stream is added to the connection as well.    *)
WindowUpdateTwice(k, f) ==
    Handled([cc EXCEPT ![k].flow = @ + f.len],
            IF f.n \in cc[k].streams THEN [cs EXCEPT ![k][f.n].flow = @ + f.len] ELSE cs, sv, Blank)

processWindowUpdate(k, f) ==
    IF f.n = 0
    THEN IF CanAdd(cc[k].flow, f.len) THEN Handled([cc EXCEPT ![k].flow = @ + f.len], cs, sv, Blank)
         ELSE Handled(cc, cs, sv, "flow control")
    ELSE IF f.n \notin cc[k].streams THEN Handled(cc, cs, sv, Blank)
    ELSE IF CanAdd(cs[k][f.n].flow, f.len)
         THEN Handled(cc, [cs EXCEPT ![k][f.n].flow = @ + f.len], sv, Blank)
    ELSE Handled(cc, cs, sv, "flow control")

Handle(k, f) ==
    CASE f.t = "headers" -> processHeaders(k, f)
      [] f.t = "data" -> processData(k, f)
      [] f.t = "goaway" -> setGoAway(k, f)
      [] f.t = "rst" -> processResetStream(k, f)
      [] f.t = "garbled" -> streamError(k, f)
      [] f.t \in {"settings", "ack"} -> processSettings(k, f)
      [] f.t = "window" -> processWindowUpdate(k, f)
      [] f.t = "ping" -> Handled(cc, cs, sv, Blank)

(* readLoop's cleanup: every response and every waiting RoundTrip gets the *)
(* error, and the connection leaves the pool.  Its server goes with it.    *)
cleanup(C, S, k, err) ==
    /\ cc' = [MarkDead(C, k) EXCEPT ![k].closed = TRUE, ![k].tconn = "closed",
                       ![k].read = FALSE, ![k].fault = err]
    /\ sv' = [sv EXCEPT ![k] = SvInit] /\ wire' = [wire EXCEPT ![k] = <<>>]
    /\ cs' = [S EXCEPT ![k] = [n \in Streams |->
                LET e == IF C[k].goAway >= 0 /\ err = "EOF" THEN "server left" ELSE err
                    P == IF S[k][n].pipe THEN EndPipe(S, k, n, e) ELSE S
                IN  IF n \in C[k].streams THEN [Offer(P, k, n, e)[k][n] EXCEPT !.done = TRUE]
                    ELSE P[k][n]]]

Exists(k) == cc[k].dial \in {"dialled", "pooled"}
Blocks(k, f) == /\ f.t = "headers" /\ f.n \in cc[k].streams /\ ~cs[k][f.n].past
                /\ cs[k][f.n].resc # <<>>        \* resc holds one result

ReadFrame(k) ==
    LET f == Head(wire[k]) IN
    /\ Exists(k) /\ cc[k].read /\ cc[k].tconn # "closed" /\ wire[k] # <<>> /\ ~Blocks(k, f)
    /\ \E r \in {Handle(k, f)} :
        /\ \/ /\ r.err = Blank /\ cc' = r.cc /\ cs' = r.cs /\ sv' = r.sv
              /\ wire' = [wire EXCEPT ![k] = Tail(@)]
           \/ r.err # Blank /\ cleanup(r.cc, r.cs, k, r.err)
    /\ UNCHANGED <<play, rt, acted>>

ReadEnds(k) ==
    /\ Exists(k) /\ cc[k].read
    /\ cc[k].tconn = "closed" \/ (cc[k].tconn = "eof" /\ wire[k] = <<>>)
    /\ cleanup(cc, cs, k, "EOF")
    /\ UNCHANGED <<play, rt, acted>>

(* Bound: a connection is lost only while another one can be dialled.      *)
Spare == \E j \in Conns2 : cc[j].dial = "no"

(* The idle timer or CloseIdleConnections.                                 *)
closeIfIdle(k) ==
    /\ "idle" \in play.events /\ Spare /\ Exists(k) /\ cc[k].streams = {} /\ ~cc[k].closed
    /\ cc' = [cc EXCEPT ![k].closed = TRUE, ![k].tconn = "closed"]
    /\ UNCHANGED <<play, rt, cs, sv, wire, acted>>

-----------------------------------------------------------------------------
(* The server.                                                             *)

Frame(t, n, len, pad, end, v) == [t |-> t, n |-> n, len |-> len, pad |-> pad, end |-> end, v |-> v]
Send(k, fs) == wire' = [wire EXCEPT ![k] = @ \o fs]
Serves(k) == Exists(k) /\ cc[k].tconn = "open"
Open(k, n) == /\ Serves(k) /\ sv[k].windows > 0 /\ sv[k].stream[n].st = "open"
              /\ sv[k].last < 0 \/ n <= sv[k].last

Widened(s, inc) == [s EXCEPT !.recv = @ + inc]
ServerSettings(k) ==
    LET w == play.windows[sv[k].windows + 1] IN
    /\ Serves(k) /\ sv[k].windows < Len(play.windows)
    /\ Send(k, <<Frame("settings", 0, w, 0, FALSE, Blank)>>
               \o (IF sv[k].windows = 0 THEN <<Frame("ack", 0, 0, 0, FALSE, Blank)>> ELSE <<>>))
    /\ sv' = [sv EXCEPT ![k].windows = @ + 1, ![k].init = w,
                ![k].stream = [n \in Streams |-> Widened(sv[k].stream[n], w - sv[k].init)]]
    /\ UNCHANGED <<play, rt, cc, cs, acted>>

Replied(s) == [s EXCEPT !.head = TRUE, !.st = IF s.down = 0 THEN "closed" ELSE @]
ServerResponds(k, n) ==
    LET s == sv[k].stream[n] IN
    /\ Open(k, n) /\ ~s.head
    /\ \E v \in play.status \ {"100"} : Send(k, <<Frame("headers", n, 0, 0, s.down = 0, v)>>)
    /\ sv' = [sv EXCEPT ![k].stream[n] = Replied(s)]
    /\ acted' = acted \cup {<<cs[k][n].req, k, n>>}
    /\ UNCHANGED <<play, rt, cc, cs>>

Server100(k, n) ==
    /\ Open(k, n) /\ "100" \in play.status /\ ~sv[k].stream[n].head /\ ~sv[k].stream[n].early
    /\ Send(k, <<Frame("headers", n, 0, 0, FALSE, "100")>>)
    /\ sv' = [sv EXCEPT ![k].stream[n].early = TRUE]
    /\ UNCHANGED <<play, rt, cc, cs, acted>>

Shrunk(s, len) ==
    [s EXCEPT !.send = @ - len, !.down = @ - 1, !.st = IF s.down = 1 THEN "closed" ELSE @]
SendsData(k, n, pad, trailers) ==
    LET s == sv[k].stream[n] IN
    /\ s.send >= 1 + pad /\ sv[k].send >= 1 + pad
    /\ Send(k, <<Frame("data", n, 1, pad, s.down = 1 /\ ~trailers, Blank)>>
               \o (IF trailers THEN <<Frame("headers", n, 0, 0, TRUE, "ok")>> ELSE <<>>))
    /\ sv' = [sv EXCEPT ![k].send = @ - (1 + pad), ![k].stream[n] = Shrunk(s, 1 + pad)]
ServerSendsData(k, n) ==
    LET s == sv[k].stream[n] IN
    /\ Open(k, n) /\ s.head /\ s.down > 0
    /\ \E pad \in {0} \cup (IF play.frills THEN {1} ELSE {}) :
       \E trailers \in {FALSE} \cup (IF play.frills /\ s.down = 1 THEN {TRUE} ELSE {}) :
        SendsData(k, n, pad, trailers)
    /\ UNCHANGED <<play, rt, cc, cs, acted>>

ServerGrants(k, n) ==
    LET got == sv[k].stream[n].got IN
    /\ Serves(k) /\ got > 0 /\ (sv[k].recv <= 0 \/ sv[k].stream[n].recv <= 0)
    /\ Send(k, <<Frame("window", n, got, 0, FALSE, Blank), Frame("window", 0, got, 0, FALSE, Blank)>>)
    /\ sv' = [sv EXCEPT ![k].recv = @ + got,
                ![k].stream[n].got = 0, ![k].stream[n].recv = @ + got]
    /\ UNCHANGED <<play, rt, cc, cs, acted>>

ServerBreaks(k, n) ==
    /\ Open(k, n)
    /\ \E t \in {"rst", "garbled"} :
        /\ (IF t = "rst" THEN "rst" ELSE "garble") \in play.events
        /\ Send(k, <<Frame(t, n, 0, 0, FALSE, Blank)>>)
    /\ sv' = ServerResets(sv, k, n)
    /\ acted' = acted \cup {<<cs[k][n].req, k, n>>}
    /\ UNCHANGED <<play, rt, cc, cs>>

ServerGoesAway(k) ==
    /\ "goaway" \in play.events /\ Spare /\ Serves(k) /\ sv[k].windows > 0 /\ sv[k].last < 0
    /\ \E last \in 0..(cc[k].next - 1) :
        /\ \A a \in acted : a[2] = k => a[3] <= last
        /\ Send(k, <<Frame("goaway", last, 0, 0, FALSE, Blank)>>)
        /\ sv' = [sv EXCEPT ![k].last = last]
    /\ UNCHANGED <<play, rt, cc, cs, acted>>

ServerHangs(k) ==
    /\ Serves(k) /\ "hangup" \in play.events /\ Spare
    /\ cc' = [cc EXCEPT ![k].tconn = "eof"]
    /\ UNCHANGED <<play, rt, cs, sv, wire, acted>>

ServerPings(k) ==
    /\ "ping" \in play.events /\ Serves(k) /\ sv[k].windows > 0 /\ ~sv[k].pinged
    /\ Send(k, <<Frame("ping", 0, 0, 0, FALSE, Blank)>>)
    /\ sv' = [sv EXCEPT ![k].pinged = TRUE]
    /\ UNCHANGED <<play, rt, cc, cs, acted>>

H2Client ==
    \/ \E q \in Requests :
        \/ getClientConn(q) \/ DialReturns(q) \/ RoundTrip(q) \/ Result(q) \/ Canceled(q)
        \/ PeerReset(q) \/ BodyWritten(q) \/ ReadResponse(q) \/ CloseResponse(q)
        \/ awaitRequestCancel(q) \/ CancelFires(q)
    \/ \E k \in Conns2 : dial(k) \/ addConnLocked(k) \/ ReadFrame(k) \/ ReadEnds(k)
    \/ \E k \in Conns2, n \in Streams : StartsBody(k, n) \/ writeRequestBody(k, n)
(* What a server that answers its requests does sooner or later.           *)
H2Duty ==
    \E k \in Conns2 :
        \/ ServerSettings(k)
        \/ \E n \in Streams : ServerResponds(k, n) \/ ServerSendsData(k, n) \/ ServerGrants(k, n)
H2Whims ==
    \E k \in Conns2 :
        \/ \E n \in Streams : ServerBreaks(k, n) \/ Server100(k, n)
        \/ ServerGoesAway(k) \/ ServerHangs(k) \/ ServerPings(k) \/ closeIfIdle(k)
H2Next == H2Client \/ H2Duty \/ H2Whims

-----------------------------------------------------------------------------
(* The bytes and credits of the frames on the wire that P selects.         *)
InFlight(k, P(_)) == FoldLeft(LAMBDA a, f : IF P(f) THEN a + f.len + f.pad ELSE a, 0, wire[k])

H2TypeOK ==
    /\ \A q \in Requests :
        /\ rt[q].pc \in {"get", "dial", "start", "wait", "body", "done"}
        /\ rt[q].conn \in Conns2 \cup {Nothing} /\ rt[q].id \in Streams \cup {Nothing}
    /\ \A k \in Conns2 : /\ cc[k].streams \subseteq Streams
                         /\ \A n \in Streams : Len(cs[k][n].resc) <= 1

(* Both ends agree on every window, counting what is in flight.  Data for  *)
(* a stream that was forgotten is returned to the connection's window      *)
(* though it was never taken from it (processData): then, after a          *)
(* cancellation or a response that was refused, the client's count is the  *)
(* larger one.                                                             *)
Flow ==
    \A k \in Conns2 : cc[k].read /\ ~Gone(k) =>
        LET Data(n) == InFlight(k, LAMBDA f : f.t = "data" /\ n \in {0, f.n})
            Grants(n) == InFlight(k, LAMBDA f : f.t = "window" /\ f.n = n)
        IN
        /\ cc[k].inflow >= sv[k].send + Data(0)
        /\ play.cancelled = {} /\ "bad" \notin play.status => cc[k].inflow = sv[k].send + Data(0)
        /\ cc[k].flow + Grants(0) = sv[k].recv /\ cc[k].flow >= 0
        /\ \A n \in cc[k].streams :
            /\ cs[k][n].inflow = sv[k].stream[n].send + Data(n)
            /\ cs[k][n].flow + Grants(n) + (sv[k].init - cc[k].init) = sv[k].stream[n].recv
(* No request is acted on twice: GOAWAY's retries are safe.                *)
OnceEach ==
    \A a, b \in acted : a[1] = b[1] => a = b
(* A server that keeps to the protocol never makes the client end the      *)
(* connection with an error; one malformed response may, since its DATA    *)
(* can come before RoundTrip forgets the stream (processData).             *)
NoFault == "bad" \notin play.status => \A k \in Conns2 : cc[k].fault \in {Blank, "EOF"}
(* The read loop never waits to hand over a response.                      *)
NeverBlocks == \A k \in Conns2 : cc[k].read /\ wire[k] # <<>> => ~Blocks(k, Head(wire[k]))
(* Every RoundTrip has returned and its response is read.                  *)
H2Done == \A q \in Requests : rt[q].pc = "done"
=============================================================================
