--------------------------- MODULE HttpTransport ----------------------------
(* The HTTP/1 client of lib/http: Client.Do with its redirects and its     *)
(* timer, Transport.RoundTrip with its retries, the pool of idle           *)
(* connections, and the two goroutines of every connection.  A request is  *)
(* <<caller, hop>>; a response carries the request the server answers.     *)
EXTENDS Integers, Sequences, FiniteSets, SequencesExt

CONSTANTS
    Callers,    \* the goroutines that call Client.Do on one Transport
    Conns,      \* the connections: each is dialled at most once
    Hops,       \* the requests of a Do, numbered from 0
    Settings    \* what a client, its server and its user may do (see Setting)

Methods == {"GET", "POST", "POST with body"}
Forms == {"nobody", "body", "closing", "short", "bad", "302", "307", "302 lost"}
Hosts == {"a", "b"}

(* A Transport, a Client and their surroundings: the request's method, the *)
(* host of each hop, DisableKeepAlives, the idle limits (0 for none), an   *)
(* idle timeout, Client.Timeout, the redirects CheckRedirect lets pass,    *)
(* whether the user calls CancelRequest or CloseIdleConnections, the forms *)
(* of response the server may send and how often it may hang up.           *)
Setting ==
    [users: SUBSET Callers, method: Methods, hosts: Seq(Hosts), keepAlive: BOOLEAN,
     perHost: Nat, maxIdle: Nat, idleTimeout: BOOLEAN, timeout: BOOLEAN, redirects: Nat,
     cancels: BOOLEAN, closesIdle: BOOLEAN, forms: SUBSET Forms, hangsUp: Nat]

None == 0
NoReq == <<>>
Unset == "unset"    \* an error, a reason or a result there is not yet

ASSUME SettingsAssumption ==
    /\ Settings \subseteq Setting /\ Conns \subseteq Nat \ {0} /\ None \notin Callers
    /\ \A s \in Settings : 0..s.redirects \subseteq Hops /\ s.redirects < Len(s.hosts)

VARIABLES
    h,          \* the Setting
    caller,     \* each caller's Do: see CallerInit
    conn,       \* each persistConn with its loops and the server's side: see ConnInit
    pool,       \* Transport.idleConn, idleLRU (the newest first), wantIdle
    reqCanceler,\* Transport.reqCanceler: what CancelRequest of a request does
    seen,       \* the requests servers have received, and on which connection
    hung        \* how often a server has hung up

h1Vars == <<h, caller, conn, pool, reqCanceler, seen, hung>>

CallerInit ==
    [pc |-> "done", hop |-> 0, method |-> "GET", conn |-> None, live |-> FALSE, cancel |-> FALSE,
     cancelc |-> FALSE, told |-> FALSE, timer |-> FALSE, start |-> 0, werr |-> Unset,
     res |-> Unset, got |-> NoReq, err |-> Unset, asked |-> FALSE]
(* A caller with its next request in hand, and one that has returned.      *)
Sending(k, hop, method) ==
    [CallerInit EXCEPT !.pc = "getconn", !.hop = hop, !.method = method, !.timer = h.timeout,
                       !.asked = k.asked]
Returned(k, err) ==
    [CallerInit EXCEPT !.hop = k.hop, !.method = k.method, !.err = err, !.got = k.got,
                       !.asked = k.asked, !.cancel = k.cancel]
ConnInit ==
    [dial |-> "no", by |-> None, wanted |-> FALSE, key |-> "a", closed |-> Unset, canceled |-> FALSE,
     reused |-> FALSE, expected |-> 0, nwrite |-> 0, writech |-> <<>>, reqch |-> <<>>, fired |-> FALSE,
     w |-> "idle", wr |-> NoReq, werr |-> Unset, writeErrCh |-> <<>>, r |-> "peek", rc |-> NoReq, res |-> Unset,
     from |-> NoReq, peeked |-> TRUE, alive |-> TRUE, sawEOF |-> FALSE, bodyRead |-> <<>>,
     up |-> <<>>, down |-> <<>>, owes |-> NoReq, eof |-> FALSE]

H1Init ==
    /\ h \in Settings
    /\ caller = [c \in Callers |-> IF c \in h.users THEN Sending(CallerInit, 0, h.method)
                                  ELSE CallerInit]
    /\ conn = [i \in Conns |-> ConnInit]
    /\ pool = [idle |-> [k \in Hosts |-> <<>>], lru |-> <<>>, wantIdle |-> FALSE]
    /\ reqCanceler = [q \in Callers \X Hops |-> "none"]
    /\ seen = {} /\ hung = 0

-----------------------------------------------------------------------------
(* Requests and responses.                                                 *)

Req(c) == <<c, caller[c].hop>>
SetCanceler(q, fn) == reqCanceler' = [reqCanceler EXCEPT ![q] = fn]
HostOf(hop) == h.hosts[hop + 1]
isReplayable(method) == method = "GET"
outgoingLength(method) == IF method = "POST with body" THEN 1 ELSE 0
HasBody(form) == form \in {"body", "closing", "302", "307", "302 lost"}
IsRedirect(form) == form \in {"302", "307", "302 lost"}
RedirectMethod(method, form) == IF form = "307" THEN method ELSE "GET"

ShouldRetry(i, method, err) ==
    /\ conn[i].reused
    /\ \/ err = "nothing written"
       \/ isReplayable(method) /\ err \in {"read error", "closed idle"}

-----------------------------------------------------------------------------
(* Closing, and the pool.  C is the connections and P the pool so far.     *)

(* What is left of a connection whose loops have both ended.               *)
Bury(C, i) ==
    IF C[i].r # "gone" \/ C[i].w # "done" THEN C
    ELSE [C EXCEPT ![i] = [ConnInit EXCEPT !.dial = "up", !.key = C[i].key, !.r = "gone",
             !.closed = C[i].closed, !.canceled = C[i].canceled, !.reused = C[i].reused,
             !.nwrite = C[i].nwrite, !.w = "done"]]

Close(C, i, why) == [C EXCEPT ![i].closed = IF @ = Unset THEN why ELSE @]

CancelConn(C, i) == [Close(C, i, "canceled") EXCEPT ![i].canceled = TRUE]

(* The list s without the connections in gone, in order.                   *)
Without(s, gone) ==
    LET kept[n \in 0..Len(s)] == IF n = 0 THEN <<>>
                                 ELSE IF s[n] \in gone THEN kept[n - 1] ELSE Append(kept[n - 1], s[n])
    IN  kept[Len(s)]

(* A mutant: the LRU list keeps the connection.                            *)
UnlistKeepsLRU(P, i, key) == [P EXCEPT !.idle[key] = Without(@, {i})]

Unlist(P, i, key) ==
    [P EXCEPT !.idle[key] = Without(@, {i}), !.lru = Without(@, {i})]

List(P, i, key) == [P EXCEPT !.idle[key] = Append(@, i), !.lru = <<i>> \o @]

Waiters(key) == {c \in Callers : caller[c].pc = "select" /\ caller[c].live
                                 /\ HostOf(caller[c].hop) = key}

PutRefused(C, P) == {[conn |-> C, pool |-> P, to |-> None, ok |-> FALSE]}

(* The outcomes of offering connection i to the pool: it is refused, handed *)
(* to a caller that waits for a dial, or listed, which may push the oldest  *)
(* idle connection out.                                                     *)
tryPutIdleConn(C, P, i) ==
    LET key == C[i].key
        R == [C EXCEPT ![i].reused = TRUE]
        listed == List(P, i, key)
        oldest == Last(listed.lru)
    IN  IF ~h.keepAlive \/ C[i].closed # Unset THEN PutRefused(C, P)
        ELSE IF Waiters(key) # {}
             THEN {[conn |-> R, pool |-> P, to |-> c, ok |-> TRUE] : c \in Waiters(key)}
        ELSE IF P.wantIdle \/ Len(P.idle[key]) >= h.perHost THEN PutRefused(R, P)
        ELSE IF h.maxIdle # 0 /\ Len(listed.lru) > h.maxIdle
             THEN {[conn |-> Close(R, oldest, "too many idle"), to |-> None, ok |-> TRUE,
                    pool |-> Unlist(listed, oldest, C[oldest].key)]}
        ELSE {[conn |-> R, pool |-> listed, to |-> None, ok |-> TRUE]}

putOrCloseIdleConn(C, P, i) ==
    {IF p.ok THEN p ELSE [p EXCEPT !.conn = Close(p.conn, i, "not put idle")] :
        p \in tryPutIdleConn(C, P, i)}

(* A caller handed connection i leaves its dial to handlePendingDial.      *)
HandPending(C, c) ==
    [i \in Conns |-> IF C[i].by = c /\ C[i].wanted THEN [C[i] EXCEPT !.wanted = FALSE] ELSE C[i]]
Handed(K, c, i) == IF c = None THEN K ELSE [K EXCEPT ![c].pc = "start", ![c].conn = i]
Settle(p, i) ==
    /\ pool' = p.pool
    /\ conn' = IF p.to = None THEN p.conn ELSE HandPending(p.conn, p.to)

(* getIdleConn: the most recent entries that are broken, or whose idle     *)
(* timer has fired, are dropped until one is usable.                       *)
Usable(i) == conn[i].closed = Unset /\ ~conn[i].fired
getIdleConn(key) ==
    LET good == {n \in 1..Len(pool.idle[key]) : Usable(pool.idle[key][n])}
        last == CHOOSE n \in good : \A m \in good : m <= n
        keep == IF good = {} THEN 0 ELSE last - 1
    IN  [pc |-> IF good = {} THEN None ELSE pool.idle[key][last],
         pool |-> [pool EXCEPT !.idle[key] = SubSeq(@, 1, keep),
                     !.lru = Without(@, {pool.idle[key][n] : n \in (keep + 1)..Len(pool.idle[key])})]]

-----------------------------------------------------------------------------
(* Client.Do and Transport.RoundTrip.                                      *)

(* RoundTrip's end with an error: roundTrip drops the canceler, and the    *)
(* request is sent again or Do returns.                                    *)
Fail(c, K, again, err) ==
    /\ SetCanceler(Req(c), "none")
    /\ caller' = [K EXCEPT ![c] =
            IF again THEN [Sending(@, @.hop, @.method) EXCEPT !.cancel = caller[c].cancel]
            ELSE Returned(@, err)]

GetIdle(c) ==
    LET got == getIdleConn(HostOf(caller[c].hop)) IN
    /\ caller[c].pc = "getconn"
    /\ pool' = got.pool
    /\ \/ /\ got.pc # None
          /\ caller' = [caller EXCEPT ![c].pc = "start", ![c].conn = got.pc]
          /\ SetCanceler(Req(c), "nothing")
          /\ UNCHANGED conn
       \/ /\ got.pc = None
          /\ \E i \in Conns :
                /\ conn[i].dial = "no" /\ \A j \in Conns : j < i => conn[j].dial # "no"
                /\ conn' = [conn EXCEPT ![i].dial = "dialing", ![i].by = c, ![i].wanted = TRUE,
                              ![i].key = HostOf(caller[c].hop)]
          /\ caller' = [caller EXCEPT ![c].pc = "join"]
          /\ SetCanceler(Req(c), "dial")
    /\ UNCHANGED <<h, seen, hung>>

getIdleConnCh(c) ==
    /\ caller[c].pc = "join"
    /\ caller' = [caller EXCEPT ![c].pc = "select", ![c].live = h.keepAlive]
    /\ pool' = [pool EXCEPT !.wantIdle = @ /\ ~h.keepAlive]
    /\ UNCHANGED <<h, conn, reqCanceler, seen, hung>>

Dialling(i) == conn[i].dial = "dialing"
Dialled(i, d) == [conn EXCEPT ![i].dial = d, ![i].wanted = FALSE]

DialAnswers(c, i) ==
    /\ caller[c].pc = "select" /\ Dialling(i) /\ conn[i].by = c /\ conn[i].wanted
    /\ \/ /\ conn' = Dialled(i, "up")
          /\ caller' = [caller EXCEPT ![c].pc = "start", ![c].conn = i]
          /\ UNCHANGED reqCanceler
       \/ /\ conn' = Dialled(i, "failed")
          /\ Fail(c, caller, FALSE,
                  IF caller[c].cancel \/ caller[c].cancelc THEN "canceled" ELSE "dial error")
    /\ UNCHANGED <<h, pool, seen, hung>>

DialCanceled(c) ==
    /\ caller[c].pc = "select" /\ (caller[c].cancel \/ caller[c].cancelc)
    /\ conn' = HandPending(conn, c)
    /\ Fail(c, caller, FALSE, "canceled")
    /\ UNCHANGED <<h, pool, seen, hung>>

handlePendingDial(i) ==
    /\ Dialling(i) /\ ~conn[i].wanted
    /\ \/ /\ conn' = Dialled(i, "failed")
          /\ UNCHANGED <<caller, pool>>
       \/ \E p \in putOrCloseIdleConn(Dialled(i, "up"), pool, i) :
            Settle(p, i) /\ caller' = Handed(caller, p.to, i)
    /\ UNCHANGED <<h, reqCanceler, seen, hung>>

(* persistConn.roundTrip up to its select: the canceler is replaced, or the *)
(* request was cancelled meanwhile and the connection goes back.            *)
roundTrip(c) ==
    LET i == caller[c].conn IN
    /\ caller[c].pc = "start"
    /\ \/ /\ reqCanceler[Req(c)] = "none"
          /\ \E p \in putOrCloseIdleConn(conn, pool, i) :
                Settle(p, i) /\ Fail(c, Handed(caller, p.to, i), FALSE, "canceled")
       \/ /\ reqCanceler[Req(c)] # "none"
          /\ SetCanceler(Req(c), "conn")
          /\ conn' = [conn EXCEPT ![i].expected = @ + 1, ![i].writech = Append(@, Req(c)),
                        ![i].reqch = Append(@, Req(c))]
          /\ caller' = [caller EXCEPT ![c].pc = "wait", ![c].start = conn[i].nwrite,
                          ![c].werr = Unset, ![c].told = FALSE]
          /\ UNCHANGED pool
    /\ UNCHANGED <<h, seen, hung>>

WriteFailed(c) ==
    LET i == caller[c].conn
        err == IF conn[i].canceled THEN "canceled" ELSE caller[c].werr IN
    /\ caller[c].pc = "wait" /\ caller[c].werr # Unset
    /\ conn' = Close(conn, i, "write error")
    /\ Fail(c, caller, ShouldRetry(i, caller[c].method, err), err)
    /\ UNCHANGED <<h, pool, seen, hung>>

(* mapRoundTripErrorAfterClosed; where it waits for the writeLoop the      *)
(* caller is at "map".                                                     *)
ConnClosed(c) ==
    LET i == caller[c].conn
        err == IF conn[i].canceled THEN "canceled" ELSE conn[i].closed IN
    /\ caller[c].pc = "wait" /\ conn[i].closed # Unset
    /\ \/ /\ err \in {"canceled", "closed idle", "read error"}
          /\ Fail(c, caller, ShouldRetry(i, caller[c].method, err), err)
       \/ /\ err \notin {"canceled", "closed idle", "read error"}
          /\ caller' = [caller EXCEPT ![c].pc = "map", ![c].err = "broken"]
          /\ UNCHANGED reqCanceler
    /\ UNCHANGED <<h, conn, pool, seen, hung>>

MapError(c) ==
    LET i == caller[c].conn
        err == IF conn[i].nwrite = caller[c].start /\ outgoingLength(caller[c].method) = 0
               THEN "nothing written" ELSE caller[c].err IN
    /\ caller[c].pc = "map" /\ conn[i].w = "done"
    /\ Fail(c, caller, ShouldRetry(i, caller[c].method, err), err)
    /\ UNCHANGED <<h, conn, pool, seen, hung>>

(* What CancelRequest does, through the canceler it removes.               *)
RunCanceler(c, C, K) ==
    /\ conn' = IF reqCanceler[Req(c)] = "conn" THEN CancelConn(C, caller[c].conn) ELSE C
    /\ caller' = IF reqCanceler[Req(c)] = "dial" THEN [K EXCEPT ![c].cancelc = TRUE] ELSE K
    /\ SetCanceler(Req(c), "none")

CancelNoticed(c) ==
    /\ caller[c].pc = "wait" /\ caller[c].cancel /\ ~caller[c].told
    /\ RunCanceler(c, conn, [caller EXCEPT ![c].told = TRUE])
    /\ UNCHANGED <<h, pool, seen, hung>>

CancelRequest(c) ==
    /\ h.cancels /\ ~caller[c].asked /\ caller[c].pc # "done"
    /\ RunCanceler(c, conn, [caller EXCEPT ![c].asked = TRUE])
    /\ UNCHANGED <<h, pool, seen, hung>>

(* The timer of setRequestCancel, until the body or an error stops it.     *)
TimerFires(c) ==
    /\ caller[c].timer /\ ~caller[c].cancel
    /\ caller' = [caller EXCEPT ![c].cancel = TRUE]
    /\ UNCHANGED <<h, conn, pool, reqCanceler, seen, hung>>

(* Do with a response: a redirect without Location ends it with the body   *)
(* unread; another is followed, or refused, after the body is slurped and  *)
(* closed; any other is the user's to read and close.                      *)
Finish(K, c) ==
    LET k == K[c] IN
    [K EXCEPT ![c] = IF IsRedirect(k.res) /\ k.hop < h.redirects
                     THEN Sending(k, k.hop + 1, RedirectMethod(k.method, k.res))
                     ELSE Returned(k, k.err)]

Answered(K, c, i, res) ==
    IF res = "302 lost" THEN [K EXCEPT ![c].pc = "done", ![c].conn = i, ![c].err = "no Location"]
    ELSE IF HasBody(res) THEN [K EXCEPT ![c].pc = "body", ![c].res = res]
    ELSE Finish(K, c)

(* bodyEOFSignal.Read to the end of the body, or to an error.              *)
ReadBody(c) ==
    LET i == caller[c].conn IN
    /\ caller[c].pc = "body"
    /\ \/ /\ conn[i].down # <<>>
          /\ conn' = [conn EXCEPT ![i].down = Tail(@), ![i].bodyRead = Append(@, TRUE)]
          /\ caller' = [caller EXCEPT ![c].pc = "eof", ![c].got = Head(conn[i].down).req]
       \/ /\ conn[i].closed # Unset \/ (conn[i].down = <<>> /\ conn[i].eof)
          /\ conn' = [conn EXCEPT ![i].bodyRead = Append(@, FALSE),
                        ![i].sawEOF = @ \/ conn[i].closed = Unset]
          /\ caller' = Finish([caller EXCEPT ![c].err = IF conn[i].canceled THEN "canceled"
                                                        ELSE "short body"], c)
    /\ UNCHANGED <<h, pool, reqCanceler, seen, hung>>

CloseBody(c) ==
    /\ caller[c].pc = "body"
    /\ conn' = [conn EXCEPT ![caller[c].conn].bodyRead = Append(@, FALSE)]
    /\ caller' = Finish(caller, c)
    /\ UNCHANGED <<h, pool, reqCanceler, seen, hung>>

(* fn's wait for eofc, which the readLoop closes when it ends.             *)
BodyReleased(c) ==
    /\ caller[c].pc = "eof" /\ conn[caller[c].conn].r \in {"exit", "gone"}
    /\ caller' = Finish(caller, c)
    /\ UNCHANGED <<h, conn, pool, reqCanceler, seen, hung>>

-----------------------------------------------------------------------------
(* persistConn.readLoop.                                                   *)

Up(i) == conn[i].dial = "up"
Waits(c, i, req) == caller[c].conn = i /\ Req(c) = req

Peek(i) ==
    /\ Up(i) /\ conn[i].r = "peek"
    /\ \E ok \in BOOLEAN :
        /\ IF ok THEN conn[i].down # <<>>
                 ELSE conn[i].closed # Unset \/ (conn[i].down = <<>> /\ conn[i].eof)
        /\ LET EOF == ~ok /\ conn[i].closed = Unset
               C == [conn EXCEPT ![i].sawEOF = @ \/ EOF, ![i].peeked = ok]
           IN  conn' = IF conn[i].expected = 0
                       THEN [Close(C, i, IF EOF THEN "closed idle" ELSE "unexpected data")
                                EXCEPT ![i].r = "exit"]
                       ELSE [C EXCEPT ![i].r = "take"]
    /\ UNCHANGED <<h, caller, pool, reqCanceler, seen, hung>>

(* The request is taken from reqch and its response read.  err is what     *)
(* persistConn.readLoop reports of a response it cannot use.               *)
ReadFails(i, req, err) ==
    /\ conn' = [conn EXCEPT ![i].r = "deliver", ![i].res = err, ![i].alive = FALSE, ![i].rc = req,
                  ![i].reqch = <<>>, ![i].down = IF @ = <<>> THEN @ ELSE Tail(@)]
    /\ IF ShouldRetry(i, caller[req[1]].method, err) THEN UNCHANGED reqCanceler
       ELSE SetCanceler(req, "none")

readResponse(i) ==
    LET form == Head(conn[i].down).form  req == Head(conn[i].reqch) IN
    /\ Up(i) /\ conn[i].r = "take" /\ conn[i].reqch # <<>>
    /\ \/ ~conn[i].peeked /\ ReadFails(i, req, "read error")
       \/ conn[i].peeked /\ form \in {"bad", "data"} /\ ReadFails(i, req, "bad response")
       \/ /\ conn[i].peeked /\ form \notin {"bad", "data"}
          /\ conn' = [conn EXCEPT ![i].res = form, ![i].from = Head(conn[i].down).req, ![i].rc = req,
                        ![i].reqch = <<>>, ![i].down = Tail(@), ![i].expected = @ - 1,
                        ![i].sawEOF = form = "short", ![i].alive = form # "closing",
                        ![i].r = IF HasBody(form) THEN "deliver" ELSE "recycle"]
          /\ IF HasBody(form) THEN UNCHANGED reqCanceler ELSE SetCanceler(req, "none")
    /\ UNCHANGED <<h, caller, pool, seen, hung>>

(* The connection is kept when it is still good, the write is known to be  *)
(* done (wroteRequest waits 50 ms for that) and the pool takes it.  After  *)
(* a body the reader of the body is released, before one the response is   *)
(* still to be delivered.                                                  *)
Recycle(i) ==
    LET c == conn[i].rc[1]
        afterBody == HasBody(conn[i].res)
        maybe == conn[i].alive /\ ~conn[i].sawEOF
        next(a) == IF ~afterBody THEN "deliver" ELSE IF a THEN "peek" ELSE "exit"
        Step(C, a) == [C EXCEPT ![i].r = next(a), ![i].alive = a]
        K == IF afterBody /\ caller[c].pc = "eof" /\ caller[c].conn = i
             THEN Finish(caller, c) ELSE caller
        wrote == conn[i].writeErrCh = <<"nil">>
        emptied == [conn EXCEPT ![i].writeErrCh = <<>>]
    IN
    /\ Up(i) /\ conn[i].r = "recycle"
    /\ \/ /\ ~maybe \/ ~wrote
          /\ conn' = Step(IF maybe THEN emptied ELSE conn, FALSE)
          /\ caller' = K /\ UNCHANGED pool
       \/ /\ maybe /\ wrote
          /\ \E p \in tryPutIdleConn(emptied, pool, i) :
                Settle([p EXCEPT !.conn = Step(p.conn, p.ok)], i) /\ caller' = Handed(K, p.to, i)
    /\ UNCHANGED <<h, reqCanceler, seen, hung>>

(* The response or error is handed to roundTrip's select, which maps an    *)
(* error (mapRoundTripErrorFromReadLoop), or the caller has gone.          *)
Deliver(i) ==
    LET req == conn[i].rc  c == req[1]  res == conn[i].res
        failed == res \in {"read error", "bad response"}
        after == IF failed THEN "exit"
                 ELSE IF HasBody(res) THEN "body"
                 ELSE IF conn[i].alive THEN "peek" ELSE "exit"
    IN
    /\ Up(i) /\ conn[i].r = "deliver"
    /\ \/ /\ Waits(c, i, req) /\ caller[c].pc = "wait"
          /\ conn' = [conn EXCEPT ![i].r = after]
          /\ IF ~failed
             THEN /\ caller' = Answered([caller EXCEPT ![c].got = conn[i].from], c, i, res)
                  /\ UNCHANGED reqCanceler
             ELSE LET err == IF conn[i].canceled THEN "canceled" ELSE res IN
                  IF err = "bad response" /\ conn[i].closed # Unset
                  THEN caller' = [caller EXCEPT ![c].pc = "map", ![c].err = err]
                       /\ UNCHANGED reqCanceler
                  ELSE Fail(c, caller, ShouldRetry(i, caller[c].method, err), err)
       \/ /\ ~(Waits(c, i, req) /\ caller[c].pc \in {"wait", "map"})
          /\ conn' = [conn EXCEPT ![i].r = "exit"]
          /\ UNCHANGED <<caller, reqCanceler>>
    /\ UNCHANGED <<h, pool, seen, hung>>

(* The wait for the user to be done with the body.                         *)
AwaitBody(i) ==
    LET c == conn[i].rc[1] IN
    /\ Up(i) /\ conn[i].r = "body"
    /\ \/ /\ conn[i].bodyRead # <<>>
          /\ conn' = [conn EXCEPT ![i].r = "recycle", ![i].alive = @ /\ Head(conn[i].bodyRead),
                        ![i].bodyRead = <<>>]
          /\ SetCanceler(conn[i].rc, "none")
          /\ UNCHANGED caller
       \/ /\ caller[c].cancel /\ Waits(c, i, conn[i].rc)
          /\ RunCanceler(c, [conn EXCEPT ![i].r = "exit"], caller)
       \/ /\ conn[i].closed # Unset
          /\ conn' = [conn EXCEPT ![i].r = "exit"]
          /\ UNCHANGED <<caller, reqCanceler>>
    /\ UNCHANGED <<h, pool, seen, hung>>

readLoopEnds(i) ==
    /\ Up(i) /\ conn[i].r = "exit"
    /\ conn' = LET why == IF conn[i].res = "read error" THEN "read error" ELSE "read loop ended"
               IN  Bury([Close(conn, i, why) EXCEPT ![i].r = "gone"], i)
    /\ pool' = Unlist(pool, i, conn[i].key)
    /\ UNCHANGED <<h, caller, reqCanceler, seen, hung>>

-----------------------------------------------------------------------------
(* persistConn.writeLoop.  A write fails once either end has closed, and   *)
(* then some of the request may have left.                                 *)

Write(i) ==
    LET req == Head(conn[i].writech)
        Wrote(n, e) == [conn EXCEPT ![i].writech = <<>>, ![i].nwrite = @ + n, ![i].w = "report",
                                    ![i].wr = req, ![i].werr = e]
        method == caller[req[1]].method
    IN
    /\ Up(i) /\ conn[i].w = "idle" /\ conn[i].writech # <<>>
    /\ \/ /\ conn[i].closed = Unset
          /\ conn' = IF conn[i].eof THEN Wrote(1, "nil")
                     ELSE [Wrote(1, "nil") EXCEPT ![i].up = Append(@, req)]
          /\ seen' = IF conn[i].eof THEN seen ELSE seen \cup {<<req, i>>}
       \/ /\ conn[i].closed # Unset \/ conn[i].eof
          /\ \E n \in {0, 1} :
                conn' = Wrote(n, IF n = 0 /\ outgoingLength(method) = 0 THEN "nothing written"
                                 ELSE "write error")
          /\ UNCHANGED seen
    /\ UNCHANGED <<h, caller, pool, reqCanceler, hung>>

WriteReports(i) ==
    LET e == conn[i].werr
        told(c) == caller[c].pc \in {"wait", "map"} /\ Waits(c, i, conn[i].wr)
    IN
    /\ Up(i) /\ conn[i].w = "report" /\ conn[i].writeErrCh = <<>>
    /\ conn' = LET C == [conn EXCEPT ![i].writeErrCh = <<e>>, ![i].werr = Unset, ![i].wr = NoReq] IN
               IF e = "nil" THEN [C EXCEPT ![i].w = "idle"]
               ELSE Bury([Close(C, i, "write error") EXCEPT ![i].w = "done"], i)
    /\ caller' = [c \in Callers |-> IF e # "nil" /\ told(c) THEN [caller[c] EXCEPT !.werr = e]
                                    ELSE caller[c]]
    /\ UNCHANGED <<h, pool, reqCanceler, seen, hung>>

writeLoopEnds(i) ==
    /\ Up(i) /\ conn[i].w = "idle" /\ conn[i].closed # Unset
    /\ conn' = Bury([conn EXCEPT ![i].w = "done"], i)
    /\ UNCHANGED <<h, caller, pool, reqCanceler, seen, hung>>

-----------------------------------------------------------------------------
(* The idle timer, the user's CloseIdleConnections, and the server.        *)

IdleTimerFires(i) ==
    /\ h.idleTimeout /\ ~conn[i].fired /\ i \in Range(pool.lru)
    /\ conn' = [conn EXCEPT ![i].fired = TRUE]
    /\ UNCHANGED <<h, caller, pool, reqCanceler, seen, hung>>

closeConnIfStillIdle(i) ==
    /\ conn[i].fired /\ i \in Range(pool.lru)
    /\ pool' = Unlist(pool, i, conn[i].key)
    /\ conn' = Close(conn, i, "idle timeout")
    /\ UNCHANGED <<h, caller, reqCanceler, seen, hung>>

(* A mutant: the connections are closed as cancelRequest closes them.      *)
CloseIdleCancels ==
    /\ h.closesIdle /\ ~pool.wantIdle
    /\ pool' = [idle |-> [k \in Hosts |-> <<>>], lru |-> <<>>, wantIdle |-> TRUE]
    /\ conn' = [i \in Conns |-> IF i \in Range(pool.lru) THEN CancelConn(conn, i)[i] ELSE conn[i]]
    /\ caller' = [c \in Callers |-> [caller[c] EXCEPT !.live = FALSE]]
    /\ UNCHANGED <<h, reqCanceler, seen, hung>>

CloseIdleConnections ==
    /\ h.closesIdle /\ ~pool.wantIdle
    /\ pool' = [idle |-> [k \in Hosts |-> <<>>], lru |-> <<>>, wantIdle |-> TRUE]
    /\ conn' = [i \in Conns |-> IF i \in Range(pool.lru) THEN Close(conn, i, "idle closed")[i]
                                ELSE conn[i]]
    /\ caller' = [c \in Callers |-> [caller[c] EXCEPT !.live = FALSE]]
    /\ UNCHANGED <<h, reqCanceler, seen, hung>>

Listens(i) == conn[i].closed = Unset /\ ~conn[i].eof

ServerAnswers(i) ==
    /\ conn[i].up # <<>> /\ conn[i].owes = NoReq /\ Listens(i)
    /\ \E f \in h.forms :
        LET req == Head(conn[i].up) IN
        conn' = [conn EXCEPT ![i].up = Tail(@), ![i].down = Append(@, [req |-> req, form |-> f]),
                   ![i].owes = IF HasBody(f) THEN req ELSE NoReq, ![i].eof = f = "short"]
    /\ UNCHANGED <<h, caller, pool, reqCanceler, seen, hung>>

ServerSendsBody(i) ==
    /\ conn[i].owes # NoReq /\ Listens(i)
    /\ conn' = [conn EXCEPT ![i].owes = NoReq,
                  ![i].down = Append(@, [req |-> conn[i].owes, form |-> "data"])]
    /\ UNCHANGED <<h, caller, pool, reqCanceler, seen, hung>>

ServerHangsUp(i) ==
    /\ hung < h.hangsUp /\ Up(i) /\ Listens(i)
    /\ conn' = [conn EXCEPT ![i].eof = TRUE]
    /\ hung' = hung + 1
    /\ UNCHANGED <<h, caller, pool, reqCanceler, seen>>

CallerStep(c) ==
    \/ GetIdle(c) \/ getIdleConnCh(c) \/ DialCanceled(c) \/ roundTrip(c)
    \/ \E i \in Conns : DialAnswers(c, i)
    \/ WriteFailed(c) \/ ConnClosed(c) \/ MapError(c) \/ CancelNoticed(c) \/ TimerFires(c)
    \/ ReadBody(c) \/ CloseBody(c) \/ BodyReleased(c)
ConnStep(i) ==
    \/ handlePendingDial(i) \/ Peek(i) \/ readResponse(i) \/ Recycle(i) \/ Deliver(i) \/ AwaitBody(i)
    \/ readLoopEnds(i) \/ Write(i) \/ WriteReports(i) \/ writeLoopEnds(i) \/ closeConnIfStillIdle(i)
Surroundings ==
    \/ \E c \in Callers : CancelRequest(c)
    \/ \E i \in Conns : IdleTimerFires(i) \/ ServerAnswers(i) \/ ServerSendsBody(i) \/ ServerHangsUp(i)
    \/ CloseIdleConnections

H1Client == (\E c \in Callers : CallerStep(c)) \/ (\E i \in Conns : ConnStep(i))
H1Next == H1Client \/ Surroundings

-----------------------------------------------------------------------------
InUse(i) == \E c \in Callers : caller[c].conn = i /\ caller[c].pc \in {"start", "wait", "map", "body", "eof"}
Idle(i) == conn[i].r = "peek" /\ conn[i].expected = 0

H1TypeOK ==
    /\ h \in Settings
    /\ \A c \in Callers :
        /\ caller[c].pc \in {"getconn", "join", "select", "start", "wait", "map", "body", "eof", "done"}
        /\ caller[c].hop \in Hops /\ caller[c].conn \in Conns \cup {None}
    /\ \A i \in Conns :
        /\ conn[i].expected \in 0..1
        /\ Len(conn[i].writech) <= 1 /\ Len(conn[i].reqch) <= 1 /\ Len(conn[i].bodyRead) <= 2

(* A caller is given the response, and the body, that the server sent for  *)
(* its own request.                                                        *)
OwnAnswers == \A c \in Callers : caller[c].got \in {NoReq, Req(c)}

(* "canceled" is reported only when somebody cancelled.  A request that is *)
(* not replayable is left out: the readLoop of the connection that failed  *)
(* it may still drop the canceler of its second attempt (transport.go:1568).*)
Cancelled(c) == caller[c].cancel \/ caller[c].asked
Honest == \A c \in Callers : caller[c].err = "canceled" =>
    ~isReplayable(caller[c].method) \/ \E d \in Callers : Cancelled(d)

(* A request that is not replayable reaches a server once at most.         *)
SentOnce ==
    \A c \in Callers : ~isReplayable(caller[c].method) =>
        Cardinality({s \in seen : s[1] = Req(c)}) <= 1

(* The lists of idle connections agree, keep their limits, and hold no     *)
(* connection in use, except one whose bodyless response is still to be    *)
(* delivered: the readLoop gives it to the pool first.                     *)
PoolSound ==
    /\ \A k \in Hosts : /\ IsInjective(pool.idle[k]) /\ Len(pool.idle[k]) <= h.perHost
                         /\ \A i \in Range(pool.idle[k]) : conn[i].key = k
    /\ IsInjective(pool.lru)
    /\ Range(pool.lru) = UNION {Range(pool.idle[k]) : k \in Hosts}
    /\ h.maxIdle # 0 => Len(pool.lru) <= h.maxIdle
    /\ \A i \in Range(pool.lru) :
        \A c \in Callers : caller[c].conn = i => conn[i].r = "deliver" /\ caller[c].pc \in {"wait", "map"}

(* No two callers have one connection, but for that same exception.        *)
OneUser == \A c, d \in Callers :
    (c # d /\ caller[c].conn # None /\ caller[c].conn = caller[d].conn) =>
        \E x \in {c, d} : caller[x].pc \in {"wait", "map"} /\ conn[caller[x].conn].r = "deliver"
                          /\ conn[caller[x].conn].rc = Req(x)

(* An open connection that waits for a request is listed or in use, unless *)
(* its idle timer fired: getIdleConn drops such a connection and           *)
(* closeConnIfStillIdle then leaves it open.                               *)
NoLeak ==
    \A i \in Conns : (conn[i].dial = "up" /\ conn[i].closed = Unset /\ Idle(i) /\ ~conn[i].fired) =>
        i \in Range(pool.lru) \/ InUse(i)

(* A caller whose canceler was dropped by the readLoop of its first        *)
(* connection: the timer cannot end its wait.                              *)
Orphaned(c) == /\ caller[c].pc = "wait" /\ caller[c].told /\ ~isReplayable(caller[c].method)
               /\ reqCanceler[Req(c)] = "none"
(* With a Timeout every Do has returned and no connection is left over.    *)
H1Done == h.timeout =>
    /\ \A c \in h.users : caller[c].pc = "done" \/ Orphaned(c)
    /\ \A i \in Conns : conn[i].closed = Unset /\ conn[i].dial = "up" =>
            i \in Range(pool.lru) \/ conn[i].fired \/ InUse(i)
=============================================================================
