---------------------------- MODULE BoundedReads ----------------------------
(***************************************************************************)
(* ReadAvailableWithOptions and ReadUntilRegex (utility.go): the two loops *)
(* that scanners read answers with, on a TimeoutConnection.  The scanner   *)
(* calls the connection itself, or has one of the loops call it; every     *)
(* step of a loop that reaches the connection is a step of TimeoutConn.    *)
(***************************************************************************)
EXTENDS TimeoutConn, FiniteSetsExt

CONSTANT ReadTimeouts   \* the readTimeouts ReadAvailableWithOptions gets
ASSUME ReadTimeoutsAssumption == ReadTimeouts \subseteq Nat \ {0}

VARIABLES loop,         \* the loop that runs and its variables
          result        \* what the last loop returned

loopVars == <<vars, loop, result>>

(* max is the argument maxReadSize or the length of res, left what is left *)
(* of it, end the total deadline; last is what the last read returned.     *)
NoLoop == [name |-> "none", step |-> "", size |-> 0, max |-> 0, left |-> 0,
           got |-> 0, last |-> 0, wait |-> 0, start |-> 0, base |-> 0]
NoResult == [name |-> "none", err |-> "nil", timed |-> FALSE, matched |-> FALSE,
             max |-> 0, got |-> 0, took |-> 0, time |-> 0]

LoopInit == Init /\ loop = NoLoop /\ result = NoResult

-----------------------------------------------------------------------------
(* What both loops have in common.                                         *)

Reading(step) == loop.step = step /\ pc = "idle"
Then(step) == loop' = [loop EXCEPT !.step = step] /\ UNCHANGED result

(* conn.Read, refused or started; its result is in ret once pc is idle.    *)
CallRead(k) == Read(k) \/ Refuse("read", k)

LoopReturns(l, err, timed, matched) ==
    /\ result' = [name |-> l.name, err |-> err, timed |-> timed,
                  matched |-> matched, max |-> l.max, got |-> l.got,
                  took |-> BytesRead - l.base, time |-> clock - l.start]
    /\ loop' = NoLoop

(* The bytes of a read are appended to what is returned.                   *)
Appended == [loop EXCEPT !.got = @ + ret.n, !.left = @ - ret.n, !.last = ret.n]

Called(name, k, max, wait) ==
    [name |-> name, step |-> "first", size |-> k, max |-> max, left |-> max,
     got |-> 0, last |-> 0, wait |-> wait, start |-> clock, base |-> BytesRead]

-----------------------------------------------------------------------------
(* ReadAvailableWithOptions, with a totalTimeout of 0 as all callers have. *)

IgnoreLeft(l) == l.size                                         \* mutant
BufferFor(l) == Min({l.size, l.left})

ReadAvailable(k, max, wait) ==          \* up to the first read
    /\ loop = NoLoop /\ result = NoResult /\ pc = "idle"
    /\ LET l == Called("available", k, max, wait)
       IN  loop' = l /\ CallRead(BufferFor(l))
    /\ UNCHANGED result

FirstRead ==
    /\ loop.name = "available" /\ Reading("first")
    /\ IF ret.err # "nil" \/ ret.n >= loop.left
       THEN LoopReturns(Appended, ret.err, FALSE, FALSE)
       ELSE loop' = [Appended EXCEPT !.step = "top"] /\ UNCHANGED result
    /\ UNCHANGED vars

(* The deadline of the loop is checked, and the one of the next read set,  *)
(* without a look at the error that an expired session gives.              *)
TotalTimeout == loop.start + Timeout
LoopTop ==
    /\ Reading("top")
    /\ IF TotalTimeout <= clock
       THEN LoopReturns(loop, "totalTimeout", TRUE, FALSE) /\ UNCHANGED vars
       ELSE Then("set") /\ (SetReadDeadline(clock + loop.wait) \/ Refuse("set", 0))

ReadMore ==
    /\ Reading("set")
    /\ Then("more") /\ CallRead(BufferFor(loop))

(* IsTimeoutError: the socket's timeout, and that of the context.          *)
IsTimeoutError(err) == err \in {"timeout", "context"}

(* left is compared after the bytes of the read were subtracted from it.   *)
MoreRead ==
    /\ Reading("more")
    /\ LET l == Appended IN
       IF ret.err # "nil"
       THEN LoopReturns(l, IF IsTimeoutError(ret.err) THEN "nil" ELSE ret.err,
                        IsTimeoutError(ret.err), FALSE)
       ELSE IF ret.n >= l.left THEN LoopReturns(l, "nil", FALSE, FALSE)
       ELSE loop' = [l EXCEPT !.step = "top"] /\ UNCHANGED result
    /\ UNCHANGED vars

-----------------------------------------------------------------------------
(* ReadUntilRegex into a buffer of k bytes.                                *)

ReadUntilRegex(k) ==
    /\ loop = NoLoop /\ result = NoResult /\ pc = "idle"
    /\ loop' = Called("regex", k, k, 0) /\ CallRead(k)
    /\ UNCHANGED result

(* Whether what has been read matches is up to what the peer sent.  A      *)
(* match that fills the buffer is an error all the same.                   *)
RegexSpins ==                                                   \* mutant
    /\ loop.name = "regex" /\ Reading("first")
    /\ \E matched \in BOOLEAN :
         IF matched \/ Appended.left = 0
         THEN LoopReturns(Appended, "nil", FALSE, matched)
         ELSE loop' = [Appended EXCEPT !.step = "again"] /\ UNCHANGED result
    /\ UNCHANGED vars
RegexRead ==
    /\ loop.name = "regex" /\ Reading("first")
    /\ \E matched \in BOOLEAN :
         IF ret.err # "nil" THEN ~matched /\ LoopReturns(Appended, ret.err, FALSE, FALSE)
         ELSE IF Appended.left = 0
              THEN LoopReturns(Appended, "insufficientBuffer", FALSE, matched)
         ELSE IF matched THEN LoopReturns(Appended, "nil", FALSE, TRUE)
         ELSE loop' = [Appended EXCEPT !.step = "again"] /\ UNCHANGED result
    /\ UNCHANGED vars

RegexAgain ==
    /\ Reading("again")
    /\ Then("first") /\ CallRead(loop.left)

-----------------------------------------------------------------------------
LoopStep == \/ FirstRead \/ LoopTop \/ ReadMore \/ MoreRead
            \/ RegexRead \/ RegexAgain

StartLoop == \E k \in Sizes : \/ ReadUntilRegex(k)
                              \/ \E max \in Sizes, wait \in ReadTimeouts :
                                     ReadAvailable(k, max, wait)

(* The socket, the peer and the clock move as before.  The scanner calls   *)
(* the connection as it likes until it calls a loop, and closes it after   *)
(* that: a second loop would start in a state in which a first one can.    *)
Alone(A) == A /\ result = NoResult /\ UNCHANGED <<loop, result>>
Elsewhere == \/ loop = NoLoop /\ Alone(Call)
             \/ Alone(Over)           \* a panic of Read takes the loop with it
             \/ Alone(ReadReturns) \/ Alone(WriteTimesOut) \/ Alone(Tick)
             \/ Alone(WriteDone \/ WriteReset \/ PeerSends \/ PeerCloses)

Finish == result # NoResult /\ (Close \/ Over) /\ UNCHANGED <<loop, result>>

LoopNext == StartLoop \/ LoopStep \/ Elsewhere \/ Finish

LoopSpec == LoopInit /\ [][LoopNext]_loopVars

(* A loop goes on; the rest as in TimeoutConn.                             *)
FairLoopSpec == /\ LoopSpec /\ WF_loopVars(LoopStep)
                /\ WF_loopVars(Alone(Tick)) /\ WF_loopVars(Alone(ReadReturns))
                /\ WF_loopVars(Alone(WriteTimesOut))

-----------------------------------------------------------------------------
(* Properties.                                                             *)

(* A loop never returns, nor holds, more than the maximum it was given,    *)
(* whatever the sizes of the buffer and of the parts that arrive, and      *)
(* returns every byte that it took off the connection, errors or not.      *)
NothingBeyondMax ==
    /\ loop.got <= loop.max /\ loop.got + loop.left = loop.max
    /\ result.got <= result.max /\ result.got = result.took

(* ReadAvailable returns early without a timeout or an error only with at  *)
(* least half of the maximum (utility.go:153 compares with what is left    *)
(* after the read), and reports a timeout of its own only after one.       *)
StopsLate ==
    result.name = "available" =>
      /\ result.err = "nil" /\ ~result.timed => 2 * result.got >= result.max
      /\ result.err = "totalTimeout" => result.time >= Timeout

(* ReadUntilRegex succeeds only on a match, and a match is lost only if it *)
(* fills the buffer (utility.go:175).                                      *)
MatchesReported ==
    result.name = "regex" =>
      /\ result.err = "nil" => result.matched
      /\ result.matched => result.err = "nil" \/ result.got = result.max

(* What the two read loops return is what they read, within their bounds.  *)
LoopsBounded == NothingBeyondMax /\ StopsLate /\ MatchesReported

(* Both loops end against a peer that stalls, trickles or closes: every    *)
(* turn has a deadline, and an expired session is an error of its own.     *)
LoopsEnd == loop # NoLoop ~> (loop = NoLoop \/ pc = "panicked")
-----------------------------------------------------------------------------
(* The inductive strengthening, for the proofs.                            *)

LoopType ==
    loop \in [name : {"none", "available", "regex"},
              step : {"", "first", "top", "set", "more", "again"},
              size : Nat, max : Nat, left : Nat, got : Nat, last : Nat,
              wait : Nat, start : Nat, base : Nat]

(* The counts of a loop, and the steps that each of the loops takes.       *)
LoopCounts ==
    /\ loop.got + loop.left = loop.max /\ loop.start <= clock
    /\ loop.name = "none" => loop = NoLoop
    /\ loop.name = "regex" => loop.step \in {"first", "again"}
    /\ loop.name = "available" => loop.step \in {"first", "top", "set", "more"}
    /\ loop.name = "available" /\ loop.step = "first" => loop.got = 0

(* A loop and its connection: the buffer of the read under way has room in *)
(* what is left, and what was read and not yet appended is in ret.         *)
LoopOnConn ==
    loop # NoLoop =>
      /\ result = NoResult
      /\ pc \in {"idle", "read", "panicked"}
      /\ pc = "read" => /\ loop.step \in {"first", "more"}
                        /\ op.size <= loop.left /\ op.want <= op.size
                        /\ BytesRead = loop.base + loop.got
      /\ pc = "idle" =>
           IF loop.step \in {"first", "more"}
           THEN ret.n <= loop.left /\ BytesRead = loop.base + loop.got + ret.n
           ELSE BytesRead = loop.base + loop.got

ResultBounded == result.got <= result.max /\ result.got = result.took

LoopInv == /\ LoopType /\ LoopCounts /\ LoopOnConn
           /\ ResultBounded /\ StopsLate /\ MatchesReported
=============================================================================
