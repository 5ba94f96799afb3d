---------------------------- MODULE TimeoutConn -----------------------------
(***************************************************************************)
(* TimeoutConnection (conn.go): a net.Conn with a session timeout, a       *)
(* deadline per read and write, and a limit on the bytes it reads; and the *)
(* three ways of making one.                                               *)
(*                                                                         *)
(* One scanner calls the connection, one operation at a time; the peer     *)
(* sends, stalls and closes as it likes; the clock ticks.  The socket      *)
(* below (net.Conn) is external: it returns some of the bytes that have    *)
(* arrived, end of file, or a timeout once its deadline has passed.        *)
(***************************************************************************)
EXTENDS Integers

CONSTANTS
    Kinds,              \* how connections are made: see Kind below
    Timeouts,           \* session timeouts asked for (0 = not set)
    OpTimeouts,         \* read and write timeouts asked for (0 = not set)
    Limits,             \* read limits asked for (0 = not set)
    Actions,            \* ReadLimitExceededActions asked for ("" = not set)
    DefaultSessionTimeout, DefaultBytesReadLimit,
    Sizes,              \* lengths of the buffers the scanner reads into
    Uses,               \* the deadline setters the scanner calls
    MaxClock, MaxSent   \* bounds: when the clock stops, bytes the peer sends

Kind == {"conn", "dial", "context"}
        \* DialTimeoutConnection(Ex), Dialer.Dial, Dialer.DialContext
Setters == {"SetReadDeadline", "SetWriteDeadline", "SetDeadline"}
ReadLimitExceededAction == {"truncate", "error", "panic"}
Never == -1             \* no deadline

ASSUME KindsAssumption == Kinds \subseteq Kind /\ Uses \subseteq Setters
ASSUME TimesAssumption ==
    /\ Timeouts \subseteq Nat /\ OpTimeouts \subseteq Nat
    /\ DefaultSessionTimeout \in Nat \ {0} /\ MaxClock \in Nat
ASSUME BytesAssumption ==
    /\ Limits \subseteq Nat /\ Sizes \subseteq Nat /\ MaxSent \in Nat
    /\ DefaultBytesReadLimit \in Nat \ {0}
ASSUME ActionsAssumption == Actions \subseteq ReadLimitExceededAction \cup {""}

VARIABLES
    clock,
    asked,          \* what the caller of the constructor asked for
    Timeout, ReadTimeout, WriteTimeout,
    BytesReadLimit, OnLimit,        \* fields of the TimeoutConnection
    ctxEnd,         \* when its context expires
    BytesRead,
    explicitReadDeadline, explicitWriteDeadline, explicitDeadline,
    sockRead, sockWrite,            \* the deadlines of the socket
    sent, arrived, eof,             \* bytes sent, unread in the socket; FIN
    pc,             \* "idle", "read", "write", "closed" or "panicked"
    op,             \* the operation under way: its buffer and its start
    ret,            \* what the last operation returned
    wanted          \* deadlines the scanner has set for its next operation

asking == <<asked, Timeout, ReadTimeout, WriteTimeout, BytesReadLimit,
            OnLimit, ctxEnd>>
flags == <<explicitReadDeadline, explicitWriteDeadline, explicitDeadline>>
sock == <<sockRead, sockWrite>>
peer == <<sent, arrived, eof>>
vars == <<clock, asking, BytesRead, flags, sock, peer, pc, op, ret, wanted>>

NoRet == [op |-> "none", size |-> 0, n |-> 0, err |-> "nil"]
NoOp == [size |-> 0, want |-> 0, start |-> 0]
NoWant == [read |-> Never, write |-> Never, both |-> Never]

-----------------------------------------------------------------------------
(* Making a connection.                                                    *)

SetDefault(field, default) == IF field = 0 THEN default ELSE field
SetDefaultAction(a) == IF a = "" THEN "truncate" ELSE a

(* NewTimeoutConnection: the context takes the timeout as it was passed.   *)
NewTimeoutConnection(timeout, rt, wt, limit, action, lag) ==
    /\ Timeout = SetDefault(timeout, DefaultSessionTimeout)
    /\ ReadTimeout = rt /\ WriteTimeout = wt
    /\ BytesReadLimit = SetDefault(limit, DefaultBytesReadLimit)
    /\ OnLimit = SetDefaultAction(action)
    /\ ctxEnd = timeout - lag

(* DialTimeoutConnection and DialTimeoutConnectionEx.                      *)
DialTimeoutConnection ==
    NewTimeoutConnection(asked.timeout, asked.rt, asked.wt, asked.limit, "", 0)

(* Dialer.Dial, after SetDefaults: it passes 0 for the limit.              *)
Dial ==
    NewTimeoutConnection(SetDefault(asked.timeout, DefaultSessionTimeout),
                         asked.rt, asked.wt, 0, "", 0)

(* Dialer.DialContext: the session began when dialing did, lag ago, and    *)
(* the limit and the action are those of the Dialer.                       *)
DialContext ==
    LET t == SetDefault(asked.timeout, DefaultSessionTimeout)
    IN \E lag \in 0..t - 1 :
           NewTimeoutConnection(t, asked.rt, asked.wt, asked.limit,
                                asked.action, lag)

Init ==
    /\ clock = 0
    /\ asked \in [kind : Kinds, timeout : Timeouts, rt : OpTimeouts,
                  wt : OpTimeouts, limit : Limits, action : Actions]
    /\ \/ asked.kind = "conn" /\ DialTimeoutConnection
       \/ asked.kind = "dial" /\ Dial
       \/ asked.kind = "context" /\ DialContext
    /\ BytesRead = 0
    /\ explicitReadDeadline = FALSE /\ explicitWriteDeadline = FALSE
    /\ explicitDeadline = FALSE
    /\ sockRead = Never /\ sockWrite = Never
    /\ sent = 0 /\ arrived = 0 /\ eof = FALSE
    /\ pc = "idle" /\ op = NoOp /\ ret = NoRet /\ wanted = NoWant

-----------------------------------------------------------------------------
(* The operations of the connection, called by the scanner.                *)

NoFallback(field) == field                                      \* mutant
getTimeout(field) == IF field = 0 THEN Timeout ELSE field

(* The deadline a read or write gives the socket, when it has a timeout.   *)
Deadline(field, old) ==
    IF getTimeout(field) > 0 THEN clock + getTimeout(field) ELSE old

(* checkContext: the session is over.                                      *)
NeverExpired == FALSE                                           \* mutant
Expired == clock >= ctxEnd

(* A read, write or setter call on an expired session returns its error.   *)
Refuse(name, k) ==
    /\ pc = "idle" /\ Expired
    /\ ret' = [op |-> name, size |-> k, n |-> 0, err |-> "context"]
    /\ UNCHANGED <<clock, asking, BytesRead, flags, sock, peer, pc, op,
                   wanted>>

(* The part of a k-byte buffer that Read passes to the socket.             *)
ShrinkLate(k) == IF BytesRead >= BytesReadLimit THEN 0 ELSE k   \* mutant
Shrink(k) == IF BytesRead + k >= BytesReadLimit
             THEN BytesReadLimit - BytesRead ELSE k

KeepFlag(b) == b                                                \* mutant
ClearFlag(b) == FALSE

Read(k) ==              \* Read up to the call of c.Conn.Read
    /\ pc = "idle" /\ ~Expired
    /\ IF explicitReadDeadline \/ explicitDeadline
       THEN /\ explicitReadDeadline' = ClearFlag(explicitReadDeadline)
            /\ explicitDeadline' = ClearFlag(explicitDeadline)
            /\ UNCHANGED sockRead
       ELSE /\ sockRead' = Deadline(ReadTimeout, sockRead)
            /\ UNCHANGED <<explicitReadDeadline, explicitDeadline>>
    /\ op' = [size |-> k, want |-> Shrink(k), start |-> clock]
    /\ pc' = "read"
    /\ UNCHANGED <<clock, asking, BytesRead, explicitWriteDeadline, sockWrite,
                   peer, ret, wanted>>

(* The buffer was shrunk and the socket filled it.                         *)
AnyShrunkRead(n) == op.size # op.want                           \* mutant
Truncated(n) == op.size # op.want /\ n = op.want

(* c.Conn.Read returns n bytes with or without an error, and Read returns. *)
Return(n, err) ==
    /\ pc = "read"
    /\ BytesRead' = BytesRead + n
    /\ arrived' = arrived - n
    /\ IF err = "nil" /\ Truncated(n)
       THEN /\ pc' = IF OnLimit = "panic" THEN "panicked" ELSE "idle"
            /\ ret' = [op |-> "read", size |-> op.size, n |-> n,
                       err |-> IF OnLimit = "error" THEN "limit" ELSE "EOF"]
       ELSE /\ pc' = "idle"
            /\ ret' = [op |-> "read", size |-> op.size, n |-> n, err |-> err]
    /\ op' = NoOp
    /\ wanted' = [wanted EXCEPT !.read = Never, !.both = Never]
    /\ UNCHANGED <<clock, asking, flags, sock, sent, eof>>

(* What the socket does with a read: an empty buffer returns at once, a    *)
(* deadline that had passed before fails it, otherwise data or the end of  *)
(* the connection return, and at the deadline either may come first.       *)
Missed(deadline) == deadline # Never /\ deadline < op.start
Due(deadline) == deadline # Never /\ deadline <= clock

ReadEmpty == op.want = 0 /\ Return(0, "nil")
ReadSome == /\ ~Missed(sockRead)
            /\ \E n \in 1..op.want : n <= arrived /\ Return(n, "nil")
ReadEnds == /\ ~Missed(sockRead)
            /\ op.want > 0 /\ arrived = 0 /\ eof
            /\ \E err \in {"EOF", "reset"} : Return(0, err)
ReadTimesOut == op.want > 0 /\ Due(sockRead) /\ Return(0, "timeout")
ReadReturns == ReadEmpty \/ ReadSome \/ ReadEnds \/ ReadTimesOut

Write ==                \* Write up to the call of c.Conn.Write
    /\ pc = "idle" /\ ~Expired
    /\ IF explicitWriteDeadline \/ explicitDeadline
       THEN /\ explicitWriteDeadline' = ClearFlag(explicitWriteDeadline)
            /\ explicitDeadline' = ClearFlag(explicitDeadline)
            /\ UNCHANGED sockWrite
       ELSE /\ sockWrite' = Deadline(WriteTimeout, sockWrite)
            /\ UNCHANGED <<explicitWriteDeadline, explicitDeadline>>
    /\ op' = [size |-> 1, want |-> 1, start |-> clock]
    /\ pc' = "write"
    /\ UNCHANGED <<clock, asking, BytesRead, explicitReadDeadline, sockRead,
                   peer, ret, wanted>>

WriteReturns(n, err) ==     \* c.Conn.Write returns, and Write with it
    /\ pc = "write"
    /\ ret' = [op |-> "write", size |-> 1, n |-> n, err |-> err]
    /\ pc' = "idle"
    /\ op' = NoOp
    /\ wanted' = [wanted EXCEPT !.write = Never, !.both = Never]
    /\ UNCHANGED <<clock, asking, BytesRead, flags, sock, peer>>

(* A peer that does not read blocks the write; nothing makes it read.      *)
WriteDone == ~Missed(sockWrite) /\ WriteReturns(1, "nil")
WriteReset == ~Missed(sockWrite) /\ eof /\ WriteReturns(0, "reset")
WriteTimesOut == Due(sockWrite) /\ WriteReturns(0, "timeout")

(* The three setters; a deadline of Never is the zero time.Time.           *)
SetReadDeadline(d) ==
    /\ "SetReadDeadline" \in Uses
    /\ pc = "idle" /\ ~Expired
    /\ sockRead' = IF d = Never THEN sockRead ELSE d
    /\ explicitReadDeadline' = (d # Never)
    /\ wanted' = [wanted EXCEPT !.read = d]
    /\ UNCHANGED <<clock, asking, BytesRead, explicitWriteDeadline,
                   explicitDeadline, sockWrite, peer, pc, op, ret>>

SetWriteDeadline(d) ==
    /\ "SetWriteDeadline" \in Uses
    /\ pc = "idle" /\ ~Expired
    /\ sockWrite' = IF d = Never THEN sockWrite ELSE d
    /\ explicitWriteDeadline' = (d = Never)
    /\ wanted' = [wanted EXCEPT !.write = d]
    /\ UNCHANGED <<clock, asking, BytesRead, explicitReadDeadline,
                   explicitDeadline, sockRead, peer, pc, op, ret>>

SetDeadline(d) ==
    /\ "SetDeadline" \in Uses
    /\ pc = "idle" /\ ~Expired
    /\ sockRead' = IF d = Never THEN sockRead ELSE d
    /\ sockWrite' = IF d = Never THEN sockWrite ELSE d
    /\ explicitDeadline' = (d = Never)
    /\ wanted' = [wanted EXCEPT !.both = d]
    /\ UNCHANGED <<clock, asking, BytesRead, explicitReadDeadline,
                   explicitWriteDeadline, peer, pc, op, ret>>

Close ==                \* the scanner is done with the connection
    /\ pc = "idle"
    /\ pc' = "closed"
    /\ UNCHANGED <<clock, asking, BytesRead, flags, sock, peer, op, ret,
                   wanted>>

Deadlines == {Never} \cup 1..MaxClock

Call == \/ \E k \in Sizes : Read(k) \/ Refuse("read", k)
        \/ Write \/ Refuse("write", 1) \/ Refuse("set", 0)
        \/ \E d \in Deadlines :
               SetReadDeadline(d) \/ SetWriteDeadline(d) \/ SetDeadline(d)
        \/ Close

-----------------------------------------------------------------------------
(* The peer and the clock.                                                 *)

PeerSends ==
    /\ sent < MaxSent /\ ~eof
    /\ sent' = sent + 1 /\ arrived' = arrived + 1
    /\ UNCHANGED <<clock, asking, BytesRead, flags, sock, eof, pc, op, ret,
                   wanted>>

PeerCloses ==
    /\ ~eof /\ eof' = TRUE
    /\ UNCHANGED <<clock, asking, BytesRead, flags, sock, sent, arrived, pc,
                   op, ret, wanted>>

(* The timer of a deadline fires on time: the clock does not run past the  *)
(* deadline of an operation that is under way.                             *)
Overdue == \/ pc = "read" /\ Due(sockRead)
           \/ pc = "write" /\ Due(sockWrite)

Tick ==
    /\ clock < MaxClock /\ ~Overdue
    /\ pc \notin {"closed", "panicked"}
    /\ clock' = clock + 1
    /\ UNCHANGED <<asking, BytesRead, flags, sock, peer, pc, op, ret, wanted>>

(* The scanner has closed the connection, or is gone.                      *)
Over == pc \in {"closed", "panicked"} /\ UNCHANGED vars

Next == \/ Call \/ ReadReturns \/ WriteDone \/ WriteReset \/ WriteTimesOut
        \/ PeerSends \/ PeerCloses \/ Tick \/ Over

Spec == Init /\ [][Next]_vars

(* Time passes, the runtime completes a read that can complete, and it     *)
(* fails a write at its deadline.                                          *)
FairSpec == Spec /\ WF_vars(Tick) /\ WF_vars(ReadReturns)
                 /\ WF_vars(WriteTimesOut)

-----------------------------------------------------------------------------
(* Properties.                                                             *)

Errors == {"nil", "EOF", "reset", "limit", "timeout", "context"}

(* Every variable has its type.                                            *)
TypeOK ==
    /\ clock \in Nat
    /\ asked \in [kind : Kinds, timeout : Timeouts, rt : OpTimeouts,
                  wt : OpTimeouts, limit : Limits, action : Actions]
    /\ Timeout \in Nat \ {0} /\ ReadTimeout \in Nat /\ WriteTimeout \in Nat
    /\ BytesReadLimit \in Nat \ {0} /\ OnLimit \in ReadLimitExceededAction
    /\ ctxEnd \in Nat
    /\ BytesRead \in Nat
    /\ explicitReadDeadline \in BOOLEAN /\ explicitWriteDeadline \in BOOLEAN
    /\ explicitDeadline \in BOOLEAN
    /\ sockRead \in Nat \cup {Never} /\ sockWrite \in Nat \cup {Never}
    /\ sent \in Nat /\ arrived \in Nat /\ eof \in BOOLEAN
    /\ pc \in {"idle", "read", "write", "closed", "panicked"}
    /\ op \in [size : Nat, want : Nat, start : Nat]
    /\ ret \in [op : {"none", "read", "write", "set"}, size : Nat, n : Nat,
                err : Errors]
    /\ wanted \in [read : Nat \cup {Never}, write : Nat \cup {Never},
                   both : Nat \cup {Never}]

(* Read never takes more than BytesReadLimit bytes off the socket, however *)
(* the buffers are sized and the bytes arrive; what it has not taken is    *)
(* still there.                                                            *)
LimitRespected ==
    /\ BytesRead <= BytesReadLimit
    /\ BytesRead + arrived = sent

(* Read never returns 0 bytes and no error for a buffer that has room, on  *)
(* which a loop like that of ReadUntilRegex would spin: at the limit the   *)
(* empty read of the socket becomes an end of file or an error.            *)
NoEmptyRead ==
    ret.op = "read" /\ ret.n = 0 /\ ret.err = "nil" => ret.size = 0

(* The limit is reported only when it has been reached, and an end of file *)
(* that the peer did not cause stands for the limit.                       *)
BogusEOFOnlyAtLimit ==
    ret.op = "read" /\ (ret.err = "limit" \/ (ret.err = "EOF" /\ ~eof))
        => BytesRead = BytesReadLimit

(* The longest an operation may take: its own timeout, or the session's.   *)
OpTimeout(field) == IF field > 0 THEN field ELSE Timeout

(* A deadline set with SetReadDeadline holds for the next Read and for     *)
(* that one only; every other Read has the timeout of the connection.      *)
(* (For a scanner that uses no other setter, as those in modules/ do.)     *)
ReadDeadlineOneShot ==
    pc = "read" => sockRead = IF wanted.read # Never THEN wanted.read
                              ELSE op.start + OpTimeout(ReadTimeout)

(* No operation is under way later than one read or write timeout after    *)
(* the end of the session, unless the scanner set a later deadline itself. *)
SessionOvershoot ==
    /\ pc = "read" /\ wanted.read = Never =>
           clock <= ctxEnd + OpTimeout(ReadTimeout)
    /\ pc = "write" => clock <= ctxEnd + OpTimeout(WriteTimeout)

(* Every Read and every Write returns: a peer that stalls cannot hold a    *)
(* sender goroutine.                                                       *)
OperationsReturn ==
    /\ pc = "read" ~> pc # "read"
    /\ pc = "write" ~> pc # "write"

-----------------------------------------------------------------------------
(* Inductive strengthenings, for the proofs.                               *)

(* LimitRespected, NoEmptyRead and BogusEOFOnlyAtLimit rest on what the    *)
(* buffer of a read under way may still take.                              *)
LimitInv ==
    /\ LimitRespected /\ NoEmptyRead /\ BogusEOFOnlyAtLimit
    /\ pc = "read" => /\ op.want <= BytesReadLimit - BytesRead
                      /\ op.want # op.size =>
                             op.want = BytesReadLimit - BytesRead

(* ReadDeadlineOneShot and SessionOvershoot rest on the explicit flags     *)
(* saying what the scanner set, and on operations starting in the session. *)
DeadlineInv ==
    /\ ~explicitDeadline /\ ~explicitWriteDeadline
    /\ pc # "read" =>
           /\ explicitReadDeadline <=> wanted.read # Never
           /\ wanted.read # Never => sockRead = wanted.read
    /\ pc = "read" => ~explicitReadDeadline /\ ReadDeadlineOneShot
    /\ pc = "write" => sockWrite = op.start + OpTimeout(WriteTimeout)
    /\ pc \in {"read", "write"} => op.start < ctxEnd
    /\ pc = "read" /\ wanted.read = Never => clock <= sockRead
    /\ pc = "write" => clock <= sockWrite
=============================================================================
