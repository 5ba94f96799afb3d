-------------------------- MODULE TimeoutConnProofs --------------------------
(***************************************************************************)
(* Proofs about TimeoutConn, for any timeouts, limits, buffers and peer,   *)
(* and then about BoundedReads on top of it.                               *)
(***************************************************************************)
EXTENDS BoundedReads, TLAPS

(* The type of the fields that a constructor sets.                         *)
Made ==
    /\ Timeout \in Nat \ {0} /\ ReadTimeout \in Nat /\ WriteTimeout \in Nat
    /\ BytesReadLimit \in Nat \ {0} /\ OnLimit \in ReadLimitExceededAction
    /\ ctxEnd \in Nat

LEMMA Difference == \A n \in Nat : \A l \in 0..n : n - l \in Nat
OBVIOUS

(* SetDefaults gives every field a proper value, whatever was asked for.   *)
LEMMA NewType ==
    ASSUME NEW t \in Nat, NEW rt \in Nat, NEW wt \in Nat, NEW limit \in Nat,
           NEW action \in Actions \cup {""}, NEW lag \in 0..t,
           NewTimeoutConnection(t, rt, wt, limit, action, lag)
    PROVE  Made
<1>1. OnLimit \in ReadLimitExceededAction
    BY ActionsAssumption
       DEF NewTimeoutConnection, SetDefaultAction, ReadLimitExceededAction
<1>2. Timeout \in Nat \ {0} /\ BytesReadLimit \in Nat \ {0}
    BY TimesAssumption, BytesAssumption DEF NewTimeoutConnection, SetDefault
<1>3. ctxEnd = t - lag /\ ReadTimeout = rt /\ WriteTimeout = wt
    BY DEF NewTimeoutConnection
<1>4. t - lag \in Nat
    BY Difference
<1>5. QED
    BY <1>1, <1>2, <1>3, <1>4 DEF Made

(* The three constructors.                                                 *)
LEMMA InitMade == Init => Made
<1> SUFFICES ASSUME Init PROVE Made
    OBVIOUS
<1>0. /\ asked.timeout \in Nat /\ asked.rt \in Nat /\ asked.wt \in Nat
      /\ asked.limit \in Nat /\ asked.action \in Actions \cup {""}
    BY TimesAssumption, BytesAssumption DEF Init
<1> DEFINE t == SetDefault(asked.timeout, DefaultSessionTimeout)
<1>t. t \in Nat \ {0}
    BY <1>0, TimesAssumption DEF SetDefault
<1> HIDE DEF t
<1>1. CASE DialTimeoutConnection
  <2>1. NewTimeoutConnection(asked.timeout, asked.rt, asked.wt, asked.limit,
                             "", 0)
    BY <1>1 DEF DialTimeoutConnection
  <2>2. \A n \in Nat : 0 \in 0..n
    OBVIOUS
  <2>3. 0 \in 0..asked.timeout /\ "" \in Actions \cup {""}
    BY <1>0, <2>2
  <2>4. QED
    BY <1>0, <2>1, <2>3, NewType
<1>2. CASE Dial
  <2>1. NewTimeoutConnection(t, asked.rt, asked.wt, 0, "", 0)
    BY <1>2 DEF Dial, t
  <2>2. 0 \in 0..t /\ 0 \in Nat /\ t \in Nat /\ "" \in Actions \cup {""}
    BY <1>t
  <2>3. QED
    BY <1>0, <2>1, <2>2, NewType
<1>3. CASE DialContext
  <2>1. PICK lag \in 0..t - 1 :
            NewTimeoutConnection(t, asked.rt, asked.wt, asked.limit,
                                 asked.action, lag)
    BY <1>3 DEF DialContext, t
  <2>2. lag \in 0..t /\ t \in Nat
    BY <1>t
  <2>3. QED
    BY <1>0, <2>1, <2>2, NewType
<1> QED
    BY <1>1, <1>2, <1>3 DEF Init

LEMMA InitType == Init => TypeOK
<1> SUFFICES ASSUME Init PROVE TypeOK
    OBVIOUS
<1>1. Made
    BY InitMade
<1>2. op \in [size : Nat, want : Nat, start : Nat]
    BY DEF Init, NoOp
<1>3. ret \in [op : {"none", "read", "write", "set"}, size : Nat, n : Nat,
              err : Errors]
    BY DEF Init, NoRet, Errors
<1>4. wanted \in [read : Nat \cup {Never}, write : Nat \cup {Never},
                 both : Nat \cup {Never}]
    BY DEF Init, NoWant
<1>5. QED
    BY <1>1, <1>2, <1>3, <1>4 DEF Init, TypeOK, Made

(* What a step that leaves the fields of the connection alone must show.   *)
Kept == UNCHANGED asking

LEMMA MadeKept == TypeOK /\ Kept =>
    /\ asked' \in [kind : Kinds, timeout : Timeouts, rt : OpTimeouts,
                   wt : OpTimeouts, limit : Limits, action : Actions]
    /\ Made'
BY DEF TypeOK, Kept, asking, Made

(* The rest of the state, in the order of TypeOK.                          *)
Rest ==
    /\ clock \in Nat
    /\ BytesRead \in Nat
    /\ explicitReadDeadline \in BOOLEAN /\ explicitWriteDeadline \in BOOLEAN
    /\ explicitDeadline \in BOOLEAN
    /\ sockRead \in Nat \cup {Never} /\ sockWrite \in Nat \cup {Never}
    /\ sent \in Nat /\ arrived \in Nat /\ eof \in BOOLEAN
    /\ pc \in {"idle", "read", "write", "closed", "panicked"}
    /\ op \in [size : Nat, want : Nat, start : Nat]
    /\ ret \in [op : {"none", "read", "write", "set"}, size : Nat, n : Nat,
                err : Errors]
    /\ wanted \in [read : Nat \cup {Never}, write : Nat \cup {Never},
                   both : Nat \cup {Never}]

LEMMA TypeParts == TypeOK => Rest /\ Made
BY DEF TypeOK, Rest, Made

LEMMA TypeWhole == TypeOK /\ Kept /\ Rest' => TypeOK'
BY MadeKept DEF TypeOK, Rest, Made

(* A deadline computed from a timeout is a time.                           *)
LEMMA DeadlineType ==
    ASSUME TypeOK, NEW field \in Nat, NEW old \in Nat \cup {Never}
    PROVE  Deadline(field, old) \in Nat \cup {Never}
BY DEF TypeOK, Deadline, getTimeout, Never

(* The buffer of a read is no longer than what the limit leaves.           *)
LEMMA ShrinkBound ==
    ASSUME TypeOK, LimitInv, NEW k \in Nat
    PROVE  /\ Shrink(k) \in Nat
           /\ Shrink(k) <= BytesReadLimit - BytesRead
           /\ Shrink(k) # k => Shrink(k) = BytesReadLimit - BytesRead
BY DEF TypeOK, LimitInv, LimitRespected, Shrink

LEMMA ReadType ==
    ASSUME TypeOK, LimitInv, NEW k \in Nat, Read(k)
    PROVE  Rest' /\ Kept
<1>2. [size |-> k, want |-> Shrink(k), start |-> clock]
          \in [size : Nat, want : Nat, start : Nat]
    BY ShrinkBound, TypeParts DEF Rest
<1>3. sockRead' \in Nat \cup {Never}
    BY DeadlineType DEF TypeOK, Read
<1>4. /\ explicitReadDeadline' \in BOOLEAN
      /\ explicitDeadline' \in BOOLEAN
    BY DEF TypeOK, Read, ClearFlag
<1>5. QED
    BY <1>2, <1>3, <1>4 DEF TypeOK, Rest, Read, Kept, peer

LEMMA WriteType ==
    ASSUME TypeOK, Write
    PROVE  Rest' /\ Kept
<1>1. [size |-> 1, want |-> 1, start |-> clock]
          \in [size : Nat, want : Nat, start : Nat]
    BY DEF TypeOK
<1>2. sockWrite' \in Nat \cup {Never}
    BY DeadlineType DEF TypeOK, Write
<1>3. /\ explicitWriteDeadline' \in BOOLEAN
      /\ explicitDeadline' \in BOOLEAN
    BY DEF TypeOK, Write, ClearFlag
<1>4. QED
    BY <1>1, <1>2, <1>3 DEF TypeOK, Rest, Write, Kept, peer

(* A read takes n bytes off those that have arrived.                       *)
LEMMA ReturnType ==
    ASSUME TypeOK, NEW n \in Nat, n <= arrived, NEW err \in Errors,
           Return(n, err)
    PROVE  Rest' /\ Kept
<1>1. BytesRead' \in Nat /\ arrived' \in Nat
    BY DEF TypeOK, Return
<1>2. op' \in [size : Nat, want : Nat, start : Nat]
    BY DEF Return, NoOp
<1>3. ret' \in [op : {"none", "read", "write", "set"}, size : Nat, n : Nat,
               err : Errors]
  <2>1. op.size \in Nat
    BY DEF TypeOK
  <2>2. QED
    BY <2>1 DEF Return, Errors
<1>4. wanted' \in [read : Nat \cup {Never}, write : Nat \cup {Never},
                  both : Nat \cup {Never}]
    BY DEF TypeOK, Return
<1>5. pc' \in {"idle", "read", "write", "closed", "panicked"}
    BY DEF Return
<1>6. QED
    BY <1>1, <1>2, <1>3, <1>4, <1>5
       DEF TypeOK, Rest, Return, Kept, flags, sock

LEMMA ReadReturnsCases ==
    ASSUME TypeOK, ReadReturns
    PROVE  \E n \in Nat, err \in Errors :
               /\ n <= arrived /\ n <= op.want /\ Return(n, err)
               /\ n = 0 /\ err = "nil" => op.want = 0
               /\ err = "EOF" => eof
               /\ err # "limit"
<1>0. arrived \in Nat /\ op.want \in Nat
    BY DEF TypeOK
<1>1. CASE ReadEmpty
    BY <1>0, <1>1 DEF ReadEmpty, Errors
<1>2. CASE ReadSome
    BY <1>0, <1>2 DEF ReadSome, Errors
<1>3. CASE ReadEnds
    BY <1>0, <1>3 DEF ReadEnds, Errors
<1>4. CASE ReadTimesOut
    BY <1>0, <1>4 DEF ReadTimesOut, Errors
<1> QED
    BY <1>1, <1>2, <1>3, <1>4 DEF ReadReturns

(* c.Conn.Write returns, with what it returns.                             *)
WriteEnds == \E n \in 0..1, err \in {"nil", "reset", "timeout"} :
                 WriteReturns(n, err)

LEMMA WriteEndsType == ASSUME TypeOK, WriteEnds PROVE Rest' /\ Kept
<1>1. PICK n \in 0..1, err \in {"nil", "reset", "timeout"} :
          WriteReturns(n, err)
    BY DEF WriteEnds
<1>2. op' \in [size : Nat, want : Nat, start : Nat]
    BY <1>1 DEF WriteReturns, NoOp
<1>3. ret' \in [op : {"none", "read", "write", "set"}, size : Nat, n : Nat,
               err : Errors]
    BY <1>1 DEF WriteReturns, Errors
<1>4. wanted' \in [read : Nat \cup {Never}, write : Nat \cup {Never},
                  both : Nat \cup {Never}]
    BY <1>1 DEF TypeOK, WriteReturns
<1>5. QED
    BY <1>1, <1>2, <1>3, <1>4
       DEF TypeOK, Rest, WriteReturns, Kept, flags, sock, peer

(* A call that an expired session refuses.                                 *)
Refusal == \E name \in {"read", "write", "set"}, k \in Nat : Refuse(name, k)

LEMMA RefusalType == ASSUME TypeOK, Refusal PROVE Rest' /\ Kept
<1>1. PICK name \in {"read", "write", "set"}, k \in Nat : Refuse(name, k)
    BY DEF Refusal
<1>2. ret' \in [op : {"none", "read", "write", "set"}, size : Nat, n : Nat,
               err : Errors]
    BY <1>1 DEF Refuse, Errors
<1>3. QED
    BY <1>1, <1>2 DEF TypeOK, Rest, Refuse, Kept, flags, sock, peer

(* A setter.                                                               *)
Setting == \E d \in Nat \cup {Never} :
               SetReadDeadline(d) \/ SetWriteDeadline(d) \/ SetDeadline(d)

LEMMA SettingType == ASSUME TypeOK, Setting PROVE Rest' /\ Kept
<1>1. PICK d \in Nat \cup {Never} :
          SetReadDeadline(d) \/ SetWriteDeadline(d) \/ SetDeadline(d)
    BY DEF Setting
<1>3. wanted' \in [read : Nat \cup {Never}, write : Nat \cup {Never},
                  both : Nat \cup {Never}]
    BY <1>1
       DEF TypeOK, SetReadDeadline, SetWriteDeadline, SetDeadline
<1>4. sockRead' \in Nat \cup {Never} /\ sockWrite' \in Nat \cup {Never}
    BY <1>1
       DEF TypeOK, SetReadDeadline, SetWriteDeadline, SetDeadline
<1>5. /\ explicitReadDeadline' \in BOOLEAN
      /\ explicitWriteDeadline' \in BOOLEAN
      /\ explicitDeadline' \in BOOLEAN
    BY <1>1 DEF TypeOK, SetReadDeadline, SetWriteDeadline, SetDeadline
<1>6. QED
    BY <1>1, <1>3, <1>4, <1>5 DEF TypeOK, Rest, SetReadDeadline,
       SetWriteDeadline, SetDeadline, Kept, peer

(* The steps that touch no operation: Close, the peer and the clock.       *)
Around == Close \/ PeerSends \/ PeerCloses \/ Tick

LEMMA AroundType == ASSUME TypeOK, Around PROVE Rest' /\ Kept
<1>1. CASE Close
    BY <1>1 DEF TypeOK, Rest, Close, Kept, flags, sock, peer
<1>2. CASE PeerSends
    BY <1>2 DEF TypeOK, Rest, PeerSends, Kept, flags, sock
<1>3. CASE PeerCloses
    BY <1>3 DEF TypeOK, Rest, PeerCloses, Kept, flags, sock
<1>4. CASE Tick
    BY <1>4 DEF TypeOK, Rest, Tick, Kept, flags, sock, peer
<1> QED
    BY <1>1, <1>2, <1>3, <1>4 DEF Around

(* A step of the connection for any buffer and any deadline: those of      *)
(* Next, and those that a read loop takes on the connection.               *)
AnyStep == \/ \E k \in Nat : Read(k)
           \/ Write \/ Refusal \/ Setting \/ Around
           \/ ReadReturns \/ WriteEnds

LEMMA WriteCases == WriteDone \/ WriteReset \/ WriteTimesOut => WriteEnds
BY DEF WriteDone, WriteReset, WriteTimesOut, WriteEnds

LEMMA CallCases == Call => AnyStep
<1>1. \A d \in Deadlines : d \in Nat \cup {Never}
    BY TimesAssumption DEF Deadlines
<1>2. QED
    BY <1>1, BytesAssumption DEF Call, Refusal, Setting, Around, AnyStep

LEMMA NextCases == [Next]_vars => [AnyStep]_vars
BY CallCases, WriteCases DEF Next, Around, Over, AnyStep

LEMMA StepType == TypeOK /\ LimitInv /\ [AnyStep]_vars => TypeOK'
<1> SUFFICES ASSUME TypeOK, LimitInv, [AnyStep]_vars PROVE TypeOK'
    OBVIOUS
<1>1. CASE UNCHANGED vars
    BY <1>1 DEF TypeOK, vars, asking, flags, sock, peer
<1>2. CASE ReadReturns
  <2>1. PICK n \in Nat, err \in Errors : n <= arrived /\ Return(n, err)
    BY <1>2, ReadReturnsCases
  <2>2. QED
    BY <2>1, ReturnType, TypeWhole
<1> QED
    BY <1>1, <1>2, ReadType, WriteType, RefusalType, SettingType,
       AroundType, WriteEndsType, TypeWhole DEF AnyStep

-----------------------------------------------------------------------------
(* The limit.                                                              *)

(* Starting a read: the buffer was cut to what the limit leaves.           *)
LEMMA ReadLimit ==
    ASSUME TypeOK, LimitInv, NEW k \in Nat, Read(k)
    PROVE  LimitInv'
<1>2. op'.want = Shrink(k) /\ op'.size = k
    BY DEF Read
<1>3. UNCHANGED <<BytesRead, BytesReadLimit, peer, ret>>
    BY DEF Read, asking
<1>4. /\ op'.want <= BytesReadLimit' - BytesRead'
      /\ op'.want # op'.size => op'.want = BytesReadLimit' - BytesRead'
    BY <1>2, <1>3, ShrinkBound
<1>5. QED
    BY <1>3, <1>4 DEF LimitInv, LimitRespected, NoEmptyRead,
       BogusEOFOnlyAtLimit, peer

(* Returning from it: at the limit an empty or full read is reported.      *)
LEMMA ReturnLimit ==
    ASSUME TypeOK, LimitInv, ReadReturns
    PROVE  LimitInv'
<1>1. PICK n \in Nat, err \in Errors :
          /\ n <= arrived /\ n <= op.want /\ Return(n, err)
          /\ n = 0 /\ err = "nil" => op.want = 0
          /\ err = "EOF" => eof
          /\ err # "limit"
    BY ReadReturnsCases
<1>2. /\ pc = "read" /\ BytesRead' = BytesRead + n
      /\ arrived' = arrived - n
      /\ UNCHANGED <<BytesReadLimit, sent, eof>>
      /\ pc' # "read"
    BY <1>1 DEF Return, asking
<1>3. LimitRespected'
    BY <1>1, <1>2 DEF TypeOK, LimitInv, LimitRespected
<1>4. CASE err = "nil" /\ Truncated(n)
  <2>1. ret'.err \in {"limit", "EOF"}
    BY <1>1, <1>4 DEF Return
  <2>2. BytesRead' = BytesReadLimit'
    BY <1>2, <1>4 DEF TypeOK, LimitInv, Truncated
  <2>3. QED
    BY <1>2, <1>3, <2>1, <2>2 DEF LimitInv, NoEmptyRead, BogusEOFOnlyAtLimit
<1>5. CASE ~(err = "nil" /\ Truncated(n))
  <2>1. ret' = [op |-> "read", size |-> op.size, n |-> n, err |-> err]
    BY <1>1, <1>5 DEF Return
  <2>2. ret'.n = n /\ ret'.err = err /\ ret'.size = op.size
    BY <2>1
  <2>3. n = 0 /\ err = "nil" => op.size = 0
    BY <1>1, <1>5 DEF Truncated
  <2>4. NoEmptyRead'
    BY <2>2, <2>3 DEF NoEmptyRead
  <2>5. BogusEOFOnlyAtLimit'
    BY <1>1, <1>2, <2>2 DEF BogusEOFOnlyAtLimit
  <2>6. QED
    BY <1>2, <1>3, <2>4, <2>5 DEF LimitInv
<1> QED
    BY <1>4, <1>5

LEMMA StepLimit == TypeOK /\ LimitInv /\ [AnyStep]_vars => LimitInv'
<1> SUFFICES ASSUME TypeOK, LimitInv, [AnyStep]_vars PROVE LimitInv'
    OBVIOUS
<1> USE DEF LimitInv, LimitRespected, NoEmptyRead, BogusEOFOnlyAtLimit
<1>1. CASE Write
    BY <1>1 DEF Write, asking, peer
<1>2. CASE Refusal
    BY <1>2 DEF Refusal, Refuse, asking, peer
<1>3. CASE Setting
    BY <1>3 DEF Setting, SetReadDeadline, SetWriteDeadline, SetDeadline,
       asking, peer
<1>4. CASE Around
  <2>1. CASE Close
    BY <2>1 DEF Close, asking, peer
  <2>2. CASE PeerSends
    BY <2>2 DEF PeerSends, asking, TypeOK
  <2>3. CASE PeerCloses
    BY <2>3 DEF PeerCloses, asking
  <2>4. CASE Tick
    BY <2>4 DEF Tick, asking, peer
  <2> QED
    BY <1>4, <2>1, <2>2, <2>3, <2>4 DEF Around
<1>5. CASE WriteEnds
    BY <1>5 DEF WriteEnds, WriteReturns, asking, peer
<1>6. CASE UNCHANGED vars
    BY <1>6 DEF vars, asking, peer
<1> QED
    BY <1>1, <1>2, <1>3, <1>4, <1>5, <1>6, ReadLimit, ReturnLimit
       DEF AnyStep

LEMMA InitLimit == Init => LimitInv
<1> SUFFICES ASSUME Init PROVE LimitInv
    OBVIOUS
<1>1. BytesReadLimit \in Nat
    BY InitMade DEF Made
<1>2. QED
    BY <1>1 DEF Init, LimitInv, LimitRespected, NoEmptyRead,
       BogusEOFOnlyAtLimit, NoRet

(* Every variable keeps its type: in particular the buffer that Read cuts  *)
(* (conn.go:72) never gets a negative length.                              *)
THEOREM TypeCorrect == Spec => []TypeOK
<1>1. Init => TypeOK /\ LimitInv
    BY InitType, InitLimit
<1>2. TypeOK /\ LimitInv /\ [Next]_vars => TypeOK' /\ LimitInv'
    BY NextCases, StepType, StepLimit
<1>3. QED
    BY <1>1, <1>2, PTL DEF Spec

(* No Read of any sequence of calls takes the connection past its limit,   *)
(* and no byte is lost or read twice.                                      *)
THEOREM Limit == Spec => []LimitRespected
<1>1. Init => TypeOK /\ LimitInv
    BY InitType, InitLimit
<1>2. TypeOK /\ LimitInv /\ [Next]_vars => TypeOK' /\ LimitInv'
    BY NextCases, StepType, StepLimit
<1>3. LimitInv => LimitRespected
    BY DEF LimitInv
<1>4. QED
    BY <1>1, <1>2, <1>3, PTL DEF Spec

(* No Read returns nothing without an error, and the limit is reported     *)
(* only when it was reached (conn.go:84-97).                               *)
THEOREM ReadsReport == Spec => [](NoEmptyRead /\ BogusEOFOnlyAtLimit)
<1>1. Init => TypeOK /\ LimitInv
    BY InitType, InitLimit
<1>2. TypeOK /\ LimitInv /\ [Next]_vars => TypeOK' /\ LimitInv'
    BY NextCases, StepType, StepLimit
<1>3. LimitInv => NoEmptyRead /\ BogusEOFOnlyAtLimit
    BY DEF LimitInv
<1>4. QED
    BY <1>1, <1>2, <1>3, PTL DEF Spec

-----------------------------------------------------------------------------
(* The deadlines, for a scanner that uses SetReadDeadline only.            *)

ReadSetterOnly == Uses \subseteq {"SetReadDeadline"}

LEMMA TimeoutType ==
    ASSUME TypeOK
    PROVE  /\ OpTimeout(ReadTimeout) \in Nat
           /\ OpTimeout(WriteTimeout) \in Nat
           /\ \A old : /\ Deadline(ReadTimeout, old)
                            = clock + OpTimeout(ReadTimeout)
                        /\ Deadline(WriteTimeout, old)
                            = clock + OpTimeout(WriteTimeout)
<1>1. /\ ReadTimeout \in Nat /\ WriteTimeout \in Nat
      /\ Timeout \in Nat \ {0} /\ clock \in Nat
    BY DEF TypeOK
<1>2. \A f \in Nat : getTimeout(f) = OpTimeout(f) /\ OpTimeout(f) > 0
                                               /\ OpTimeout(f) \in Nat
    BY <1>1 DEF OpTimeout, getTimeout
<1>3. \A f \in Nat : \A old : Deadline(f, old) = clock + OpTimeout(f)
    BY <1>2 DEF Deadline
<1>4. QED
    BY <1>1, <1>2, <1>3

LEMMA ReadDeadline ==
    ASSUME TypeOK, DeadlineInv, NEW k \in Nat, Read(k)
    PROVE  DeadlineInv'
<1>1. /\ pc = "idle" /\ pc' = "read" /\ op'.start = clock /\ ~Expired
      /\ UNCHANGED <<clock, asking, explicitWriteDeadline, wanted>>
    BY DEF Read
<1>2. ~explicitDeadline' /\ ~explicitReadDeadline'
    BY DEF Read, DeadlineInv, ClearFlag
<1>3. sockRead' = IF wanted.read # Never THEN wanted.read
                  ELSE clock + OpTimeout(ReadTimeout)
    BY <1>1, TimeoutType DEF Read, DeadlineInv
<1>4. ReadDeadlineOneShot'
    BY <1>1, <1>3 DEF ReadDeadlineOneShot, OpTimeout, asking
<1>5. clock < ctxEnd
    BY <1>1 DEF Expired, TypeOK
<1>6. wanted.read = Never => clock <= sockRead'
    BY <1>3, TimeoutType DEF TypeOK
<1>7. QED
    BY <1>1, <1>2, <1>4, <1>5, <1>6 DEF DeadlineInv, asking

LEMMA WriteDeadline ==
    ASSUME TypeOK, DeadlineInv, Write
    PROVE  DeadlineInv'
<1>1. /\ pc = "idle" /\ pc' = "write" /\ op'.start = clock /\ ~Expired
      /\ UNCHANGED <<clock, asking, explicitReadDeadline, sockRead, wanted>>
    BY DEF Write
<1>2. /\ ~explicitDeadline' /\ ~explicitWriteDeadline'
      /\ sockWrite' = clock + OpTimeout(WriteTimeout)
    BY TimeoutType DEF Write, DeadlineInv
<1>3. clock < ctxEnd /\ clock <= sockWrite'
    BY <1>1, <1>2, TimeoutType DEF Expired, TypeOK
<1>4. QED
    BY <1>1, <1>2, <1>3 DEF DeadlineInv, OpTimeout, asking

LEMMA StepDeadline ==
    ReadSetterOnly /\ TypeOK /\ DeadlineInv /\ [AnyStep]_vars => DeadlineInv'
<1> SUFFICES ASSUME ReadSetterOnly, TypeOK, DeadlineInv, [AnyStep]_vars
             PROVE  DeadlineInv'
    OBVIOUS
<1>1. CASE Setting
  <2>1. PICK d \in Nat \cup {Never} : SetReadDeadline(d)
    BY <1>1 DEF Setting, ReadSetterOnly, SetWriteDeadline, SetDeadline
  <2>2. /\ wanted'.read = d /\ pc = "idle"
        /\ explicitReadDeadline' = (d # Never)
        /\ d # Never => sockRead' = d
    BY <2>1 DEF SetReadDeadline, TypeOK
  <2>3. QED
    BY <2>1, <2>2 DEF SetReadDeadline, DeadlineInv, asking
<1>2. CASE ReadReturns
  <2>1. PICK n \in Nat, err \in Errors : Return(n, err)
    BY <1>2, ReadReturnsCases
  <2>2. /\ pc = "read" /\ pc' \in {"idle", "panicked"}
        /\ wanted'.read = Never
        /\ UNCHANGED <<clock, asking, flags, sock>>
    BY <2>1 DEF Return, TypeOK
  <2>3. QED
    BY <2>2 DEF DeadlineInv, flags, sock
<1>3. CASE WriteEnds
  <2>1. /\ pc = "write" /\ pc' = "idle" /\ wanted'.read = wanted.read
        /\ UNCHANGED <<clock, asking, flags, sock>>
    BY <1>3 DEF WriteEnds, WriteReturns, TypeOK
  <2>2. QED
    BY <2>1 DEF DeadlineInv, flags, sock
<1>4. CASE Refusal
    BY <1>4 DEF Refusal, Refuse, DeadlineInv, ReadDeadlineOneShot, OpTimeout,
       asking, flags, sock
<1>5. CASE Around
  <2>1. CASE Close
    BY <2>1 DEF Close, DeadlineInv, asking, flags, sock
  <2>2. CASE PeerSends \/ PeerCloses
    BY <2>2 DEF PeerSends, PeerCloses, DeadlineInv, ReadDeadlineOneShot,
       OpTimeout, asking, flags, sock
  <2>3. CASE Tick
    <3>1. /\ clock' = clock + 1
          /\ UNCHANGED <<asking, flags, sock, pc, op, wanted>>
      BY <2>3 DEF Tick
    <3>2. /\ pc = "read" => sockRead = Never \/ clock < sockRead
          /\ pc = "write" => sockWrite = Never \/ clock < sockWrite
      BY <2>3 DEF Tick, Overdue, Due, TypeOK, Never
    <3>3. /\ pc = "read" /\ wanted.read = Never => sockRead # Never
          /\ pc = "write" => sockWrite # Never
      BY TimeoutType DEF DeadlineInv, ReadDeadlineOneShot, TypeOK, Never
    <3>4. /\ pc = "read" /\ wanted.read = Never => clock' <= sockRead
          /\ pc = "write" => clock' <= sockWrite
      BY <3>1, <3>2, <3>3 DEF TypeOK, Never
    <3>5. QED
      BY <3>1, <3>4 DEF DeadlineInv, ReadDeadlineOneShot, OpTimeout, asking,
         flags, sock
  <2> QED
    BY <1>5, <2>1, <2>2, <2>3 DEF Around
<1>6. CASE UNCHANGED vars
    BY <1>6 DEF vars, DeadlineInv, ReadDeadlineOneShot, OpTimeout, asking,
       flags, sock
<1> QED
    BY <1>1, <1>2, <1>3, <1>4, <1>5, <1>6, ReadDeadline,
       WriteDeadline DEF AnyStep

LEMMA InitDeadline == Init => DeadlineInv
BY DEF Init, DeadlineInv, NoWant

LEMMA DeadlineImplies ==
    TypeOK /\ DeadlineInv => ReadDeadlineOneShot /\ SessionOvershoot
<1> SUFFICES ASSUME TypeOK, DeadlineInv
             PROVE  ReadDeadlineOneShot /\ SessionOvershoot
    OBVIOUS
<1>1. ReadDeadlineOneShot
    BY DEF DeadlineInv, ReadDeadlineOneShot
<1>2. op.start \in Nat /\ clock \in Nat /\ ctxEnd \in Nat
    BY DEF TypeOK
<1>3. pc = "read" /\ wanted.read = Never =>
          clock <= ctxEnd + OpTimeout(ReadTimeout)
    BY <1>1, <1>2, TimeoutType DEF DeadlineInv, ReadDeadlineOneShot
<1>4. pc = "write" => clock <= ctxEnd + OpTimeout(WriteTimeout)
    BY <1>2, TimeoutType DEF DeadlineInv
<1>5. QED
    BY <1>1, <1>3, <1>4 DEF SessionOvershoot

(* Without SetDeadline and SetWriteDeadline, which the scanners in         *)
(* modules/ do not call, a read deadline holds for one Read.               *)
THEOREM OneShot == ReadSetterOnly /\ Spec => []ReadDeadlineOneShot
<1>1. Init => TypeOK /\ LimitInv /\ DeadlineInv
    BY InitType, InitLimit, InitDeadline
<1>2. ReadSetterOnly /\ TypeOK /\ LimitInv /\ DeadlineInv /\ [Next]_vars
          => TypeOK' /\ LimitInv' /\ DeadlineInv'
    BY NextCases, StepType, StepLimit, StepDeadline
<1>3. TypeOK /\ DeadlineInv => ReadDeadlineOneShot
    BY DeadlineImplies
<1>4. ReadSetterOnly => (ReadSetterOnly)'
    BY DEF ReadSetterOnly
<1>5. QED
    BY <1>1, <1>2, <1>3, <1>4, PTL DEF Spec

(* Under the same assumption no operation outlives the session by more     *)
(* than its own timeout (conn.go:77, :109, :189).                          *)
THEOREM Overshoot == ReadSetterOnly /\ Spec => []SessionOvershoot
<1>1. Init => TypeOK /\ LimitInv /\ DeadlineInv
    BY InitType, InitLimit, InitDeadline
<1>2. ReadSetterOnly /\ TypeOK /\ LimitInv /\ DeadlineInv /\ [Next]_vars
          => TypeOK' /\ LimitInv' /\ DeadlineInv'
    BY NextCases, StepType, StepLimit, StepDeadline
<1>3. TypeOK /\ DeadlineInv => SessionOvershoot
    BY DeadlineImplies
<1>4. ReadSetterOnly => (ReadSetterOnly)'
    BY DEF ReadSetterOnly
<1>5. QED
    BY <1>1, <1>2, <1>3, <1>4, PTL DEF Spec

-----------------------------------------------------------------------------
(***************************************************************************)
(* Proofs about BoundedReads: what the two read loops return, for every    *)
(* buffer, maximum, timeout and peer; and that what is proved above        *)
(* of a connection holds of one that the loops use.                        *)
(***************************************************************************)

(* The buffer of a read is no longer than what is left (utility.go:126).   *)
LEMMA MinOfTwo ==
    ASSUME NEW a \in Nat, NEW b \in Nat
    PROVE  Min({a, b}) \in Nat /\ Min({a, b}) <= a /\ Min({a, b}) <= b
<1>1. \E x \in {a, b} : \A y \in {a, b} : x <= y
  <2>1. CASE a <= b
    BY <2>1
  <2>2. CASE b <= a
    BY <2>2
  <2> QED
    BY <2>1, <2>2
<1>2. Min({a, b}) \in {a, b} /\ \A y \in {a, b} : Min({a, b}) <= y
    BY <1>1 DEF Min
<1>3. QED
    BY <1>2

LEMMA BufferBound ==
    ASSUME NEW l, l.size \in Nat, l.left \in Nat
    PROVE  BufferFor(l) \in Nat /\ BufferFor(l) <= l.left
BY MinOfTwo DEF BufferFor

-----------------------------------------------------------------------------
(* Every step of a loop is a step of its connection, or leaves it alone.   *)

LEMMA CallReadCases ==
    ASSUME NEW k \in Nat, CallRead(k)
    PROVE  AnyStep
BY DEF CallRead, AnyStep, Refusal

(* A loop calls conn.Read with a buffer that fits in what is left.         *)
LEMMA StartCases ==
    ASSUME StartLoop
    PROVE  /\ loop = NoLoop /\ result = NoResult /\ pc = "idle"
           /\ UNCHANGED result
           /\ \E k \in Nat : k <= loop'.left /\ CallRead(k)
           /\ \E name \in {"available", "regex"}, size, max, wait \in Nat :
                  loop' = Called(name, size, max, wait)
<1>1. CASE \E k \in Sizes : ReadUntilRegex(k)
  <2>1. PICK k \in Sizes : ReadUntilRegex(k)
    BY <1>1
  <2>2. k \in Nat /\ k <= Called("regex", k, k, 0).left
    BY BytesAssumption DEF Called
  <2>3. QED
    BY <2>1, <2>2 DEF ReadUntilRegex
<1>2. CASE \E k \in Sizes, max \in Sizes, wait \in ReadTimeouts :
               ReadAvailable(k, max, wait)
  <2>1. PICK k \in Sizes, max \in Sizes, wait \in ReadTimeouts :
            ReadAvailable(k, max, wait)
    BY <1>2
  <2> DEFINE l == Called("available", k, max, wait)
  <2>2. k \in Nat /\ max \in Nat /\ wait \in Nat
    BY BytesAssumption, ReadTimeoutsAssumption
  <2>3. l.size \in Nat /\ l.left \in Nat
    BY <2>2 DEF Called
  <2>4. BufferFor(l) \in Nat /\ BufferFor(l) <= l.left
    BY <2>3, BufferBound
  <2>5. /\ loop = NoLoop /\ result = NoResult /\ pc = "idle"
        /\ loop' = l /\ CallRead(BufferFor(l)) /\ UNCHANGED result
    BY <2>1 DEF ReadAvailable
  <2> HIDE DEF l
  <2>6. QED
    BY <2>2, <2>4, <2>5 DEF l
<1> QED
    BY <1>1, <1>2 DEF StartLoop

(* The two later calls of conn.Read, and the setter between them.          *)
LEMMA AgainCases ==
    ASSUME LoopInv, ReadMore \/ RegexAgain
    PROVE  \E k \in Nat : /\ k <= loop.left /\ CallRead(k)
                          /\ loop.step \in {"set", "again"} /\ pc = "idle"
                          /\ loop' = [loop EXCEPT !.step =
                                IF loop.step = "again" THEN "first" ELSE "more"]
                          /\ UNCHANGED result
<1>1. loop.size \in Nat /\ loop.left \in Nat
    BY DEF LoopInv, LoopType
<1>2. CASE ReadMore
  <2>1. BufferFor(loop) \in Nat /\ BufferFor(loop) <= loop.left
    BY <1>1, BufferBound
  <2>2. QED
    BY <1>2, <2>1 DEF ReadMore, Reading, Then
<1>3. CASE RegexAgain
    BY <1>1, <1>3 DEF RegexAgain, Reading, Then
<1> QED
    BY <1>2, <1>3

LEMMA TopCases ==
    ASSUME TypeOK, LoopInv, LoopTop
    PROVE  [Setting \/ Refusal]_vars
<1>1. clock \in Nat /\ loop.wait \in Nat
    BY DEF TypeOK, LoopInv, LoopType
<1>2. clock + loop.wait \in Nat
    BY <1>1
<1>3. QED
    BY <1>2 DEF LoopTop, Setting, Refusal

(* Every step outside the loops is one of the connection's.                *)
LEMMA ElsewhereCases ==
    Elsewhere \/ Finish => [AnyStep]_vars /\ UNCHANGED <<loop, result>>
BY CallCases, WriteCases DEF Elsewhere, Finish, Alone, AnyStep, Around, Over

LEMMA LoopCases ==
    ASSUME TypeOK, LoopInv, [LoopNext]_loopVars
    PROVE  [AnyStep]_vars
<1>1. CASE StartLoop
    BY <1>1, StartCases, CallReadCases
<1>2. CASE ReadMore \/ RegexAgain
    BY <1>2, AgainCases, CallReadCases
<1>3. CASE LoopTop
    BY <1>3, TopCases DEF AnyStep
<1>4. CASE FirstRead \/ MoreRead \/ RegexRead
    BY <1>4 DEF FirstRead, MoreRead, RegexRead
<1>5. CASE Elsewhere \/ Finish
    BY <1>5, ElsewhereCases
<1>6. CASE UNCHANGED loopVars
    BY <1>6 DEF loopVars
<1> QED
    BY <1>1, <1>2, <1>3, <1>4, <1>5, <1>6 DEF LoopNext, LoopStep

-----------------------------------------------------------------------------
(* What a step of the connection changes of what a loop relies on.         *)

(* No field of the connection changes, and the clock does not go back.     *)
LEMMA StepKeeps ==
    ASSUME TypeOK, LimitInv, [AnyStep]_vars
    PROVE  Timeout' = Timeout /\ clock' \in Nat /\ clock <= clock'
<1>1. clock \in Nat /\ clock <= clock
    BY DEF TypeOK
<1>2. CASE \E k \in Nat : Read(k)
    BY <1>1, <1>2 DEF Read, asking
<1>3. CASE Write
    BY <1>1, <1>3 DEF Write, asking
<1>4. CASE Refusal
    BY <1>1, <1>4 DEF Refusal, Refuse, asking
<1>5. CASE Setting
    BY <1>1, <1>5
       DEF Setting, SetReadDeadline, SetWriteDeadline, SetDeadline, asking
<1>6. CASE Around
  <2>1. Timeout' = Timeout /\ (clock' = clock \/ clock' = clock + 1)
    BY <1>6 DEF Around, Close, PeerSends, PeerCloses, Tick, asking
  <2>2. QED
    BY <1>1, <2>1
<1>7. CASE ReadReturns
  <2>1. PICK n \in Nat, err \in Errors : Return(n, err)
    BY <1>7, ReadReturnsCases
  <2>2. QED
    BY <1>1, <2>1 DEF Return, asking
<1>8. CASE WriteEnds
    BY <1>1, <1>8 DEF WriteEnds, WriteReturns, asking
<1>9. CASE UNCHANGED vars
    BY <1>1, <1>9 DEF vars, asking
<1> QED
    BY <1>2, <1>3, <1>4, <1>5, <1>6, <1>7, <1>8, <1>9 DEF AnyStep

(* conn.Read starts: the buffer that the socket gets is no longer than the *)
(* one it was given; or the session is over, and it returns at once.       *)
LEMMA CallReadStep ==
    ASSUME TypeOK, NEW k \in Nat, CallRead(k)
    PROVE  /\ UNCHANGED BytesRead
           /\ \/ /\ pc' = "read" /\ op'.size = k
                 /\ op'.want <= op'.size
              \/ pc' = "idle" /\ ret'.n = 0
<1>1. CASE Read(k)
  <2>1. /\ pc' = "read" /\ op'.size = k /\ op'.want = Shrink(k)
        /\ UNCHANGED BytesRead
    BY <1>1 DEF Read
  <2>2. Shrink(k) <= k
    BY DEF Shrink, TypeOK
  <2>3. QED
    BY <2>1, <2>2
<1>2. CASE Refuse("read", k)
    BY <1>2 DEF Refuse
<1> QED
    BY <1>1, <1>2 DEF CallRead

(* Outside of conn.Read nothing a loop relies on changes while it runs.    *)
LEMMA QuietSteps ==
    ASSUME TypeOK, LoopInv, loop # NoLoop, Elsewhere \/ Finish,
           ~ReadReturns
    PROVE  UNCHANGED <<BytesRead, ret, op, pc>>
<1>1. result = NoResult /\ pc # "write"
    BY DEF LoopInv, LoopOnConn
<1>2. CASE Alone(Over)
    BY <1>2 DEF Alone, Over, vars
<1>3. CASE Alone(WriteTimesOut)
    BY <1>1, <1>3 DEF Alone, WriteTimesOut, WriteReturns
<1>4. CASE Alone(Tick)
    BY <1>4 DEF Alone, Tick
<1>5. CASE Alone(WriteDone \/ WriteReset \/ PeerSends \/ PeerCloses)
    BY <1>1, <1>5
       DEF Alone, WriteDone, WriteReset, WriteReturns, PeerSends, PeerCloses
<1> QED
    BY <1>1, <1>2, <1>3, <1>4, <1>5 DEF Elsewhere, Finish, Alone

-----------------------------------------------------------------------------
(* The parts of LoopInv.                                                   *)

(* The part that speaks of the result alone.                               *)
ResultInv == ResultBounded /\ StopsLate /\ MatchesReported

LEMMA ResultKept ==
    ASSUME ResultInv, UNCHANGED result, UNCHANGED Timeout
    PROVE  ResultInv'
BY DEF ResultInv, ResultBounded, StopsLate, MatchesReported

(* Steps outside of the loops.                                             *)
LEMMA ElsewhereLoop ==
    ASSUME TypeOK, LimitInv, LoopInv, Elsewhere \/ Finish
    PROVE  LoopInv'
<1>1. [AnyStep]_vars /\ UNCHANGED <<loop, result>>
    BY ElsewhereCases
<1>2. Timeout' = Timeout /\ clock' \in Nat /\ clock <= clock' /\ clock \in Nat
    BY <1>1, StepKeeps DEF TypeOK
<1>3. ResultInv'
    BY <1>1, <1>2, ResultKept DEF LoopInv, ResultInv
<1>4. LoopType' /\ LoopCounts'
  <2>1. loop.start \in Nat /\ loop.start <= clock
    BY DEF LoopInv, LoopType, LoopCounts
  <2>2. loop.start <= clock'
    BY <1>2, <2>1
  <2>3. QED
    BY <1>1, <2>2 DEF LoopInv, LoopType, LoopCounts
<1>5. LoopOnConn'
  <2>1. SUFFICES ASSUME loop # NoLoop PROVE LoopOnConn'
    BY <1>1 DEF LoopOnConn
  <2>2. CASE ReadReturns
    <3>1. PICK n \in Nat, err \in Errors : n <= op.want /\ Return(n, err)
      BY <2>2, ReadReturnsCases
    <3>2. /\ pc = "read" /\ pc' \in {"idle", "panicked"}
          /\ BytesRead' = BytesRead + n /\ ret'.n = n
      BY <3>1 DEF Return
    <3>3. /\ loop.step \in {"first", "more"} /\ result = NoResult
          /\ op.size <= loop.left /\ op.want <= op.size
          /\ BytesRead = loop.base + loop.got
      BY <2>1, <3>2 DEF LoopInv, LoopOnConn
    <3>4. op.size \in Nat /\ op.want \in Nat /\ loop.left \in Nat
      BY DEF TypeOK, LoopInv, LoopType
    <3>5. n <= loop.left
      BY <3>1, <3>3, <3>4
    <3>6. QED
      BY <1>1, <3>2, <3>3, <3>5 DEF LoopOnConn
  <2>3. CASE ~ReadReturns
    <3>1. UNCHANGED <<BytesRead, ret, op, pc>>
      BY <2>1, <2>3, QuietSteps
    <3>2. QED
      BY <1>1, <3>1 DEF LoopInv, LoopOnConn
  <2> QED
    BY <2>2, <2>3
<1> QED
    BY <1>3, <1>4, <1>5 DEF LoopInv, ResultInv

(* A loop starts.                                                          *)
LEMMA StartLoopInv ==
    ASSUME TypeOK, LimitInv, LoopInv, StartLoop
    PROVE  LoopInv'
<1>1. PICK k \in Nat : k <= loop'.left /\ CallRead(k)
    BY StartCases
<1>2. PICK name \in {"available", "regex"}, size, max, wait \in Nat :
          loop' = Called(name, size, max, wait)
    BY StartCases
<1>3. result' = result /\ result = NoResult
    BY StartCases
<1>4. clock \in Nat /\ BytesRead \in Nat
    BY DEF TypeOK
<1>5. Timeout' = Timeout /\ clock' \in Nat /\ clock <= clock'
    BY <1>1, CallReadCases, StepKeeps
<1>6. ResultInv'
    BY <1>3, <1>5, ResultKept DEF LoopInv, ResultInv
<1>7. LoopType'
    BY <1>2, <1>4 DEF LoopType, Called
<1>8. LoopCounts'
    BY <1>2, <1>4, <1>5 DEF LoopCounts, Called
<1>9. LoopOnConn'
  <2>1. /\ loop'.step = "first" /\ loop'.base = BytesRead /\ loop'.got = 0
        /\ loop'.left \in Nat
    BY <1>2 DEF Called
  <2>2. QED
    BY <1>1, <1>3, <1>4, <2>1, CallReadStep DEF LoopOnConn
<1> QED
    BY <1>6, <1>7, <1>8, <1>9 DEF LoopInv, ResultInv
(* A loop calls conn.Read once more.                                       *)
LEMMA AgainLoop ==
    ASSUME TypeOK, LimitInv, LoopInv, ReadMore \/ RegexAgain
    PROVE  LoopInv'
<1>1. PICK k \in Nat : k <= loop.left /\ CallRead(k)
    BY AgainCases
<1>2. /\ loop.step \in {"set", "again"} /\ pc = "idle"
      /\ loop' = [loop EXCEPT !.step =
                      IF loop.step = "again" THEN "first" ELSE "more"]
      /\ result' = result
    BY AgainCases
<1>3. /\ Timeout' = Timeout /\ clock' \in Nat /\ clock <= clock'
      /\ clock \in Nat
    BY <1>1, CallReadCases, StepKeeps DEF TypeOK
<1>4. ResultInv'
    BY <1>2, <1>3, ResultKept DEF LoopInv, ResultInv
<1>5. LoopType'
    BY <1>2 DEF LoopInv, LoopType
<1>6. /\ loop'.name = loop.name /\ loop'.got = loop.got
      /\ loop'.left = loop.left /\ loop'.max = loop.max
      /\ loop'.start = loop.start /\ loop'.base = loop.base
      /\ loop'.step = IF loop.step = "again" THEN "first" ELSE "more"
    BY <1>2 DEF LoopInv, LoopType
<1>7. loop.name # "none" /\ loop # NoLoop
  <2>1. NoLoop.step = ""
    BY DEF NoLoop
  <2>2. QED
    BY <1>2, <2>1 DEF LoopInv, LoopCounts
<1>8. loop.start <= clock'
  <2>1. loop.start \in Nat /\ loop.start <= clock
    BY DEF LoopInv, LoopType, LoopCounts
  <2>2. QED
    BY <1>3, <2>1
<1>9. loop.name = IF loop.step = "again" THEN "regex" ELSE "available"
    BY <1>2, <1>7 DEF LoopInv, LoopType, LoopCounts
<1>10. LoopCounts'
    BY <1>2, <1>6, <1>8, <1>9 DEF LoopInv, LoopCounts
<1>11. LoopOnConn'
  <2>1. result = NoResult /\ BytesRead = loop.base + loop.got
    BY <1>2, <1>7 DEF LoopInv, LoopOnConn
  <2>2. loop.left \in Nat /\ loop.base \in Nat /\ loop.got \in Nat
    BY DEF LoopInv, LoopType
  <2>3. loop'.step \in {"first", "more"}
    BY <1>6
  <2>4. QED
    BY <1>1, <1>2, <1>6, <2>1, <2>2, <2>3, CallReadStep DEF LoopOnConn
<1> QED
    BY <1>4, <1>5, <1>10, <1>11 DEF LoopInv, ResultInv

(* What a loop returns, when its counts are right.                         *)
LEMMA ReturnsBounded ==
    ASSUME NEW l, NEW err, NEW timed, NEW matched,
           LoopReturns(l, err, timed, matched),
           l.max \in Nat, l.got \in Nat, l.left \in Nat,
           l.got + l.left = l.max, BytesRead = l.base + l.got,
           l.base \in Nat
    PROVE  /\ loop' = NoLoop
           /\ ResultBounded'
           /\ result'.name = l.name /\ result'.err = err
           /\ result'.timed = timed /\ result'.matched = matched
           /\ result'.max = l.max /\ result'.got = l.got
           /\ result'.time = clock - l.start
<1>1. /\ loop' = NoLoop
      /\ result' = [name |-> l.name, err |-> err, timed |-> timed,
                    matched |-> matched, max |-> l.max, got |-> l.got,
                    took |-> BytesRead - l.base, time |-> clock - l.start]
    BY DEF LoopReturns
<1>2. BytesRead - l.base = l.got /\ l.got <= l.max
    OBVIOUS
<1>3. QED
    BY <1>1, <1>2 DEF ResultBounded

LEMMA NoLoopInv ==
    ASSUME TypeOK, loop' = NoLoop, clock' = clock
    PROVE  LoopType' /\ LoopCounts' /\ LoopOnConn'
<1>1. clock' \in Nat
    BY DEF TypeOK
<1>2. /\ loop'.name = "none" /\ loop'.got = 0 /\ loop'.left = 0
      /\ loop'.max = 0 /\ loop'.start = 0
    BY DEF NoLoop
<1>3. LoopType'
    BY DEF NoLoop, LoopType
<1>4. LoopCounts'
    BY <1>1, <1>2 DEF LoopCounts
<1>5. QED
    BY <1>3, <1>4 DEF LoopOnConn

(* The top of the loop: it gives up, or sets the deadline of the next read.*)
LEMMA TopLoop ==
    ASSUME TypeOK, LimitInv, LoopInv, LoopTop
    PROVE  LoopInv'
<1>1. loop.step = "top" /\ pc = "idle"
    BY DEF LoopTop, Reading
<1>2. loop.name = "available" /\ loop # NoLoop
  <2>1. NoLoop.step = ""
    BY DEF NoLoop
  <2>2. QED
    BY <1>1, <2>1 DEF LoopInv, LoopType, LoopCounts
<1>3. /\ loop.max \in Nat /\ loop.got \in Nat /\ loop.left \in Nat
      /\ loop.base \in Nat /\ loop.start \in Nat
      /\ loop.got + loop.left = loop.max
    BY DEF LoopInv, LoopType, LoopCounts
<1>4. result = NoResult /\ BytesRead = loop.base + loop.got
    BY <1>1, <1>2 DEF LoopInv, LoopOnConn
<1>5. CASE TotalTimeout <= clock
  <2>1. LoopReturns(loop, "totalTimeout", TRUE, FALSE) /\ UNCHANGED vars
    BY <1>5 DEF LoopTop
  <2>2. UNCHANGED <<clock, Timeout>>
    BY <2>1 DEF vars, asking
  <2>3. clock - loop.start >= Timeout
    BY <1>3, <1>5 DEF TotalTimeout, TypeOK
  <2>4. /\ loop' = NoLoop /\ ResultBounded'
        /\ result'.name = loop.name /\ result'.err = "totalTimeout"
        /\ result'.time = clock - loop.start
    BY <1>3, <1>4, <2>1, ReturnsBounded
  <2>5. StopsLate' /\ MatchesReported'
    BY <1>2, <2>2, <2>3, <2>4 DEF StopsLate, MatchesReported
  <2>6. QED
    BY <2>2, <2>4, <2>5, NoLoopInv DEF LoopInv
<1>6. CASE ~(TotalTimeout <= clock)
  <2>1. /\ loop' = [loop EXCEPT !.step = "set"] /\ result' = result
        /\ SetReadDeadline(clock + loop.wait) \/ Refuse("set", 0)
    BY <1>6 DEF LoopTop, Then
  <2>2. UNCHANGED <<BytesRead, pc, clock, Timeout>>
    BY <2>1 DEF SetReadDeadline, Refuse, asking
  <2>3. ResultInv'
    BY <2>1, <2>2, ResultKept DEF LoopInv, ResultInv
  <2>4. LoopType'
    BY <2>1 DEF LoopInv, LoopType
  <2>5. /\ loop'.name = loop.name /\ loop'.got = loop.got
        /\ loop'.left = loop.left /\ loop'.max = loop.max
        /\ loop'.start = loop.start /\ loop'.base = loop.base
        /\ loop'.step = "set"
    BY <2>1 DEF LoopInv, LoopType
  <2>6. LoopCounts'
    BY <1>2, <2>2, <2>5 DEF LoopInv, LoopCounts
  <2>7. LoopOnConn'
    BY <1>1, <1>4, <2>1, <2>2, <2>5 DEF LoopOnConn
  <2>8. QED
    BY <2>3, <2>4, <2>6, <2>7 DEF LoopInv, ResultInv
<1> QED
    BY <1>5, <1>6
(* The bytes of a read are appended: the counts stay right.                *)
LEMMA AppendedCounts ==
    ASSUME TypeOK, LoopInv, loop # NoLoop, pc = "idle",
           loop.step \in {"first", "more"}
    PROVE  /\ Appended.name = loop.name /\ Appended.start = loop.start
           /\ Appended.max = loop.max /\ Appended.base = loop.base
           /\ Appended.got = loop.got + ret.n
           /\ Appended.left = loop.left - ret.n
           /\ Appended.max \in Nat /\ Appended.got \in Nat
           /\ Appended.left \in Nat /\ Appended.base \in Nat
           /\ Appended.got + Appended.left = Appended.max
           /\ BytesRead = Appended.base + Appended.got
           /\ ret.n \in Nat /\ ret.err \in Errors
           /\ \A s \in {"top", "again"} :
                [Appended EXCEPT !.step = s]
                  \in [name : {"none", "available", "regex"},
                       step : {"", "first", "top", "set", "more", "again"},
                       size : Nat, max : Nat, left : Nat, got : Nat,
                       last : Nat, wait : Nat, start : Nat, base : Nat]
<1>1. ret.n \in Nat /\ ret.err \in Errors
    BY DEF TypeOK
<1>2. ret.n <= loop.left /\ BytesRead = loop.base + loop.got + ret.n
    BY DEF LoopInv, LoopOnConn
<1>3. /\ loop.got \in Nat /\ loop.left \in Nat /\ loop.max \in Nat
      /\ loop.base \in Nat /\ loop.got + loop.left = loop.max
    BY DEF LoopInv, LoopType, LoopCounts
<1>4. /\ Appended.name = loop.name /\ Appended.start = loop.start
      /\ Appended.max = loop.max /\ Appended.base = loop.base
      /\ Appended.got = loop.got + ret.n
      /\ Appended.left = loop.left - ret.n
    BY DEF LoopInv, LoopType, Appended
<1>5. loop.got + ret.n \in Nat /\ loop.left - ret.n \in Nat
    BY <1>1, <1>2, <1>3
<1>6. \A s \in {"top", "again"} :
        [Appended EXCEPT !.step = s]
          \in [name : {"none", "available", "regex"},
               step : {"", "first", "top", "set", "more", "again"},
               size : Nat, max : Nat, left : Nat, got : Nat,
               last : Nat, wait : Nat, start : Nat, base : Nat]
    BY <1>1, <1>5 DEF LoopInv, LoopType, Appended
<1>7. /\ (loop.got + ret.n) + (loop.left - ret.n) = loop.max
      /\ BytesRead = loop.base + (loop.got + ret.n)
    BY <1>1, <1>2, <1>3
<1>8. QED
    BY <1>1, <1>3, <1>4, <1>5, <1>6, <1>7

(* The loop goes on with what it has appended.                             *)
LEMMA GoOn ==
    ASSUME TypeOK, LimitInv, LoopInv, loop # NoLoop, pc = "idle",
           loop.step \in {"first", "more"},
           NEW s \in {"top", "again"},
           s = "top" <=> loop.name = "available",
           loop' = [Appended EXCEPT !.step = s],
           UNCHANGED result, UNCHANGED vars
    PROVE  LoopInv'
<1>1. UNCHANGED <<clock, Timeout, BytesRead, pc>>
    BY DEF vars, asking
<1>2. ResultInv'
    BY <1>1, ResultKept DEF LoopInv, ResultInv
<1>3. LoopType'
    BY AppendedCounts DEF LoopType
<1>4. /\ loop'.step = s /\ loop'.got = Appended.got
      /\ loop'.left = Appended.left /\ loop'.max = Appended.max
      /\ loop'.start = loop.start /\ loop'.base = loop.base
      /\ loop'.name = loop.name
    BY DEF LoopInv, LoopType, Appended
<1>5. loop.name # "none" /\ loop.start <= clock
    BY DEF LoopInv, LoopCounts
<1>6. loop.name \in {"available", "regex"}
    BY <1>5 DEF LoopInv, LoopType
<1>7. LoopCounts'
    BY <1>1, <1>4, <1>5, <1>6, AppendedCounts DEF LoopCounts
<1>8. result = NoResult
    BY DEF LoopInv, LoopOnConn
<1>9. LoopOnConn'
    BY <1>1, <1>4, <1>8, AppendedCounts DEF LoopOnConn
<1>10. QED
    BY <1>2, <1>3, <1>7, <1>9 DEF LoopInv, ResultInv

(* The loop returns what it has appended: enough of it, or with an error.  *)
LEMMA Done ==
    ASSUME TypeOK, LimitInv, LoopInv, loop # NoLoop, pc = "idle",
           loop.step \in {"first", "more"},
           NEW err, NEW timed, NEW matched,
           LoopReturns(Appended, err, timed, matched), UNCHANGED vars,
           loop.name = "available" =>
               /\ err = "nil" => timed \/ 2 * Appended.got >= Appended.max
               /\ err # "totalTimeout",
           loop.name = "regex" =>
               /\ err = "nil" => matched
               /\ matched => err = "nil" \/ Appended.left = 0
    PROVE  LoopInv'
<1> DEFINE app == Appended
<1>0. /\ app.max \in Nat /\ app.got \in Nat /\ app.left \in Nat
      /\ app.got + app.left = app.max /\ BytesRead = app.base + app.got
      /\ app.base \in Nat /\ app.name = loop.name
      /\ LoopReturns(app, err, timed, matched)
    BY AppendedCounts
<1> HIDE DEF app
<1>1. /\ loop' = NoLoop /\ ResultBounded'
      /\ result'.name = loop.name /\ result'.err = err
      /\ result'.timed = timed /\ result'.matched = matched
      /\ result'.max = app.max /\ result'.got = app.got
    BY <1>0, ReturnsBounded
<1>2. UNCHANGED <<clock, Timeout>>
    BY DEF vars, asking
<1>3. app.left = 0 => app.got = app.max
    BY <1>0
<1>4. StopsLate'
    BY <1>1, <1>2 DEF StopsLate, app
<1>5. MatchesReported'
    BY <1>1, <1>3 DEF MatchesReported, app
<1>6. QED
    BY <1>1, <1>2, <1>4, <1>5, NoLoopInv DEF LoopInv

(* At least half of the maximum: the last read was no shorter than what it *)
(* left (utility.go:153).                                                  *)
LEMMA Half ==
    ASSUME NEW max \in Nat, NEW got \in Nat, NEW left \in Nat, NEW n \in Nat,
           got + left = max, n <= got, left <= n
    PROVE  2 * got >= max
OBVIOUS

LEMMA ReadLoop ==
    ASSUME TypeOK, LimitInv, LoopInv, FirstRead \/ MoreRead \/ RegexRead
    PROVE  LoopInv'
<1>1. /\ pc = "idle" /\ loop.step \in {"first", "more"} /\ UNCHANGED vars
    BY DEF FirstRead, MoreRead, RegexRead, Reading
<1>2. loop # NoLoop
  <2>1. NoLoop.step = ""
    BY DEF NoLoop
  <2>2. QED
    BY <1>1, <2>1
<1> DEFINE app == Appended
<1>3. /\ app.max \in Nat /\ app.got \in Nat /\ app.left \in Nat
      /\ app.got + app.left = app.max /\ app.got = loop.got + ret.n
      /\ app.left = loop.left - ret.n /\ ret.n \in Nat
      /\ ret.err # "totalTimeout"
    BY <1>1, <1>2, AppendedCounts DEF Errors
<1>4. loop.got \in Nat /\ loop.left \in Nat
    BY DEF LoopInv, LoopType
<1>5. ret.n <= app.got
    BY <1>3, <1>4
<1>6. app.left <= ret.n => 2 * app.got >= app.max
    BY <1>3, <1>5, Half
<1> HIDE DEF app
<1>7. CASE FirstRead
  <2>1. loop.name = "available"
    BY <1>7 DEF FirstRead
  <2>2. CASE ret.err # "nil" \/ ret.n >= loop.left
    <3>1. LoopReturns(Appended, ret.err, FALSE, FALSE)
      BY <1>7, <2>2 DEF FirstRead
    <3>2. ret.err = "nil" => 2 * app.got >= app.max
      BY <1>3, <1>4, <1>6, <2>2
    <3>3. QED
      BY <1>1, <1>2, <1>3, <2>1, <3>1, <3>2, Done DEF app
  <2>3. CASE ~(ret.err # "nil" \/ ret.n >= loop.left)
    <3>1. loop' = [Appended EXCEPT !.step = "top"] /\ UNCHANGED result
      BY <1>7, <2>3 DEF FirstRead
    <3>2. QED
      BY <1>1, <1>2, <2>1, <3>1, GoOn
  <2> QED
    BY <2>2, <2>3
<1>8. CASE MoreRead
  <2>1. loop.name = "available"
    BY <1>2, <1>8 DEF MoreRead, Reading, LoopInv, LoopType, LoopCounts
  <2>2. CASE ret.err # "nil"
    <3> DEFINE err == IF IsTimeoutError(ret.err) THEN "nil" ELSE ret.err
    <3>1. LoopReturns(Appended, err, IsTimeoutError(ret.err), FALSE)
      BY <1>8, <2>2 DEF MoreRead
    <3>2. (err = "nil" => IsTimeoutError(ret.err)) /\ err # "totalTimeout"
      BY <1>3, <2>2
    <3> HIDE DEF err
    <3>3. QED
      BY <1>1, <1>2, <2>1, <3>1, <3>2, Done
  <2>3. CASE ret.err = "nil" /\ ret.n >= Appended.left
    <3>1. LoopReturns(Appended, "nil", FALSE, FALSE)
      BY <1>8, <2>3 DEF MoreRead
    <3>2. 2 * app.got >= app.max
      BY <1>3, <1>6, <2>3 DEF app
    <3>3. QED
      BY <1>1, <1>2, <2>1, <3>1, <3>2, Done DEF app
  <2>4. CASE ret.err = "nil" /\ ~(ret.n >= Appended.left)
    <3>1. loop' = [Appended EXCEPT !.step = "top"] /\ UNCHANGED result
      BY <1>8, <2>4 DEF MoreRead
    <3>2. QED
      BY <1>1, <1>2, <2>1, <3>1, GoOn
  <2> QED
    BY <2>2, <2>3, <2>4
<1>9. CASE RegexRead
  <2>1. loop.name = "regex"
    BY <1>9 DEF RegexRead
  <2>2. PICK matched \in BOOLEAN :
          IF ret.err # "nil" THEN ~matched /\ LoopReturns(Appended, ret.err, FALSE, FALSE)
          ELSE IF Appended.left = 0
               THEN LoopReturns(Appended, "insufficientBuffer", FALSE, matched)
          ELSE IF matched THEN LoopReturns(Appended, "nil", FALSE, TRUE)
          ELSE loop' = [Appended EXCEPT !.step = "again"] /\ UNCHANGED result
    BY <1>9 DEF RegexRead
  <2>3. CASE ret.err # "nil"
    BY <1>1, <1>2, <2>1, <2>2, <2>3, Done
  <2>4. CASE ret.err = "nil" /\ Appended.left = 0
    <3>1. LoopReturns(Appended, "insufficientBuffer", FALSE, matched)
      BY <2>2, <2>4
    <3>2. QED
      BY <1>1, <1>2, <2>1, <2>4, <3>1, Done
  <2>5. CASE ret.err = "nil" /\ Appended.left # 0 /\ matched
    BY <1>1, <1>2, <2>1, <2>2, <2>5, Done
  <2>6. CASE ret.err = "nil" /\ Appended.left # 0 /\ ~matched
    BY <1>1, <1>2, <2>1, <2>2, <2>6, GoOn
  <2> QED
    BY <2>3, <2>4, <2>5, <2>6
<1> QED
    BY <1>7, <1>8, <1>9

-----------------------------------------------------------------------------
LEMMA InitLoop == LoopInit => TypeOK /\ LimitInv /\ LoopInv
<1> SUFFICES ASSUME LoopInit PROVE TypeOK /\ LimitInv /\ LoopInv
    OBVIOUS
<1>1. TypeOK /\ LimitInv
    BY InitType, InitLimit DEF LoopInit
<1>2. loop = NoLoop /\ result = NoResult /\ clock \in Nat
    BY <1>1 DEF LoopInit, TypeOK
<1>3. LoopType
    BY <1>2 DEF LoopType, NoLoop
<1>4. LoopCounts
  <2>1. /\ loop.name = "none" /\ loop.got = 0 /\ loop.left = 0
        /\ loop.max = 0 /\ loop.start = 0
    BY <1>2 DEF NoLoop
  <2>2. QED
    BY <1>2, <2>1 DEF LoopCounts
<1>5. ResultInv
    BY <1>2 DEF ResultInv, ResultBounded, StopsLate, MatchesReported, NoResult
<1>6. QED
    BY <1>1, <1>2, <1>3, <1>4, <1>5 DEF LoopInv, LoopOnConn, ResultInv

LEMMA StepLoop ==
    TypeOK /\ LimitInv /\ LoopInv /\ [LoopNext]_loopVars => LoopInv'
<1> SUFFICES ASSUME TypeOK, LimitInv, LoopInv, [LoopNext]_loopVars
             PROVE  LoopInv'
    OBVIOUS
<1>1. CASE UNCHANGED loopVars
    BY <1>1 DEF loopVars, vars, asking, LoopInv, LoopType, LoopCounts,
       LoopOnConn, ResultBounded, StopsLate, MatchesReported
<1>2. QED
    BY <1>1, StartLoopInv, AgainLoop, TopLoop, ReadLoop, ElsewhereLoop
       DEF LoopNext, LoopStep

LEMMA LoopStepAll ==
    TypeOK /\ LimitInv /\ LoopInv /\ [LoopNext]_loopVars
        => TypeOK' /\ LimitInv' /\ LoopInv'
BY LoopCases, StepType, StepLimit, StepLoop

(* A read loop returns every byte that it took off the connection and no   *)
(* more than its maximum; it stops early only with half of it, and loses a *)
(* match only to a full buffer (utility.go:102-186).                       *)
THEOREM LoopsAreBounded == LoopSpec => []LoopsBounded
<1>1. LoopInv => LoopsBounded
  <2>1. LoopInv => /\ loop.got \in Nat /\ loop.left \in Nat
                   /\ loop.got + loop.left = loop.max
    BY DEF LoopInv, LoopType, LoopCounts
  <2>2. LoopInv => loop.got <= loop.max
    BY <2>1
  <2>3. QED
    BY <2>1, <2>2 DEF LoopInv, LoopsBounded, NothingBeyondMax, ResultBounded
<1>2. QED
    BY <1>1, InitLoop, LoopStepAll, PTL DEF LoopSpec

(* The read limit of the connection holds of the loops too (conn.go:68).   *)
THEOREM LimitInLoops ==
    LoopSpec => [](LimitRespected /\ BogusEOFOnlyAtLimit)
<1>1. LimitInv => LimitRespected /\ BogusEOFOnlyAtLimit
    BY DEF LimitInv
<1>2. QED
    BY <1>1, InitLoop, LoopStepAll, PTL DEF LoopSpec

(* The deadline that a loop sets before a read holds for that read, and no *)
(* read of a loop outlives the session by more than its timeout.           *)
THEOREM DeadlinesInLoops ==
    ReadSetterOnly /\ LoopSpec => [](ReadDeadlineOneShot /\ SessionOvershoot)
<1>1. LoopInit => TypeOK /\ LimitInv /\ LoopInv /\ DeadlineInv
    BY InitLoop, InitDeadline DEF LoopInit
<1>2. /\ ReadSetterOnly /\ TypeOK /\ LimitInv /\ LoopInv /\ DeadlineInv
      /\ [LoopNext]_loopVars
      => TypeOK' /\ LimitInv' /\ LoopInv' /\ DeadlineInv'
    BY LoopCases, LoopStepAll, StepDeadline
<1>3. TypeOK /\ DeadlineInv => ReadDeadlineOneShot /\ SessionOvershoot
    BY DeadlineImplies
<1>4. ReadSetterOnly => (ReadSetterOnly)'
    BY DEF ReadSetterOnly
<1>5. QED
    BY <1>1, <1>2, <1>3, <1>4, PTL DEF LoopSpec
=============================================================================
