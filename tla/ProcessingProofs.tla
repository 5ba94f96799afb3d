-------------------------- MODULE ProcessingProofs --------------------------
(***************************************************************************)
(* Proofs about Processing, for every number of senders, queue size, input *)
(* and scanner list.                                                       *)
(***************************************************************************)
EXTENDS Processing, FiniteSetTheorems, TLAPS

(* The capacity of both queues is a natural number.                        *)
LEMMA QueueCapType == QueueCap \in Nat
<1>1. Cardinality(Senders) \in Nat
  BY SendersAssumption, FS_CardinalityType
<1> QED BY <1>1, SendersAssumption DEF QueueCap

(* A result with one more scanner in it is a result: the map update of     *)
(* moduleResult in grabTarget.                                             *)
LEMMA ResultUpdate ==
    ASSUME NEW m \in Results, NEW s \in Scanners, NEW r \in Response
    PROVE  [t \in DOMAIN m \cup {s} |-> IF t = s THEN r ELSE m[t]] \in Results
<1>1. PICK S \in SUBSET Scanners : m \in [S -> Response]
  BY DEF Results
<1>2. DOMAIN m = S
  BY <1>1
<1>3. [t \in S \cup {s} |-> IF t = s THEN r ELSE m[t]]
          \in [S \cup {s} -> Response]
  BY <1>1
<1>4. S \cup {s} \in SUBSET Scanners
  OBVIOUS
<1> QED BY <1>2, <1>3, <1>4 DEF Results

(* The empty result a grab starts with.                                    *)
LEMMA NoResultType == NoResult \in Results
<1>1. NoResult \in [{} -> Response]
  BY DEF NoResult, Response
<1> QED BY <1>1 DEF Results

(* Taking the head off a channel.                                          *)
LEMMA TailFacts ==
    ASSUME NEW S, NEW q \in Seq(S), q # <<>>
    PROVE  /\ Head(q) \in S /\ Tail(q) \in Seq(S)
           /\ Len(Tail(q)) = Len(q) - 1 /\ Len(q) \in Nat
           /\ Head(q) = q[1]
           /\ \A i \in 1..Len(q) - 1 : Tail(q)[i] = q[i + 1]
OBVIOUS

(* Counting one more copy of a line.                                       *)
LEMMA CountUpdate ==
    ASSUME NEW f \in [Grabs -> Nat], NEW g \in Grabs
    PROVE  /\ [f EXCEPT ![g] = f[g] + 1] \in [Grabs -> Nat]
           /\ [h \in Grabs |-> IF h = g THEN 1 ELSE 0] \in [Grabs -> Nat]
           /\ [h \in Grabs |-> 0] \in [Grabs -> Nat]
OBVIOUS

(* The initial state is type correct.                                      *)
LEMMA TypeInit == Init => TypeOK
<1> SUFFICES ASSUME Init PROVE TypeOK
  OBVIOUS
<1>1. /\ processQueue \in Seq(Jobs) /\ outputQueue \in Seq(Grabs)
      /\ statusesChan \in Seq([name : Scanners, failure : BOOLEAN])
      /\ Len(processQueue) <= QueueCap /\ Len(outputQueue) <= QueueCap
      /\ Len(statusesChan) <= StatusCap
  BY QueueCapType DEF Init, StatusCap
<1>2. last \in [Senders -> Response] /\ res \in [Senders -> Results]
  BY NoResultType DEF Init, Response
<1>3. content \in [Grabs -> Results]
  BY NoResultType DEF Init
<1>4. /\ nextIn \in 1..NTargets + 1
      /\ obj \in [Senders -> 0..NTargets]
      /\ run \in [Senders -> 0..ConnectionsPerHost]
      /\ pos \in [Senders -> 0..NScanners]
  BY InputAssumption, ScannersAssumption, ConnectionsAssumption DEF Init
<1>5. states \in [Scanners -> [Successes : Nat, Failures : Nat]]
  BY DEF Init
<1>6. /\ buffered \in [Grabs -> Nat] /\ written \in [Grabs -> Nat]
      /\ wpc \in [Senders -> {"init", "take", "done"} \cup Busy]
      /\ \A w \in Senders : wpc[w] = "init"
  BY DEF Init
<1>7. \A w \in Senders : wpc[w] \notin Busy /\ wpc[w] # "scan" /\ wpc[w] # "report"
  BY <1>6 DEF Busy
<1> QED BY <1>1, <1>2, <1>3, <1>4, <1>5, <1>6, <1>7 DEF Init, TypeOK

(* Where Advance sends a sender: to a scan of a registered scanner, or to  *)
(* the output of its grab; the other senders do not move.                  *)
Moved(w) ==
    /\ wpc' = [wpc EXCEPT ![w] = wpc'[w]]
    /\ wpc'[w] \in {"scan", "emit"}
    /\ wpc' \in [Senders -> {"init", "take", "done"} \cup Busy]
    /\ pos' \in [Senders -> 0..NScanners]
    /\ \A v \in Senders \ {w} : wpc'[v] = wpc[v] /\ pos'[v] = pos[v]
    /\ wpc'[w] = "scan" => pos'[w] \in Scanners

(* Advance moves one sender, to one of the two stops.                      *)
LEMMA AdvanceMoves ==
    ASSUME TypeOK, NEW w \in Senders, NEW j, NEW p \in 1..NScanners + 1,
           Advance(w, j, p)
    PROVE  Moved(w)
<1>1. Matching(j, p) \subseteq Scanners
  BY ScannersAssumption DEF Matching, Scanners
<1>2. CASE Matching(j, p) = {}
  BY <1>2 DEF Advance, Moved, TypeOK, Busy
<1>3. CASE Matching(j, p) # {}
  <2>1. PICK s \in Matching(j, p) : pos' = [pos EXCEPT ![w] = s]
    BY <1>3 DEF Advance
  <2>2. s \in 0..NScanners
    BY <1>1, ScannersAssumption DEF Scanners
  <2> QED BY <1>1, <1>3, <2>1, <2>2 DEF Advance, Moved, TypeOK, Busy
<1> QED BY <1>2, <1>3

(* The steps of the main goroutine keep every type.                        *)
LEMMA TypeMain == ASSUME TypeOK, Main PROVE TypeOK'
<1>1. CASE InputTarget
  <2>1. nextIn \in Jobs /\ nextIn' \in 1..NTargets + 1
    BY <1>1, InputAssumption DEF InputTarget, InputDone, TypeOK, Jobs
  <2>2. processQueue' \in Seq(Jobs) /\ Len(processQueue') <= QueueCap
    BY <1>1, <2>1, QueueCapType DEF InputTarget, TypeOK
  <2> QED BY <1>1, <2>1, <2>2 DEF InputTarget, TypeOK, oqVars, scVars,
             senderVars, lineVars, outVars, monVars
<1>2. CASE InputFails
  BY <1>2 DEF InputFails, Die, TypeOK, mainVars, pqVars, oqVars, scVars,
             senderVars, lineVars, outVars, monVars
<1>3. CASE CloseInput
  BY <1>3 DEF CloseInput, TypeOK, mainVars, pqVars, oqVars, scVars,
             senderVars, lineVars, outVars, monVars
<1>4. CASE CloseOutput
  BY <1>4 DEF CloseOutput, TypeOK, mainVars, pqVars, oqVars, scVars,
             senderVars, lineVars, outVars, monVars
<1>5. CASE StopMonitor
  BY <1>5 DEF StopMonitor, TypeOK, mainVars, pqVars, oqVars, scVars,
             senderVars, lineVars, outVars, monVars
<1>6. CASE WriteSummary
  BY <1>6 DEF WriteSummary, TypeOK, mainVars, pqVars, oqVars, scVars,
             senderVars, lineVars, outVars, monVars
<1>7. CASE SummaryFails
  BY <1>7 DEF SummaryFails, Die, TypeOK, mainVars, pqVars, oqVars, scVars,
             senderVars, lineVars, outVars, monVars
<1> QED BY <1>1, <1>2, <1>3, <1>4, <1>5, <1>6, <1>7 DEF Main

(* The steps of a sender keep every type.                                  *)
LEMMA TypeSender ==
    ASSUME TypeOK, NEW w \in Senders, Sender(w) PROVE TypeOK'
<1>1. CASE InitPerSender(w)
  BY <1>1 DEF InitPerSender, TypeOK, Busy, mainVars, pqVars, oqVars, scVars,
             lineVars, outVars, monVars
<1>2. CASE TakeTarget(w)
  <2>1. /\ Head(processQueue) \in Jobs
        /\ processQueue' \in Seq(Jobs) /\ Len(processQueue') <= QueueCap
    BY <1>2, QueueCapType DEF TakeTarget, TypeOK
  <2>2. obj' \in [Senders -> 0..NTargets] /\ obj'[w] \in Jobs
    BY <1>2, <2>1, InputAssumption DEF TakeTarget, TypeOK, Jobs
  <2>3. run' \in [Senders -> 0..ConnectionsPerHost] /\ run'[w] = 0
    BY <1>2, ConnectionsAssumption DEF TakeTarget, TypeOK
  <2>4. Moved(w)
    <3>1. Advance(w, Head(processQueue), 1)
      BY <1>2 DEF TakeTarget
    <3>2. 1 \in 1..NScanners + 1
      BY ScannersAssumption
    <3> QED BY <3>1, <3>2, AdvanceMoves
  <2>5. \A v \in Senders \ {w} : obj'[v] = obj[v] /\ run'[v] = run[v]
    BY <1>2 DEF TakeTarget, TypeOK
  <2>6. \A v \in Senders : wpc'[v] \in Busy =>
            obj'[v] \in Jobs /\ run'[v] < ConnectionsPerHost
    <3>1. \A v \in Senders \ {w} : wpc'[v] = wpc[v]
      BY <2>4 DEF Moved
    <3>2. \A v \in Senders : wpc[v] \in Busy =>
              obj[v] \in Jobs /\ run[v] < ConnectionsPerHost
      BY DEF TypeOK
    <3> QED BY <2>2, <2>3, <2>5, <3>1, <3>2, ConnectionsAssumption
  <2>7. \A v \in Senders : wpc'[v] \in {"scan", "report"} =>
            pos'[v] \in Scanners
    BY <2>4 DEF Moved, TypeOK
  <2>8. UNCHANGED <<alive, mainPc, nextIn, pqClosed, outputQueue, oqClosed,
                    statusesChan, scClosed, last, res, content, encoded,
                    outPc, result, buffered, written, bufErr, monPc, states>>
    BY <1>2 DEF TakeTarget, mainVars, oqVars, scVars, lineVars, outVars,
                monVars
  <2> QED BY <2>1, <2>2, <2>3, <2>4, <2>6, <2>7, <2>8, SMTT(30) DEF TypeOK, Moved
<1>3. CASE SenderDone(w)
  BY <1>3 DEF SenderDone, TypeOK, Busy, mainVars, pqVars, oqVars, scVars,
             lineVars, outVars, monVars
<1>4. ASSUME NEW r \in Response, Scan(w, r) PROVE TypeOK'
  <2>1. /\ last' \in [Senders -> Response]
        /\ wpc' \in [Senders -> {"init", "take", "done"} \cup Busy]
    BY <1>4 DEF Scan, TypeOK, Busy
  <2>2. \A v \in Senders : /\ wpc'[v] \in Busy => wpc[v] \in Busy
                           /\ wpc'[v] = "scan" => wpc[v] = "scan"
                           /\ wpc'[v] = "report" =>
                                  wpc[v] \in {"scan", "report"}
    BY <1>4 DEF Scan, TypeOK, Busy
  <2> QED BY <1>4, <2>1, <2>2, SMTT(30) DEF Scan, TypeOK, mainVars, pqVars, oqVars,
             scVars, lineVars, outVars, monVars
<1>5. CASE ScanPanics(w)
  BY <1>5 DEF ScanPanics, Die, TypeOK, mainVars, pqVars, oqVars, scVars,
             senderVars, lineVars, outVars, monVars
<1>6. CASE Report(w)
  <2>1. /\ pos[w] \in Scanners /\ obj[w] \in Jobs /\ wpc[w] = "report"
        /\ last[w] \in Response /\ last[w].error \in BOOLEAN
    BY <1>6 DEF Report, TypeOK, Busy, Response
  <2>2. /\ statusesChan' \in Seq([name : Scanners, failure : BOOLEAN])
        /\ Len(statusesChan') <= StatusCap
    BY <1>6, <2>1 DEF Report, StatusFailure, TypeOK, StatusCap
  <2>3. res' \in [Senders -> Results]
    <3>1. res[w] \in Results
      BY DEF TypeOK
    <3>2. [s \in DOMAIN res[w] \cup {pos[w]} |->
              IF s = pos[w] THEN last[w] ELSE res[w][s]] \in Results
      BY <2>1, <3>1, ResultUpdate
    <3> QED BY <1>6, <3>2 DEF Report, TypeOK
  <2>4. UNCHANGED <<alive, mainPc, nextIn, processQueue, pqClosed,
                    outputQueue, oqClosed, scClosed, obj, run, last, content,
                    encoded, outPc, result, buffered, written, bufErr, monPc,
                    states>>
    BY <1>6 DEF Report, mainVars, pqVars, oqVars, lineVars, outVars, monVars
  <2>5. CASE Break(last[w])
    <3>1. wpc' = [wpc EXCEPT ![w] = "emit"] /\ UNCHANGED pos
      BY <1>6, <2>5 DEF Report
    <3>2. /\ wpc' \in [Senders -> {"init", "take", "done"} \cup Busy]
          /\ \A v \in Senders : wpc'[v] \in Busy =>
                obj[v] \in Jobs /\ run[v] < ConnectionsPerHost
          /\ \A v \in Senders : wpc'[v] \in {"scan", "report"} =>
                pos[v] \in Scanners
      BY <2>1, <3>1 DEF TypeOK, Busy
    <3> QED BY <2>2, <2>3, <2>4, <3>1, <3>2 DEF TypeOK
  <2>6. CASE ~Break(last[w])
    <3>1. Moved(w)
      <4>1. Advance(w, obj[w], pos[w] + 1)
        BY <1>6, <2>6 DEF Report
      <4>2. pos[w] + 1 \in 1..NScanners + 1
        BY <2>1, ScannersAssumption DEF Scanners
      <4> QED BY <4>1, <4>2, AdvanceMoves
    <3>2. \A v \in Senders : wpc'[v] \in Busy =>
            obj[v] \in Jobs /\ run[v] < ConnectionsPerHost
      BY <2>1, <3>1 DEF Moved, TypeOK, Busy
    <3>3. \A v \in Senders : wpc'[v] \in {"scan", "report"} =>
            pos'[v] \in Scanners
      BY <3>1 DEF Moved, TypeOK
    <3> QED BY <2>2, <2>3, <2>4, <3>1, <3>2, <3>3, SMTT(30) DEF TypeOK, Moved
  <2> QED BY <2>5, <2>6
<1>7. CASE Emit(w)
  <2> DEFINE g == <<obj[w], run[w]>>
  <2>1. /\ obj[w] \in Jobs /\ run[w] \in 0..ConnectionsPerHost - 1
        /\ wpc[w] = "emit"
        /\ g \in Grabs
    BY <1>7, ConnectionsAssumption DEF Emit, TypeOK, Busy, Grabs
  <2>2. /\ outputQueue' \in Seq(Grabs) /\ Len(outputQueue') <= QueueCap
        /\ encoded' \in SUBSET Grabs
    <3> HIDE DEF g
    <3>1. /\ outputQueue' = Append(outputQueue, g)
          /\ Len(outputQueue) < QueueCap
          /\ encoded' = encoded \cup {g} \/ encoded' = encoded
      BY <1>7 DEF Emit, g
    <3> QED BY <2>1, <3>1, QueueCapType DEF TypeOK
  <2>3. res' \in [Senders -> Results] /\ content' \in [Grabs -> Results]
    BY <1>7, <2>1, NoResultType DEF Emit, TypeOK
  <2>4. run' = [run EXCEPT ![w] = run[w] + 1]
    BY <1>7 DEF Emit
  <2>5. run' \in [Senders -> 0..ConnectionsPerHost]
    BY <2>1, <2>4, ConnectionsAssumption DEF TypeOK
  <2>6. UNCHANGED <<alive, mainPc, nextIn, processQueue, pqClosed, oqClosed,
                    statusesChan, scClosed, obj, last, outPc, result,
                    buffered, written, bufErr, monPc, states>>
    BY <1>7 DEF Emit, mainVars, pqVars, scVars, outVars, monVars
  <2>7. CASE run[w] + 1 < ConnectionsPerHost
    <3>1. Moved(w)
      <4>1. Advance(w, obj[w], 1)
        BY <1>7, <2>7 DEF Emit, MoreConnections
      <4> QED BY <4>1, ScannersAssumption, AdvanceMoves
    <3>2. \A v \in Senders : wpc'[v] \in Busy =>
            obj[v] \in Jobs /\ run'[v] < ConnectionsPerHost
      BY <2>1, <2>4, <2>7, <3>1 DEF Moved, TypeOK, Busy
    <3>3. \A v \in Senders : wpc'[v] \in {"scan", "report"} =>
            pos'[v] \in Scanners
      BY <3>1 DEF Moved, TypeOK
    <3> QED BY <2>2, <2>3, <2>5, <2>6, <3>1, <3>2, <3>3, SMTT(30) DEF TypeOK, Moved
  <2>8. CASE ~(run[w] + 1 < ConnectionsPerHost)
    <3>1. wpc' = [wpc EXCEPT ![w] = "take"] /\ UNCHANGED pos
      BY <1>7, <2>8 DEF Emit, MoreConnections
    <3>2. \A v \in Senders : wpc'[v] \in Busy =>
            obj[v] \in Jobs /\ run'[v] < ConnectionsPerHost
      BY <2>4, <3>1 DEF TypeOK, Busy
    <3> QED BY <2>2, <2>3, <2>5, <2>6, <3>1, <3>2, SMTT(30) DEF TypeOK, Busy
  <2> QED BY <2>7, <2>8
<1> QED BY <1>1, <1>2, <1>3, <1>4, <1>5, <1>6, <1>7 DEF Sender

(* What the bufio.Writer does with n new newlines, and what a flush does,  *)
(* to the copies of each line.                                             *)
LEMMA FitsCounts ==
    ASSUME TypeOK, NEW n \in [Grabs -> Nat], Fits(n)
    PROVE  /\ buffered' \in [Grabs -> Nat] /\ written' \in [Grabs -> Nat]
           /\ \A h \in Grabs :
                 /\ buffered'[h] + written'[h] = buffered[h] + written[h] + n[h]
                 /\ buffered'[h] <= buffered[h] + n[h]
                 /\ written[h] <= written'[h]
<1>1. buffered \in [Grabs -> Nat] /\ written \in [Grabs -> Nat]
  BY DEF TypeOK
<1>2. CASE buffered' = [g \in Grabs |-> buffered[g] + n[g]] /\ written' = written
  BY <1>1, <1>2
<1>3. CASE buffered' = n /\ written' = [g \in Grabs |-> buffered[g] + written[g]]
  BY <1>1, <1>3
<1> QED BY <1>2, <1>3 DEF Fits

LEMMA FlushedCounts ==
    ASSUME TypeOK, Flushed
    PROVE  /\ buffered' \in [Grabs -> Nat] /\ written' \in [Grabs -> Nat]
           /\ \A h \in Grabs :
                  /\ buffered'[h] + written'[h] = buffered[h] + written[h]
                  /\ buffered'[h] = 0
<1>1. buffered \in [Grabs -> Nat] /\ written \in [Grabs -> Nat]
  BY DEF TypeOK
<1> QED BY <1>1 DEF Flushed

(* The steps of the output goroutine keep every type.                      *)
LEMMA TypeOutput == ASSUME TypeOK, Output PROVE TypeOK'
<1>1. CASE ReceiveLine
  <2>1. outputQueue \in Seq(Grabs) /\ outputQueue # <<>> /\ Len(outputQueue) <= QueueCap
    BY <1>1 DEF ReceiveLine, TypeOK
  <2>2. /\ Head(outputQueue) \in Grabs /\ Tail(outputQueue) \in Seq(Grabs)
        /\ Len(Tail(outputQueue)) <= QueueCap
    BY <2>1, QueueCapType
  <2>3. outPc' = "write" /\ result' \in Grabs /\ outputQueue' \in Seq(Grabs) /\ Len(outputQueue') <= QueueCap
    BY <1>1, <2>2 DEF ReceiveLine
  <2>4. UNCHANGED <<alive, mainPc, nextIn, processQueue, pqClosed, oqClosed, statusesChan, scClosed,
                    wpc, obj, run, pos, last, res, content, encoded, buffered, written, bufErr,
                    monPc, states>>
    BY <1>1 DEF ReceiveLine, mainVars, pqVars, scVars, senderVars, lineVars, monVars
  <2> QED BY <2>3, <2>4 DEF TypeOK
<1>2. CASE WriteLine
  <2>1. [g \in Grabs |-> 0] \in [Grabs -> Nat]
    OBVIOUS
  <2>2. buffered' \in [Grabs -> Nat] /\ written' \in [Grabs -> Nat]
    BY <1>2, <2>1, FitsCounts DEF WriteLine
  <2>3. outPc = "write" /\ outPc' = "newline"
    BY <1>2 DEF WriteLine
  <2>4. UNCHANGED <<alive, mainPc, nextIn, processQueue, pqClosed, outputQueue, oqClosed, statusesChan,
                    scClosed, wpc, obj, run, pos, last, res, content, encoded, result, bufErr,
                    monPc, states>>
    BY <1>2 DEF WriteLine, mainVars, pqVars, oqVars, scVars, senderVars, lineVars, monVars
  <2> QED BY <2>2, <2>3, <2>4 DEF TypeOK
<1>3. CASE WriteNewline
  <2>1. [g \in Grabs |-> IF g = result THEN 1 ELSE 0] \in [Grabs -> Nat]
    OBVIOUS
  <2>2. buffered' \in [Grabs -> Nat] /\ written' \in [Grabs -> Nat]
    BY <1>3, <2>1, FitsCounts DEF WriteNewline
  <2>3. \/ outPc' = "flush" /\ result' = result
        \/ outPc' = "recv" /\ result' = NoLine
    BY <1>3 DEF WriteNewline
  <2>4. result \in Grabs
    BY <1>3 DEF WriteNewline, TypeOK
  <2>5. UNCHANGED <<alive, mainPc, nextIn, processQueue, pqClosed, outputQueue, oqClosed, statusesChan,
                    scClosed, wpc, obj, run, pos, last, res, content, encoded, bufErr, monPc, states>>
    BY <1>3 DEF WriteNewline, mainVars, pqVars, oqVars, scVars, senderVars, lineVars, monVars
  <2> QED BY <2>2, <2>3, <2>4, <2>5 DEF TypeOK
<1>4. CASE FlushLine
  <2>1. /\ buffered' \in [Grabs -> Nat] /\ written' \in [Grabs -> Nat] /\ bufErr' \in BOOLEAN
    <3>1. CASE Flushed /\ UNCHANGED bufErr
      BY <3>1, FlushedCounts DEF TypeOK
    <3>2. CASE bufErr' = TRUE /\ UNCHANGED <<buffered, written>>
      BY <3>2 DEF TypeOK
    <3> QED BY <1>4, <3>1, <3>2 DEF FlushLine
  <2>2. outPc' = "recv" /\ result' = NoLine
    BY <1>4 DEF FlushLine
  <2>3. UNCHANGED <<alive, mainPc, nextIn, processQueue, pqClosed, outputQueue, oqClosed, statusesChan,
                    scClosed, wpc, obj, run, pos, last, res, content, encoded, monPc, states>>
    BY <1>4 DEF FlushLine, mainVars, pqVars, oqVars, scVars, senderVars, lineVars, monVars
  <2> QED BY <2>1, <2>2, <2>3 DEF TypeOK
<1>5. CASE WriteFails
  BY <1>5 DEF WriteFails, Die, TypeOK, mainVars, pqVars, oqVars, scVars,
              senderVars, lineVars, outVars, monVars
<1>6. CASE OutputEnd
  <2>1. /\ buffered' \in [Grabs -> Nat] /\ written' \in [Grabs -> Nat] /\ bufErr' \in BOOLEAN
    <3>1. CASE Flushed /\ UNCHANGED bufErr
      BY <3>1, FlushedCounts DEF TypeOK
    <3>2. CASE bufErr' = TRUE /\ UNCHANGED <<written, buffered>>
      BY <3>2 DEF TypeOK
    <3> QED BY <1>6, <3>1, <3>2 DEF OutputEnd
  <2>2. outPc = "recv" /\ outPc' = "done" /\ result' = result
    BY <1>6 DEF OutputEnd
  <2>3. UNCHANGED <<alive, mainPc, nextIn, processQueue, pqClosed, outputQueue, oqClosed, statusesChan,
                    scClosed, wpc, obj, run, pos, last, res, content, encoded, monPc, states>>
    BY <1>6 DEF OutputEnd, mainVars, pqVars, oqVars, scVars, senderVars, lineVars, monVars
  <2> QED BY <2>1, <2>2, <2>3 DEF TypeOK
<1> QED BY <1>1, <1>2, <1>3, <1>4, <1>5, <1>6 DEF Output

(* The steps of the monitor goroutine keep every type.                     *)
LEMMA TypeMonitor == ASSUME TypeOK, Monitor PROVE TypeOK'
<1>1. CASE CountStatus
  <2> DEFINE m == Head(statusesChan)
  <2>1. /\ m \in [name : Scanners, failure : BOOLEAN]
        /\ statusesChan' \in Seq([name : Scanners, failure : BOOLEAN])
        /\ Len(statusesChan') <= StatusCap
    <3>1. statusesChan \in Seq([name : Scanners, failure : BOOLEAN])
      BY DEF TypeOK
    <3>2. Len(statusesChan) <= StatusCap /\ StatusCap \in Nat
      BY DEF TypeOK, StatusCap
    <3>3. statusesChan # <<>> /\ statusesChan' = Tail(statusesChan)
      BY <1>1 DEF CountStatus
    <3>4. m \in [name : Scanners, failure : BOOLEAN]
          /\ statusesChan' \in Seq([name : Scanners, failure : BOOLEAN])
          /\ Len(statusesChan') = Len(statusesChan) - 1
          /\ Len(statusesChan) \in Nat
      BY ONLY <3>1, <3>3, TailFacts, Zenon DEF m
    <3> QED BY <3>2, <3>4
  <2>2. states' \in [Scanners -> [Successes : Nat, Failures : Nat]]
    <3>1. /\ states \in [Scanners -> [Successes : Nat, Failures : Nat]]
          /\ m.name \in Scanners
      BY <2>1 DEF TypeOK
    <3>2. \/ states' = [states EXCEPT ![m.name].Failures = @ + 1]
          \/ states' = [states EXCEPT ![m.name].Successes = @ + 1]
      BY <1>1 DEF CountStatus
    <3> HIDE DEF m
    <3> QED BY ONLY <3>1, <3>2
  <2> QED BY <1>1, <2>1, <2>2, ZenonT(30) DEF CountStatus, TypeOK, mainVars, pqVars,
              oqVars, senderVars, lineVars, outVars
<1>2. CASE CallbackFails
  BY <1>2 DEF CallbackFails, Die, TypeOK, mainVars, pqVars, oqVars, scVars,
              senderVars, lineVars, outVars, monVars
<1>3. CASE MonitorEnd
  BY <1>3 DEF MonitorEnd, TypeOK, mainVars, pqVars, oqVars, scVars,
              senderVars, lineVars, outVars
<1> QED BY <1>1, <1>2, <1>3 DEF Monitor

(* Every step keeps every type.                                            *)
LEMMA TypeStep == TypeOK /\ [Next]_vars => TypeOK'
<1> SUFFICES ASSUME TypeOK, [Next]_vars PROVE TypeOK'
  OBVIOUS
<1>1. CASE Step
  BY <1>1, TypeMain, TypeOutput, TypeMonitor, TypeSender DEF Step
<1>2. CASE UNCHANGED vars
  BY <1>2 DEF TypeOK, vars, mainVars, pqVars, oqVars, scVars, senderVars,
              lineVars, outVars, monVars
<1> QED BY <1>1, <1>2 DEF Next, Ended

(* Type correctness of the grab framework, for any number of senders: in   *)
(* particular the queues stay within their capacity and a busy sender      *)
(* always holds a target of the input and a connection number in range.    *)
THEOREM TypeCorrect == Spec => []TypeOK
<1>1. Init => TypeOK
  BY TypeInit
<1>2. TypeOK /\ [Next]_vars => TypeOK'
  BY TypeStep
<1> QED BY <1>1, <1>2, PTL DEF Spec

-----------------------------------------------------------------------------
(* The inductive invariant.                                                *)

(* It holds initially.                                                     *)
LEMMA IndInit == Init => IndInv
<1> SUFFICES ASSUME Init PROVE IndInv
  OBVIOUS
<1>1. TypeOK
  BY TypeInit
<1>2. /\ Len(processQueue) = 0 /\ Len(outputQueue) = 0
      /\ nextIn = 1 /\ Taken = 0
      /\ \A w \in Senders : wpc[w] = "init"
      /\ \A g \in Grabs : buffered[g] = 0 /\ written[g] = 0
      /\ outPc = "recv"
  <2>1. processQueue = <<>> /\ outputQueue = <<>> /\ nextIn = 1 /\ outPc = "recv"
    BY DEF Init
  <2>2. /\ \A w \in Senders : wpc[w] = "init"
        /\ \A g \in Grabs : buffered[g] = 0 /\ written[g] = 0
    BY DEF Init
  <2>3. Len(processQueue) = 0 /\ Len(outputQueue) = 0
    BY <2>1
  <2>4. Taken = 0
    <3>1. nextIn = 1
      BY <2>1
    <3> QED BY ONLY <2>3, <3>1 DEF Taken
  <2> QED BY <2>1, <2>2, <2>3, <2>4
<1>3. ShutdownInv
  BY <1>2 DEF Init, ShutdownInv
<1>4. TargetInv
  BY <1>2 DEF TargetInv, Busy
<1>6. \A g \in Grabs : ~Queued(g) /\ ~Emitted(g) /\ ~(g[1] <= Taken)
  <2> SUFFICES ASSUME NEW g \in Grabs
               PROVE  ~Queued(g) /\ ~Emitted(g) /\ ~(g[1] <= Taken)
    OBVIOUS
  <2>1. g[1] \in Nat /\ g[1] > 0
    BY InputAssumption DEF Grabs, Jobs
  <2> QED BY <1>2, <2>1 DEF Emitted, Queued, InHand
<1>7. LineInv
  BY <1>2, <1>6 DEF LineInv, InHand
<1> QED BY <1>1, <1>3, <1>4, <1>7 DEF IndInv

(* A step that moves no target and no line, and no sender in or out of a   *)
(* grab, keeps what the invariant says of them.                            *)
LEMMA QuietStep ==
    ASSUME IndInv,
           UNCHANGED <<nextIn, processQueue, obj, run, outputQueue, outPc, result,
                       buffered, written>>,
           \A w \in Senders : wpc'[w] \in Busy <=> wpc[w] \in Busy
    PROVE  TargetInv' /\ LineInv'
<1>1. TargetInv'
  BY DEF IndInv, TargetInv, Taken
<1>2. LineInv'
  BY DEF IndInv, LineInv, Taken, Emitted, Queued, InHand
<1> QED BY <1>1, <1>2

(* The steps of the main goroutine keep the invariant.                     *)
LEMMA IndMain == ASSUME IndInv, alive = "running", Main PROVE IndInv'
<1>1. TypeOK'
  BY TypeMain DEF IndInv
<1>2. CASE InputTarget
  <2>1. /\ processQueue' = Append(processQueue, nextIn)
        /\ nextIn' = nextIn + 1 /\ mainPc = "input" /\ nextIn <= NTargets
        /\ UNCHANGED <<alive, mainPc, pqClosed, outputQueue, oqClosed,
                       scClosed, wpc, obj, run, outPc, result, buffered, written,
                       bufErr>>
    BY <1>2, InputAssumption
       DEF InputTarget, InputDone, IndInv, TypeOK, oqVars, scVars, senderVars, outVars
  <2>2. /\ processQueue \in Seq(Jobs) /\ nextIn \in Nat
        /\ Len(processQueue) \in Nat
    BY InputAssumption DEF IndInv, TypeOK, Jobs
  <2>3. /\ Len(processQueue') = Len(processQueue) + 1
        /\ \A i \in 1..Len(processQueue) : processQueue'[i] = processQueue[i]
        /\ processQueue'[Len(processQueue) + 1] = nextIn
    BY <2>1, <2>2
  <2>4. /\ Taken' = Taken /\ Taken \in Int
        /\ nextIn = Taken + Len(processQueue) + 1
    BY <2>1, <2>2, <2>3 DEF Taken
  <2>5. ShutdownInv'
    BY <2>1 DEF IndInv, ShutdownInv
  <2>6. TargetInv'
    <3>1. \A i \in 1..Len(processQueue') : processQueue'[i] = Taken + i
      <4>1. \A i \in 1..Len(processQueue) : processQueue'[i] = Taken + i
        BY <2>3 DEF IndInv, TargetInv
      <4> QED BY <2>2, <2>3, <2>4, <4>1
    <3> QED BY <2>1, <2>4, <3>1 DEF IndInv, TargetInv
  <2>7. LineInv'
    BY <2>1, <2>4 DEF IndInv, LineInv, Emitted, Queued, InHand
  <2> QED BY <1>1, <2>5, <2>6, <2>7 DEF IndInv
<1>3. CASE ~InputTarget
  <2>1. ShutdownInv'
    <3>1. CASE InputFails \/ SummaryFails
      <4>1. /\ alive' = "fatal"
            /\ UNCHANGED <<mainPc, nextIn, processQueue, pqClosed,
                          outputQueue, oqClosed, scClosed, wpc, outPc,
                          buffered, bufErr>>
        BY <3>1 DEF InputFails, SummaryFails, Die, mainVars, pqVars, oqVars,
                    scVars, senderVars, outVars
      <4> QED BY <4>1 DEF IndInv, ShutdownInv
    <3>2. CASE CloseInput
      BY <3>2, InputAssumption
         DEF CloseInput, InputDone, IndInv, TypeOK, ShutdownInv, oqVars, scVars,
             senderVars, outVars
    <3>3. CASE CloseOutput
      BY <3>3 DEF CloseOutput, WorkersDone, IndInv, TypeOK, ShutdownInv, pqVars, scVars,
                  senderVars, outVars
    <3>4. CASE StopMonitor
      BY <3>4 DEF StopMonitor, IndInv, TypeOK, ShutdownInv, pqVars, oqVars,
                  senderVars, outVars
    <3>5. CASE WriteSummary
      BY <3>5 DEF WriteSummary, IndInv, TypeOK, ShutdownInv, pqVars, oqVars,
                  scVars, senderVars, outVars
    <3> QED BY <1>3, <3>1, <3>2, <3>3, <3>4, <3>5 DEF Main
  <2>2. UNCHANGED <<nextIn, processQueue, wpc, obj, run, outputQueue,
                    outPc, result, buffered, written>>
    BY <1>3 DEF Main, InputFails, CloseInput, CloseOutput, StopMonitor,
                WriteSummary, SummaryFails, Die, mainVars, pqVars, oqVars,
                senderVars, outVars
  <2>3. TargetInv' /\ LineInv'
    BY <2>2, QuietStep
  <2> QED BY <1>1, <2>1, <2>3 DEF IndInv
<1> QED BY <1>2, <1>3

(* The steps of the monitor goroutine keep the invariant: it shares only   *)
(* statusesChan with the others.                                           *)
LEMMA IndMonitor == ASSUME IndInv, alive = "running", Monitor PROVE IndInv'
<1>1. TypeOK'
  BY TypeMonitor DEF IndInv
<1>2. /\ UNCHANGED <<mainPc, nextIn, processQueue, pqClosed, outputQueue,
                     oqClosed, scClosed, wpc, obj, run, outPc, result, buffered,
                     written, bufErr>>
      /\ alive' \in {"running", "fatal"}
  BY DEF Monitor, CountStatus, CallbackFails, MonitorEnd, Die, mainVars,
         pqVars, oqVars, scVars, senderVars, outVars
<1>3. ShutdownInv'
  BY <1>2 DEF IndInv, ShutdownInv
<1>4. TargetInv' /\ LineInv'
  BY <1>2, QuietStep
<1> QED BY <1>1, <1>3, <1>4 DEF IndInv

(* A sender takes the next target: it becomes the one sender of it.        *)
LEMMA IndTake ==
    ASSUME IndInv, alive = "running", NEW w \in Senders, TakeTarget(w)
    PROVE  ShutdownInv' /\ TargetInv' /\ LineInv'
<1> DEFINE j == Head(processQueue)
<1>1. Moved(w)
  <2>1. Advance(w, j, 1) /\ 1 \in 1..NScanners + 1 /\ TypeOK
    BY ScannersAssumption DEF TakeTarget, IndInv
  <2> QED BY <2>1, AdvanceMoves
<1>2. /\ processQueue # <<>> /\ processQueue' = Tail(processQueue)
      /\ obj' = [obj EXCEPT ![w] = j] /\ run' = [run EXCEPT ![w] = 0]
      /\ wpc[w] = "take"
      /\ UNCHANGED <<alive, mainPc, nextIn, pqClosed, outputQueue, oqClosed,
                     scClosed, outPc, result, buffered, written, bufErr>>
  BY DEF TakeTarget, mainVars, oqVars, scVars, outVars
<1>3. /\ processQueue \in Seq(Jobs) /\ nextIn \in Nat
      /\ obj \in [Senders -> 0..NTargets]
      /\ run \in [Senders -> 0..ConnectionsPerHost]
  BY InputAssumption DEF IndInv, TypeOK
<1>4. /\ Len(processQueue') = Len(processQueue) - 1
      /\ Len(processQueue) \in Nat \ {0}
      /\ j = processQueue[1]
      /\ \A i \in 1..Len(processQueue) - 1 :
             processQueue'[i] = processQueue[i + 1]
  <2>1. /\ Len(processQueue') = Len(processQueue) - 1
        /\ Len(processQueue) \in Nat
        /\ j = processQueue[1]
        /\ \A i \in 1..Len(processQueue) - 1 :
             processQueue'[i] = processQueue[i + 1]
    BY <1>2, <1>3, TailFacts, Zenon
  <2>2. Len(processQueue) # 0
    BY <1>2, <1>3
  <2> QED BY <2>1, <2>2
<1>5. Taken' = Taken + 1 /\ Taken \in Int /\ j = Taken + 1
  <2>1. Taken' = Taken + 1 /\ Taken \in Int
    BY <1>2, <1>3, <1>4 DEF Taken
  <2>2. processQueue[1] = Taken + 1
    BY <1>4 DEF IndInv, TargetInv
  <2> QED BY <1>4, <2>1, <2>2
<1>6. /\ wpc'[w] \in Busy /\ wpc[w] \notin Busy
      /\ obj'[w] = j /\ run'[w] = 0
      /\ \A v \in Senders \ {w} :
             wpc'[v] = wpc[v] /\ obj'[v] = obj[v] /\ run'[v] = run[v]
  BY <1>1, <1>2, <1>3 DEF Moved, Busy
<1> HIDE DEF j
<1>7. ShutdownInv'
  <2>1. ~oqClosed /\ \A v \in Senders : wpc'[v] = "done" => wpc[v] = "done"
    BY <1>1, <1>2, <1>6 DEF IndInv, ShutdownInv, Moved
  <2>2. \A v \in Senders : wpc[v] # "done"
    BY <1>2 DEF IndInv, ShutdownInv
  <2> QED BY <1>2, <2>1, <2>2 DEF IndInv, ShutdownInv
<1>8. TargetInv'
  <2>1. \A i \in 1..Len(processQueue') : processQueue'[i] = Taken' + i
    <3>1. \A i \in 1..Len(processQueue) : processQueue[i] = Taken + i
      BY DEF IndInv, TargetInv
    <3> QED BY <1>4, <1>5, <3>1
  <2>2. \A v \in Senders \ {w} : wpc[v] \in Busy => obj[v] <= Taken
    BY DEF IndInv, TargetInv
  <2>3. \A v \in Senders : obj[v] \in Int
    BY <1>3, InputAssumption
  <2>4. \A v \in Senders : wpc'[v] \in Busy => obj'[v] <= Taken'
    BY <1>5, <1>6, <2>2, <2>3
  <2>5. \A v \in Senders \ {w} : wpc'[v] \in Busy => obj'[v] # obj'[w]
    BY <1>5, <1>6, <2>2, <2>3
  <2>6. \A u, v \in Senders :
           u # v /\ wpc'[u] \in Busy /\ wpc'[v] \in Busy => obj'[u] # obj'[v]
    BY <1>6, <2>5 DEF IndInv, TargetInv
  <2> QED BY <2>1, <2>4, <2>6 DEF TargetInv
<1>9. LineInv'
  <2>1. \A g \in Grabs : Queued(g)' <=> Queued(g)
    BY <1>2 DEF Queued
  <2>2. \A g \in Grabs : Emitted(g)' <=> Emitted(g)
    BY <1>2, <2>1 DEF Emitted, InHand
  <2>3. ASSUME NEW g \in Grabs
        PROVE  Emitted(g)' <=>
           /\ g[1] <= Taken'
           /\ \A v \in Senders :
                  wpc'[v] \in Busy /\ obj'[v] = g[1] => g[2] < run'[v]
    <3>1. g[1] \in Nat /\ g[2] \in Nat
      BY <2>3, InputAssumption, ConnectionsAssumption DEF Grabs, Jobs
    <3>2. Emitted(g) <=>
           /\ g[1] <= Taken
           /\ \A v \in Senders :
                  wpc[v] \in Busy /\ obj[v] = g[1] => g[2] < run[v]
      BY <2>3 DEF IndInv, LineInv
    <3>3. CASE g[1] = Taken + 1
      BY <1>5, <1>6, <2>2, <2>3, <3>1, <3>2, <3>3
    <3>4. CASE g[1] # Taken + 1
      BY <1>5, <1>6, <2>2, <2>3, <3>1, <3>2, <3>4
    <3> QED BY <3>3, <3>4
  <2>4. \A g \in Grabs : InHand(g)' <=> InHand(g)
    BY <1>2 DEF InHand
  <2> QED BY <1>2, <2>1, <2>3, <2>4 DEF IndInv, LineInv
<1> QED BY <1>7, <1>8, <1>9

(* A sender emits its line: it is the first to emit it, and the last.      *)
LEMMA IndEmit ==
    ASSUME IndInv, alive = "running", NEW w \in Senders, Emit(w)
    PROVE  ShutdownInv' /\ TargetInv' /\ LineInv'
<1> DEFINE g == <<obj[w], run[w]>>
<1>1. /\ wpc[w] = "emit"
      /\ outputQueue' = Append(outputQueue, g)
      /\ run' = [run EXCEPT ![w] = run[w] + 1]
      /\ UNCHANGED <<alive, mainPc, nextIn, processQueue, pqClosed, oqClosed,
                     scClosed, obj, outPc, result, buffered, written, bufErr>>
  BY DEF Emit, mainVars, pqVars, scVars, outVars
<1>2. /\ obj[w] \in Jobs /\ run[w] \in 0..ConnectionsPerHost - 1
      /\ g \in Grabs /\ wpc[w] \in Busy
      /\ run \in [Senders -> 0..ConnectionsPerHost]
      /\ outputQueue \in Seq(Grabs)
  BY <1>1, ConnectionsAssumption DEF IndInv, TypeOK, Busy, Grabs
<1>3. /\ run'[w] = run[w] + 1
      /\ \A v \in Senders \ {w} : wpc'[v] = wpc[v] /\ run'[v] = run[v]
      /\ \/ wpc'[w] \in Busy
         \/ wpc'[w] = "take" /\ run[w] + 1 = ConnectionsPerHost
  <2>1. run'[w] = run[w] + 1 /\ \A v \in Senders \ {w} : run'[v] = run[v]
    BY <1>1, <1>2
  <2>2. CASE run[w] + 1 < ConnectionsPerHost
    <3>1. Advance(w, obj[w], 1)
      BY <2>2 DEF Emit, MoreConnections
    <3>2. 1 \in 1..NScanners + 1 /\ TypeOK
      BY ScannersAssumption DEF IndInv
    <3>3. Moved(w)
      BY <3>1, <3>2, AdvanceMoves
    <3> QED BY <2>1, <3>3 DEF Moved, Busy
  <2>3. CASE ~(run[w] + 1 < ConnectionsPerHost)
    <3>1. wpc' = [wpc EXCEPT ![w] = "take"]
      BY <2>3 DEF Emit, MoreConnections
    <3>2. run[w] + 1 = ConnectionsPerHost
      BY <1>2, <2>3, ConnectionsAssumption
    <3> QED BY <2>1, <3>1, <3>2 DEF IndInv, TypeOK
  <2> QED BY <2>2, <2>3
<1>4. /\ Len(outputQueue') = Len(outputQueue) + 1
      /\ Len(outputQueue) \in Nat
      /\ \A i \in 1..Len(outputQueue) : outputQueue'[i] = outputQueue[i]
      /\ outputQueue'[Len(outputQueue) + 1] = g
  <2> HIDE DEF g
  <2> QED BY <1>1, <1>2
<1>5. ~Emitted(g)
  <2>1. g[1] = obj[w] /\ g[2] = run[w] /\ ~(run[w] < run[w])
    BY <1>2
  <2> HIDE DEF g
  <2> QED BY <1>2, <2>1 DEF IndInv, LineInv
<1>6. \A h \in Grabs : Queued(h)' <=> Queued(h) \/ h = g
  <2> HIDE DEF g
  <2> QED BY <1>4 DEF Queued
<1>7. ShutdownInv'
  <2>1. ~oqClosed /\ ~scClosed /\ outPc # "done"
    BY <1>1 DEF IndInv, ShutdownInv
  <2>2. \A v \in Senders : wpc'[v] = "done" => wpc[v] = "done"
    BY <1>3 DEF Busy
  <2> QED BY <1>1, <2>1, <2>2 DEF IndInv, ShutdownInv
<1>8. TargetInv'
  <2>1. \A v \in Senders : wpc'[v] \in Busy => wpc[v] \in Busy
    BY <1>2, <1>3
  <2> QED BY <1>1, <2>1 DEF IndInv, TargetInv, Taken
<1>9. LineInv'
  <2>1. buffered[g] + written[g] = 0
    <3>1. buffered[g] \in Nat /\ written[g] \in Nat
      BY <1>2 DEF IndInv, TypeOK
    <3> QED BY <1>5, <3>1 DEF Emitted
  <2>2. /\ \A h \in Grabs : InHand(h)' <=> InHand(h)
        /\ ~InHand(g)
    BY <1>1, <1>5 DEF InHand, Emitted
  <2>6. \A h \in Grabs :
          /\ Queued(h)' \/ InHand(h)' => buffered'[h] + written'[h] = 0
          /\ ~(Queued(h)' /\ InHand(h)')
    <3> HIDE DEF g
    <3> QED BY <1>1, <1>6, <2>1, <2>2 DEF IndInv, LineInv
  <2>3. \A i, k \in 1..Len(outputQueue') :
           i # k => outputQueue'[i] # outputQueue'[k]
    <3>1. \A i \in 1..Len(outputQueue) : outputQueue[i] # g
      BY <1>5 DEF Emitted, Queued
    <3>2. \A i, k \in 1..Len(outputQueue) :
             i # k => outputQueue[i] # outputQueue[k]
      BY DEF IndInv, LineInv
    <3> HIDE DEF g
    <3> QED BY <1>4, <3>1, <3>2
  <2>4. ASSUME NEW h \in Grabs
        PROVE  Emitted(h)' <=>
           /\ h[1] <= Taken'
           /\ \A v \in Senders :
                  wpc'[v] \in Busy /\ obj'[v] = h[1] => h[2] < run'[v]
    <3>1. /\ h = <<h[1], h[2]>> /\ h[1] \in Nat
          /\ h[2] \in 0..ConnectionsPerHost - 1
      BY <2>4, InputAssumption DEF Grabs, Jobs
    <3>2. Emitted(h)' <=> Emitted(h) \/ h = g
      BY <1>1, <1>6, <2>2, <2>4 DEF Emitted
    <3>3. Emitted(h) <=>
           /\ h[1] <= Taken
           /\ \A v \in Senders :
                  wpc[v] \in Busy /\ obj[v] = h[1] => h[2] < run[v]
      BY <2>4 DEF IndInv, LineInv
    <3>4. Taken' = Taken /\ obj' = obj
      BY <1>1 DEF Taken
    <3>5. CASE h[1] # obj[w]
      <4>1. h # g
        BY <3>5
      <4> QED BY <1>3, <3>2, <3>3, <3>4, <3>5, <4>1
    <3>6. CASE h[1] = obj[w]
      <4>1. /\ h[1] <= Taken
            /\ \A v \in Senders \ {w} : wpc[v] \in Busy => obj[v] # h[1]
        BY <1>2, <3>6 DEF IndInv, TargetInv
      <4>2. h = g <=> h[2] = run[w]
        BY <3>1, <3>6
      <4>3. Emitted(h)' <=> h[2] < run[w] + 1
        BY <1>2, <3>1, <3>2, <3>3, <3>6, <4>1, <4>2, ConnectionsAssumption
      <4>4. (\A v \in Senders :
                wpc'[v] \in Busy /\ obj[v] = h[1] => h[2] < run'[v])
            <=> h[2] < run[w] + 1
        <5>1. CASE wpc'[w] \in Busy
          BY <1>3, <3>6, <4>1, <5>1
        <5>2. CASE wpc'[w] \notin Busy
          BY <1>3, <3>1, <3>6, <4>1, <5>2, ConnectionsAssumption
        <5> QED BY <5>1, <5>2
      <4> QED BY <3>4, <4>1, <4>3, <4>4
    <3> QED BY <3>5, <3>6
  <2>5. \A h \in Grabs : buffered'[h] + written'[h] <= 1
    BY <1>1 DEF IndInv, LineInv
  <2> QED BY <2>3, <2>4, <2>5, <2>6 DEF LineInv
<1> QED BY <1>7, <1>8, <1>9

(* The steps of a sender keep the invariant.                               *)
LEMMA IndSender ==
    ASSUME IndInv, alive = "running", NEW w \in Senders, Sender(w)
    PROVE  IndInv'
<1>1. TypeOK'
  BY TypeSender DEF IndInv
<1>2. CASE TakeTarget(w)
  BY <1>1, <1>2, IndTake DEF IndInv
<1>3. CASE Emit(w)
  BY <1>1, <1>3, IndEmit DEF IndInv
<1>4. CASE SenderDone(w)
  <2>1. /\ wpc[w] = "take" /\ wpc' = [wpc EXCEPT ![w] = "done"]
        /\ processQueue = <<>> /\ pqClosed
        /\ UNCHANGED <<alive, mainPc, nextIn, processQueue, pqClosed,
                       outputQueue, oqClosed, scClosed, obj, run, outPc, result,
                       buffered, written, bufErr>>
    BY <1>4 DEF SenderDone, mainVars, pqVars, oqVars, scVars, outVars
  <2>2. \A v \in Senders : /\ wpc'[v] \in Busy <=> wpc[v] \in Busy
                           /\ wpc[v] = "done" => wpc'[v] = "done"
    BY <2>1 DEF IndInv, TypeOK, Busy
  <2>3. ShutdownInv'
    BY <2>1, <2>2 DEF IndInv, ShutdownInv
  <2>4. TargetInv' /\ LineInv'
    BY <2>1, <2>2, QuietStep
  <2> QED BY <1>1, <2>3, <2>4 DEF IndInv
<1>5. CASE InitPerSender(w) \/ (\E r \in Response : Scan(w, r))
           \/ ScanPanics(w) \/ Report(w)
  <2>1. /\ alive' \in {"running", "panicked"}
        /\ UNCHANGED <<mainPc, nextIn, processQueue, pqClosed, outputQueue,
                       oqClosed, scClosed, obj, run, outPc, result, buffered, written,
                       bufErr>>
    BY <1>5 DEF InitPerSender, Scan, ScanPanics, Die, Report, mainVars,
                pqVars, oqVars, scVars, senderVars, outVars
  <2>2. /\ wpc[w] # "done" /\ wpc'[w] # "done"
        /\ wpc'[w] \in Busy <=> wpc[w] \in Busy
        /\ \A v \in Senders \ {w} : wpc'[v] = wpc[v]
    <3>1. CASE InitPerSender(w)
      BY <3>1 DEF InitPerSender, IndInv, TypeOK, Busy
    <3>2. CASE \E r \in Response : Scan(w, r)
      BY <3>2 DEF Scan, IndInv, TypeOK, Busy
    <3>3. CASE ScanPanics(w)
      BY <3>3 DEF ScanPanics, Die, senderVars, IndInv, TypeOK, Busy
    <3>4. CASE Report(w)
      <4>1. wpc[w] = "report" /\ pos[w] \in Scanners
        BY <3>4 DEF Report, IndInv, TypeOK
      <4>2. CASE Break(last[w])
        <5>1. wpc' = [wpc EXCEPT ![w] = "emit"]
          BY <3>4, <4>2 DEF Report
        <5> QED BY <4>1, <5>1 DEF IndInv, TypeOK, Busy
      <4>3. CASE ~Break(last[w])
        <5>1. Advance(w, obj[w], pos[w] + 1)
          BY <3>4, <4>3 DEF Report
        <5>2. pos[w] + 1 \in 1..NScanners + 1 /\ TypeOK
          BY <4>1, ScannersAssumption DEF Scanners, IndInv
        <5>3. Moved(w)
          BY <5>1, <5>2, AdvanceMoves
        <5> QED BY <4>1, <5>3 DEF Moved, Busy
      <4> QED BY <4>2, <4>3
    <3> QED BY <1>5, <3>1, <3>2, <3>3, <3>4
  <2>3. ShutdownInv'
    BY <2>1, <2>2 DEF IndInv, ShutdownInv
  <2>4. TargetInv' /\ LineInv'
    BY <2>1, <2>2, QuietStep
  <2> QED BY <1>1, <2>3, <2>4 DEF IndInv
<1> QED BY <1>2, <1>3, <1>4, <1>5 DEF Sender

(* The newline makes the line in hand a copy handed to the writer, and     *)
(* changes the number of no other line.                                    *)
LEMMA NewlineCounts ==
    ASSUME IndInv, WriteNewline
    PROVE  /\ result \in Grabs /\ buffered[result] + written[result] = 0
           /\ buffered'[result] + written'[result] = 1
           /\ \A h \in Grabs : h # result =>
                 buffered'[h] + written'[h] = buffered[h] + written[h]
<1>1. TypeOK /\ outPc = "newline"
  BY DEF IndInv, WriteNewline
<1>2. result \in Grabs /\ InHand(result)
  BY <1>1 DEF TypeOK, InHand
<1>3. buffered[result] + written[result] = 0
  BY <1>2 DEF IndInv, LineInv
<1> DEFINE n == [g \in Grabs |-> IF g = result THEN 1 ELSE 0]
<1>4. n \in [Grabs -> Nat] /\ Fits(n)
  BY DEF WriteNewline
<1>5. \A h \in Grabs : buffered'[h] + written'[h] = buffered[h] + written[h] + n[h]
  BY <1>1, <1>4, FitsCounts
<1>6. buffered \in [Grabs -> Nat] /\ written \in [Grabs -> Nat]
  BY <1>1 DEF TypeOK
<1> QED BY <1>2, <1>3, <1>5, <1>6

(* The other steps of the writer change no count: what they move goes to   *)
(* the file, and what fails moves nothing.                                 *)
LEMMA SameCounts ==
    ASSUME IndInv, WriteLine \/ FlushLine \/ OutputEnd
    PROVE  \A h \in Grabs : buffered'[h] + written'[h] = buffered[h] + written[h]
<1>1. TypeOK /\ buffered \in [Grabs -> Nat] /\ written \in [Grabs -> Nat]
  BY DEF IndInv, TypeOK
<1>2. CASE WriteLine
  <2>1. [g \in Grabs |-> 0] \in [Grabs -> Nat] /\ Fits([g \in Grabs |-> 0])
    BY <1>2 DEF WriteLine
  <2> QED BY <1>1, <2>1, FitsCounts
<1>3. CASE FlushLine \/ OutputEnd
  <2>1. CASE Flushed
    BY <1>1, <2>1, FlushedCounts
  <2>2. CASE UNCHANGED <<buffered, written>>
    BY <2>2
  <2> QED BY <1>3, <2>1, <2>2 DEF FlushLine, OutputEnd
<1> QED BY <1>2, <1>3

LEMMA OutputEndFlushes ==
    ASSUME IndInv, OutputEnd PROVE bufErr' \/ \A h \in Grabs : buffered'[h] = 0
<1>1. TypeOK
  BY DEF IndInv
<1> QED BY <1>1, FlushedCounts DEF OutputEnd

(* A step of the writer that neither takes a line nor lets go of one.      *)
LEMMA CountedStep ==
    ASSUME IndInv,
           UNCHANGED <<nextIn, processQueue, wpc, obj, run, outputQueue>>,
           \A h \in Grabs : InHand(h)' <=> InHand(h),
           \A h \in Grabs : buffered'[h] + written'[h] = buffered[h] + written[h]
    PROVE  TargetInv' /\ LineInv'
<1>1. TargetInv'
  BY DEF IndInv, TargetInv, Taken
<1>2. Taken' = Taken /\ \A h \in Grabs : (Queued(h)' <=> Queued(h)) /\ (Emitted(h)' <=> Emitted(h))
  BY DEF Taken, Queued, Emitted
<1>3. LineInv'
  BY <1>2 DEF IndInv, LineInv
<1> QED BY <1>1, <1>3

(* The output goroutine takes a line off outputQueue.                      *)
LEMMA IndReceive ==
    ASSUME IndInv, alive = "running", ReceiveLine
    PROVE  ShutdownInv' /\ TargetInv' /\ LineInv'
<1> DEFINE g == Head(outputQueue)
<1>1. /\ outPc = "recv" /\ outputQueue # <<>> /\ outPc' = "write" /\ result' = g
      /\ outputQueue' = Tail(outputQueue)
      /\ UNCHANGED <<alive, mainPc, nextIn, processQueue, pqClosed,
                     oqClosed, scClosed, wpc, obj, run, buffered, written, bufErr>>
  BY DEF ReceiveLine, mainVars, pqVars, scVars, senderVars
<1>2. outputQueue \in Seq(Grabs)
  BY DEF IndInv, TypeOK
<1>3. /\ Len(outputQueue') = Len(outputQueue) - 1
      /\ Len(outputQueue) \in Nat
      /\ g = outputQueue[1]
      /\ \A i \in 1..Len(outputQueue) - 1 :
             outputQueue'[i] = outputQueue[i + 1]
  BY <1>1, <1>2, TailFacts, Zenon
<1>4. Len(outputQueue) # 0 /\ g \in Grabs
  BY <1>1, <1>2
<1> HIDE DEF g
<1>5. \A i, k \in 1..Len(outputQueue) :
         i # k => outputQueue[i] # outputQueue[k]
  BY DEF IndInv, LineInv
<1>6. \A h \in Grabs : Queued(h)' <=> Queued(h) /\ h # g
  <2> SUFFICES ASSUME NEW h \in Grabs
               PROVE  Queued(h)' <=> Queued(h) /\ h # g
    OBVIOUS
  <2>1. ASSUME Queued(h)' PROVE Queued(h) /\ h # g
    <3>1. PICK i \in 1..Len(outputQueue') : outputQueue'[i] = h
      BY <2>1 DEF Queued
    <3>2. /\ i + 1 \in 1..Len(outputQueue) /\ outputQueue[i + 1] = h
          /\ i + 1 # 1 /\ 1 \in 1..Len(outputQueue)
      BY <1>3, <1>4, <3>1
    <3> QED BY <1>3, <1>5, <3>2 DEF Queued
  <2>2. ASSUME Queued(h), h # g PROVE Queued(h)'
    <3>1. PICK i \in 1..Len(outputQueue) : outputQueue[i] = h
      BY <2>2 DEF Queued
    <3>2. i # 1
      BY <1>3, <2>2, <3>1
    <3>3. /\ i - 1 \in 1..Len(outputQueue')
          /\ i - 1 \in 1..Len(outputQueue) - 1 /\ (i - 1) + 1 = i
      BY <1>3, <3>1, <3>2
    <3>4. outputQueue'[i - 1] = h
      BY <1>3, <3>1, <3>3
    <3> QED BY <3>3, <3>4 DEF Queued
  <2> QED BY <2>1, <2>2
<1>7. ShutdownInv'
  BY <1>1 DEF IndInv, ShutdownInv
<1>8. TargetInv'
  BY <1>1 DEF IndInv, TargetInv, Taken
<1>9. LineInv'
  <2>1. Queued(g) /\ \A h \in Grabs : ~InHand(h) /\ (InHand(h)' <=> h = g)
    BY <1>1, <1>3, <1>4 DEF Queued, InHand
  <2>2. \A h \in Grabs : Emitted(h)' <=> Emitted(h)
    BY <1>1, <1>6, <2>1 DEF Emitted
  <2>3. \A h \in Grabs :
          /\ buffered'[h] + written'[h] <= 1
          /\ Queued(h)' \/ InHand(h)' => buffered'[h] + written'[h] = 0
          /\ ~(Queued(h)' /\ InHand(h)')
    BY <1>1, <1>6, <2>1 DEF IndInv, LineInv
  <2>4. \A i, k \in 1..Len(outputQueue') :
           i # k => outputQueue'[i] # outputQueue'[k]
    BY <1>3, <1>5
  <2>5. Taken' = Taken
    BY <1>1 DEF Taken
  <2> QED BY <1>1, <2>2, <2>3, <2>4, <2>5 DEF IndInv, LineInv
<1> QED BY <1>7, <1>8, <1>9

(* The steps of the output goroutine keep the invariant.                   *)
LEMMA IndOutput == ASSUME IndInv, alive = "running", Output PROVE IndInv'
<1>1. TypeOK'
  BY TypeOutput DEF IndInv
<1>2. CASE ReceiveLine
  BY <1>1, <1>2, IndReceive DEF IndInv
<1>3. CASE WriteLine \/ FlushLine
  <2>1. /\ \/ outPc = "write" /\ outPc' = "newline" /\ result' = result
           \/ outPc = "flush" /\ outPc' = "recv"
        /\ UNCHANGED <<alive, mainPc, nextIn, processQueue, pqClosed,
                       outputQueue, oqClosed, scClosed, wpc, obj, run>>
    BY <1>3 DEF WriteLine, FlushLine, mainVars, pqVars, oqVars, scVars, senderVars
  <2>2. ShutdownInv'
    BY <2>1 DEF IndInv, ShutdownInv
  <2>3. \A h \in Grabs : InHand(h)' <=> InHand(h)
    BY <2>1 DEF InHand
  <2>4. TargetInv' /\ LineInv'
    BY <1>3, <2>1, <2>3, SameCounts, CountedStep
  <2> QED BY <1>1, <2>2, <2>4 DEF IndInv
<1>4. CASE WriteNewline
  <2>1. /\ outPc = "newline" /\ outPc' \in {"flush", "recv"}
        /\ UNCHANGED <<alive, mainPc, nextIn, processQueue, pqClosed,
                       outputQueue, oqClosed, scClosed, wpc, obj, run>>
    BY <1>4 DEF WriteNewline, mainVars, pqVars, oqVars, scVars, senderVars
  <2>2. /\ result \in Grabs /\ buffered[result] + written[result] = 0
        /\ buffered'[result] + written'[result] = 1
        /\ \A h \in Grabs : h # result =>
              buffered'[h] + written'[h] = buffered[h] + written[h]
    BY <1>4, NewlineCounts
  <2>3. ShutdownInv'
    BY <2>1 DEF IndInv, ShutdownInv
  <2>4. TargetInv'
    BY <2>1 DEF IndInv, TargetInv, Taken
  <2>5. LineInv'
    <3>1. /\ InHand(result) /\ ~Queued(result)
          /\ \A h \in Grabs : ~InHand(h)' /\ (Queued(h)' <=> Queued(h)) /\ (InHand(h) <=> h = result)
      BY <2>1, <2>2 DEF InHand, Queued, IndInv, LineInv
    <3>2. \A h \in Grabs : Emitted(h)' <=> Emitted(h)
      BY <2>2, <3>1 DEF Emitted
    <3>3. \A h \in Grabs :
            /\ buffered'[h] + written'[h] <= 1
            /\ Queued(h)' \/ InHand(h)' => buffered'[h] + written'[h] = 0
            /\ ~(Queued(h)' /\ InHand(h)')
      BY <2>2, <3>1 DEF IndInv, LineInv
    <3>4. Taken' = Taken
      BY <2>1 DEF Taken
    <3> QED BY <2>1, <3>2, <3>3, <3>4 DEF IndInv, LineInv
  <2> QED BY <1>1, <2>3, <2>4, <2>5 DEF IndInv
<1>5. CASE WriteFails
  <2>1. /\ alive' = "fatal"
        /\ UNCHANGED <<mainPc, nextIn, processQueue, pqClosed, outputQueue,
                       oqClosed, scClosed, wpc, obj, run, outPc, result, buffered,
                       written, bufErr>>
    BY <1>5 DEF WriteFails, Die, mainVars, pqVars, oqVars, scVars,
                senderVars, outVars
  <2>2. ShutdownInv'
    BY <2>1 DEF IndInv, ShutdownInv
  <2>3. TargetInv' /\ LineInv'
    BY <2>1, QuietStep
  <2> QED BY <1>1, <2>2, <2>3 DEF IndInv
<1>6. CASE OutputEnd
  <2>1. /\ outPc = "recv" /\ outPc' = "done" /\ outputQueue = <<>> /\ oqClosed
        /\ UNCHANGED <<alive, mainPc, nextIn, processQueue, pqClosed,
                       outputQueue, oqClosed, scClosed, wpc, obj, run>>
    BY <1>6 DEF OutputEnd, mainVars, pqVars, oqVars, scVars, senderVars
  <2>2. ShutdownInv'
    BY <1>6, <2>1, OutputEndFlushes DEF IndInv, ShutdownInv
  <2>3. \A h \in Grabs : InHand(h)' <=> InHand(h)
    BY <2>1 DEF InHand
  <2>4. TargetInv' /\ LineInv'
    BY <1>6, <2>1, <2>3, SameCounts, CountedStep
  <2> QED BY <1>1, <2>2, <2>4 DEF IndInv
<1> QED BY <1>2, <1>3, <1>4, <1>5, <1>6 DEF Output

(* Every step keeps the inductive invariant.                               *)
LEMMA IndStep == IndInv /\ [Next]_vars => IndInv'
<1> SUFFICES ASSUME IndInv, [Next]_vars PROVE IndInv'
  OBVIOUS
<1>1. CASE alive = "running" /\ Step
  BY <1>1, IndMain, IndOutput, IndMonitor, IndSender DEF Step
<1>2. CASE UNCHANGED vars
  <2>1. TypeOK'
    BY TypeStep DEF IndInv
  <2>2. ShutdownInv'
    BY <1>2 DEF IndInv, ShutdownInv, vars, mainVars, pqVars, oqVars, scVars,
                senderVars, outVars
  <2>3. TargetInv' /\ LineInv'
    BY <1>2, QuietStep DEF vars, mainVars, pqVars, oqVars, senderVars,
                outVars
  <2> QED BY <2>1, <2>2, <2>3 DEF IndInv
<1> QED BY <1>1, <1>2 DEF Next, Ended

(* At every moment every target and every line is accounted for, once.     *)
THEOREM Accounting == Spec => []IndInv
<1>1. Init => IndInv
  BY IndInit
<1>2. IndInv /\ [Next]_vars => IndInv'
  BY IndStep
<1> QED BY <1>1, <1>2, PTL DEF Spec

-----------------------------------------------------------------------------
(* What follows from the invariant.                                        *)

(* A run that has finished has handed every line to the writer: the step   *)
(* from the invariant to the postcondition of Process.                     *)
LEMMA AllDelivered ==
    ASSUME IndInv, outPc = "done", NEW g \in Grabs
    PROVE  buffered[g] + written[g] = 1
<1>1. /\ oqClosed /\ pqClosed /\ nextIn = NTargets + 1
      /\ outputQueue = <<>> /\ \A w \in Senders : wpc[w] = "done"
  BY DEF IndInv, ShutdownInv
<1>2. processQueue = <<>>
  BY <1>1, SendersAssumption DEF IndInv, ShutdownInv
<1>3. Taken = NTargets
  <2>1. Len(processQueue) = 0
    BY <1>2
  <2> QED BY <1>1, <2>1, InputAssumption DEF Taken
<1>4. g[1] <= Taken
  BY <1>3, InputAssumption DEF Grabs, Jobs
<1>5. Emitted(g) /\ ~Queued(g)
  <2>1. Emitted(g)
    BY <1>1, <1>4 DEF IndInv, LineInv, Busy
  <2>2. Len(outputQueue) = 0
    BY <1>1
  <2> QED BY <2>1, <2>2 DEF Queued
<1>7. ~InHand(g)
  BY DEF InHand
<1>6. buffered[g] \in Nat /\ written[g] \in Nat
  BY DEF IndInv, TypeOK
<1> QED BY <1>5, <1>6, <1>7 DEF Emitted, IndInv, LineInv

(* No goroutine sends on a closed channel, whatever the interleaving of    *)
(* the shutdown of Process and ZGrab2Main with the senders.                *)
THEOREM ChannelsSafe == Spec => []NoSendOnClosed
<1>1. IndInv => NoSendOnClosed
  BY SendersAssumption DEF IndInv, ShutdownInv, NoSendOnClosed, Busy
<1> QED BY <1>1, Accounting, PTL

(* Each target is processed by one sender, for any number of senders.      *)
THEOREM SendersExclusive == Spec => []OneSenderPerTarget
<1>1. ASSUME IndInv PROVE OneSenderPerTarget
  <2>1. \A w \in Senders : obj[w] \in Int
    BY <1>1, InputAssumption DEF IndInv, TypeOK
  <2>2. Taken \in Int
    BY <1>1 DEF IndInv, TypeOK, Taken
  <2>3. /\ \A i \in 1..Len(processQueue) : processQueue[i] = Taken + i
        /\ \A w \in Senders : wpc[w] \in Busy => obj[w] <= Taken
        /\ \A v, w \in Senders :
             v # w /\ wpc[v] \in Busy /\ wpc[w] \in Busy => obj[v] # obj[w]
    BY <1>1 DEF IndInv, TargetInv
  <2> QED BY <2>1, <2>2, <2>3 DEF OneSenderPerTarget
<1> QED BY <1>1, Accounting, PTL

(* A run that ends normally and whose output took every write has written  *)
(* exactly one line per target and connection, for any input.              *)
THEOREM NothingLost == Spec => []AllLinesWritten
<1>1. ASSUME IndInv PROVE AllLinesWritten
  <2> SUFFICES ASSUME alive = "finished", ~bufErr, NEW g \in Grabs
               PROVE  written[g] = 1
    BY DEF AllLinesWritten
  <2>1. outPc = "done" /\ buffered[g] = 0
    BY <1>1 DEF IndInv, ShutdownInv
  <2>2. buffered[g] + written[g] = 1
    BY <1>1, <2>1, AllDelivered
  <2>3. written[g] \in Nat
    BY <1>1 DEF IndInv, TypeOK
  <2> QED BY <2>1, <2>2, <2>3
<1> QED BY <1>1, Accounting, PTL

-----------------------------------------------------------------------------
(* Refinement of GrabService.                                              *)

(* The initial state maps to the initial state of the service.             *)
LEMMA RefineInit == Init => Service!Init
<1> SUFFICES ASSUME Init PROVE Service!Init
  OBVIOUS
<1>1. \A g \in Grabs : buffered[g] + written[g] = 0
  BY DEF Init
<1> QED BY <1>1 DEF Init, Service!Init

(* Every step maps to Deliver, Finish, Abort or a stuttering step.         *)
LEMMA RefineStep ==
    ASSUME IndInv, [Next]_vars PROVE [Service!Next]_(Service!svars)
<1> DEFINE delivered == [g \in Grabs |-> buffered[g] + written[g]]
<1>1. CASE alive = "running" /\ WriteNewline
  <2>1. /\ result \in Grabs /\ buffered[result] + written[result] = 0
        /\ buffered'[result] + written'[result] = 1
        /\ \A h \in Grabs : h # result =>
              buffered'[h] + written'[h] = buffered[h] + written[h]
    BY <1>1, NewlineCounts
  <2>2. alive' = alive
    BY <1>1 DEF WriteNewline
  <2>3. delivered' = [delivered EXCEPT ![result] = 1]
    BY <2>1
  <2>4. \E h \in Grabs : Service!Deliver(h)
    <3>1. delivered[result] = 0
      BY <2>1
    <3> HIDE DEF delivered
    <3> QED BY <1>1, <2>1, <2>2, <2>3, <3>1 DEF Service!Deliver, delivered
  <2> QED BY <2>4 DEF Service!Next
<1>2. CASE alive = "running" /\ (WriteLine \/ FlushLine \/ OutputEnd)
  <2>1. \A h \in Grabs : buffered'[h] + written'[h] = buffered[h] + written[h]
    BY <1>2, SameCounts
  <2>2. alive' = alive
    BY <1>2 DEF WriteLine, FlushLine, OutputEnd
  <2> QED BY <2>1, <2>2 DEF Service!svars
<1>3. CASE alive = "running" /\ WriteSummary
  <2>1. /\ alive' = "finished" /\ UNCHANGED <<buffered, written>>
        /\ mainPc = "monitorWait"
    BY <1>3 DEF WriteSummary, outVars
  <2>2. outPc = "done"
    BY <2>1 DEF IndInv, ShutdownInv
  <2>3. \A g \in Grabs : delivered[g] = 1
    BY <2>2, AllDelivered
  <2> QED BY <1>3, <2>1, <2>3 DEF Service!Next, Service!Finish
<1>4. CASE /\ alive = "running" /\ UNCHANGED <<buffered, written>>
           /\ alive' \in {"running", "fatal", "panicked"}
  BY <1>4 DEF Service!Next, Service!Abort, Service!svars
<1>5. CASE UNCHANGED vars
  BY <1>5 DEF vars, outVars, Service!svars
<1>6. ASSUME alive = "running", Step, ~WriteLine, ~WriteNewline, ~FlushLine, ~OutputEnd,
             ~WriteSummary
      PROVE  /\ UNCHANGED <<buffered, written>>
             /\ alive' \in {"running", "fatal", "panicked"}
  <2>1. CASE Main
    BY <1>6, <2>1 DEF Main, InputTarget, InputFails, CloseInput, CloseOutput,
           StopMonitor, SummaryFails, Die, outVars
  <2>2. CASE Output
    BY <1>6, <2>2 DEF Output, ReceiveLine, WriteFails, Die, outVars
  <2>3. CASE Monitor
    BY <1>6, <2>3 DEF Monitor, CountStatus, CallbackFails, MonitorEnd, Die,
           outVars
  <2>4. ASSUME NEW w \in Senders, Sender(w)
        PROVE  /\ UNCHANGED <<buffered, written>>
               /\ alive' \in {"running", "panicked"}
    BY <1>6, <2>4 DEF Sender, InitPerSender, TakeTarget, SenderDone, Scan,
           ScanPanics, Report, Emit, Die, outVars
  <2> QED BY <1>6, <2>1, <2>2, <2>3, <2>4 DEF Step
<1> QED BY <1>1, <1>2, <1>3, <1>4, <1>5, <1>6 DEF Next, Ended

(* The grab framework implements GrabService, for any number of senders    *)
(* and any queue size: no line is delivered twice, and a run ends normally *)
(* only when all lines have been delivered.                                *)
THEOREM Refinement == Spec => ImplementsService
<1>1. Init => Service!Init
  BY RefineInit
<1>2. IndInv /\ [Next]_vars => [Service!Next]_(Service!svars)
  BY RefineStep
<1> QED BY <1>1, <1>2, Accounting, PTL
        DEF Spec, ImplementsService, Service!Spec

-----------------------------------------------------------------------------
(***************************************************************************)
(* Proofs about what Processing writes and counts: the flush after every   *)
(* line, the results a line holds, and the summary of the monitor.  They   *)
(* rest on the accounting of targets and lines above.                      *)
(***************************************************************************)
-----------------------------------------------------------------------------
(* The flush.                                                              *)

(* With --flush what is buffered is the line being flushed, unless a flush *)
(* has failed: then no line is written any more.                           *)
FlushInv ==
    Flush =>
      /\ \A g \in Grabs : buffered[g] > 0 => bufErr \/ (outPc = "flush" /\ result = g)
      /\ bufErr => outPc \notin {"newline", "flush"}
      /\ \A g, h \in Grabs : buffered[g] > 0 /\ buffered[h] > 0 => g = h

LEMMA StepFlush == ASSUME TypeOK, FlushInv, [Next]_vars
                   PROVE  FlushInv'
<1> SUFFICES ASSUME Flush PROVE FlushInv'
  BY DEF FlushInv
<1>1. buffered \in [Grabs -> Nat]
  BY DEF TypeOK
<1>2. CASE WriteLine
  <2>1. outPc = "write" /\ ~bufErr /\ ~bufErr' /\ outPc' = "newline"
    BY <1>2 DEF WriteLine
  <2>2. \A g \in Grabs : buffered[g] = 0
    BY <1>1, <2>1 DEF FlushInv
  <2>3. [g \in Grabs |-> 0] \in [Grabs -> Nat] /\ Fits([g \in Grabs |-> 0])
    BY <1>2 DEF WriteLine
  <2>4. /\ buffered' \in [Grabs -> Nat]
        /\ \A g \in Grabs : buffered'[g] <= buffered[g] + [h \in Grabs |-> 0][g]
    BY <2>3, FitsCounts
  <2>5. \A g \in Grabs : buffered'[g] = 0
    BY <2>2, <2>4
  <2> QED BY <2>1, <2>5 DEF FlushInv
<1>3. CASE WriteNewline
  <2> DEFINE n == [g \in Grabs |-> IF g = result THEN 1 ELSE 0]
  <2>1. outPc = "newline" /\ ~bufErr /\ ~bufErr' /\ outPc' = "flush" /\ result' = result
    BY <1>3 DEF WriteNewline, FlushAfterLine
  <2>2. \A g \in Grabs : buffered[g] = 0
    BY <1>1, <2>1 DEF FlushInv
  <2>3. n \in [Grabs -> Nat] /\ Fits(n)
    BY <1>3 DEF WriteNewline
  <2>4. /\ buffered' \in [Grabs -> Nat]
        /\ \A g \in Grabs : buffered'[g] <= buffered[g] + n[g]
    BY <2>3, FitsCounts
  <2>5. \A g \in Grabs : buffered'[g] > 0 => g = result
    BY <2>2, <2>4
  <2> QED BY <2>1, <2>5 DEF FlushInv
<1>4. CASE Flushed /\ (FlushLine \/ OutputEnd)
  <2>1. \A g \in Grabs : buffered'[g] = 0
    BY <1>4, FlushedCounts
  <2>2. outPc' \in {"recv", "done"}
    BY <1>4 DEF FlushLine, OutputEnd
  <2> QED BY <2>1, <2>2 DEF FlushInv
<1>5. CASE bufErr' = TRUE /\ UNCHANGED buffered /\ outPc' \in {"recv", "done"}
  BY <1>5 DEF FlushInv
<1>6. CASE UNCHANGED <<outPc, result, buffered, bufErr>>
  BY <1>6 DEF FlushInv
<1>7. CASE ReceiveLine
  BY <1>7 DEF ReceiveLine, FlushInv
<1>8. CASE FlushLine \/ OutputEnd
  BY <1>4, <1>5, <1>8 DEF FlushLine, OutputEnd
<1>9. CASE Main \/ Monitor \/ WriteFails
  BY <1>6, <1>9 DEF Main, Monitor, InputTarget, InputFails, CloseInput,
     CloseOutput, StopMonitor, WriteSummary, SummaryFails, CountStatus,
     CallbackFails, MonitorEnd, WriteFails, Die, outVars
<1>10. CASE \E w \in Senders : Sender(w)
  BY <1>6, <1>10 DEF Sender, InitPerSender, TakeTarget, SenderDone, Scan,
     ScanPanics, Report, Emit, Die, outVars
<1>11. CASE UNCHANGED vars
  BY <1>6, <1>11 DEF vars, outVars
<1> QED BY <1>2, <1>3, <1>7, <1>8, <1>9, <1>10, <1>11 DEF Next, Ended, Step, Output

(* With --flush a process that dies at any moment, between the receive and *)
(* the write of a line, its newline and its flush too, has lost one line   *)
(* beyond the queue at most, the one OutputResults holds; and after an     *)
(* error of Flush, which it drops, one line at most is left in the buffer. *)
THEOREM FlushLosesNothing == Spec => []FlushIsDurable
<1>1. Init => FlushInv
  BY DEF Init, FlushInv
<1>2. ASSUME IndInv, FlushInv PROVE FlushIsDurable
  <2>1. \A g \in Grabs : buffered[g] \in Nat /\ written[g] \in Nat /\ buffered[g] + written[g] <= 1
    BY <1>2 DEF IndInv, TypeOK, LineInv
  <2>2. ASSUME Flush, ~bufErr, NEW g \in Grabs, Emitted(g)
        PROVE  Queued(g) \/ written[g] = 1 \/ result = g
    BY <1>2, <2>1, <2>2 DEF Emitted, InHand, FlushInv
  <2> QED BY <1>2, <2>2 DEF FlushIsDurable, FlushInv
<1>3. IndInv => TypeOK
  BY DEF IndInv
<1> QED BY <1>1, <1>2, <1>3, Accounting, StepFlush, PTL DEF Spec

-----------------------------------------------------------------------------
(* What a grab holds.                                                      *)

(* The loop of grabTarget over the scanners, up to position p of target j: *)
(* every scanner triggered by the tag has run and none ended the loop.     *)
SoFar(c, j, p) ==
    /\ DOMAIN c = {s \in Scanners : s < p /\ Trigger[s] = Tag[j]}
    /\ \A s \in DOMAIN c : ~Break(c[s])

(* The loop is over: a scanner is missing because an earlier one ended it. *)
Obeys(c, j) ==
    /\ \A s \in DOMAIN c : Trigger[s] = Tag[j]
    /\ \A s, t \in DOMAIN c : Break(c[s]) => t <= s
    /\ \A s \in Scanners \ DOMAIN c : Trigger[s] = Tag[j] =>
           \E t \in DOMAIN c : Break(c[t]) /\ t < s

SenderData(w) ==
    /\ wpc[w] \notin Busy => res[w] = NoResult
    /\ wpc[w] \in {"scan", "report"} =>
           SoFar(res[w], obj[w], pos[w]) /\ Trigger[pos[w]] = Tag[obj[w]]
    /\ wpc[w] = "emit" => Obeys(res[w], obj[w])

LineData(g) ==
    IF Emitted(g) THEN Obeys(content[g], g[1]) ELSE content[g] = NoResult

DataInv == (\A w \in Senders : SenderData(w)) /\ (\A g \in Grabs : LineData(g))

LEMMA NoResultEmpty == DOMAIN NoResult = {}
BY DEF NoResult

LEMMA NothingSoFar == ASSUME NEW j PROVE SoFar(NoResult, j, 1)
<1>1. {s \in Scanners : s < 1 /\ Trigger[s] = Tag[j]} = {}
  BY ScannersAssumption DEF Scanners
<1> QED BY <1>1, NoResultEmpty DEF SoFar

(* Where the loop goes from position p.                                    *)
LEMMA AdvanceData ==
    ASSUME TypeOK, NEW w \in Senders, NEW j, NEW p \in 1..NScanners + 1,
           Advance(w, j, p), NEW c, SoFar(c, j, p)
    PROVE  /\ wpc'[w] \in {"scan", "emit"}
           /\ wpc'[w] = "scan" =>
                  SoFar(c, j, pos'[w]) /\ Trigger[pos'[w]] = Tag[j]
           /\ wpc'[w] = "emit" => Obeys(c, j)
           /\ \A v \in Senders \ {w} : wpc'[v] = wpc[v] /\ pos'[v] = pos[v]
<1>1. Moved(w)
  BY AdvanceMoves
<1>2. CASE Matching(j, p) = {}
  <2>1. wpc'[w] = "emit"
    BY <1>2 DEF Advance, TypeOK
  <2>2. \A s \in Scanners : Trigger[s] = Tag[j] => s < p
    BY <1>2, ScannersAssumption DEF Matching, Scanners
  <2>3. Obeys(c, j)
    BY <2>2 DEF SoFar, Obeys
  <2> QED BY <1>1, <2>1, <2>3 DEF Moved
<1>3. CASE Matching(j, p) # {}
  <2>1. PICK s \in Matching(j, p) : /\ \A t \in Matching(j, p) : s <= t
                                    /\ pos' = [pos EXCEPT ![w] = s]
    BY <1>3 DEF Advance
  <2>2. wpc'[w] = "scan" /\ pos'[w] = s
    BY <1>3, <2>1 DEF Advance, TypeOK
  <2>3. Trigger[s] = Tag[j] /\ s \in p..NScanners
    BY <2>1 DEF Matching
  <2>4. \A t \in Scanners : t < s /\ Trigger[t] = Tag[j] => t < p
    BY <2>1, <2>3, ScannersAssumption DEF Matching, Scanners
  <2>5. {t \in Scanners : t < p /\ Trigger[t] = Tag[j]}
            = {t \in Scanners : t < s /\ Trigger[t] = Tag[j]}
    BY <2>3, <2>4, ScannersAssumption DEF Scanners
  <2>6. SoFar(c, j, s)
    BY <2>5 DEF SoFar
  <2> QED BY <1>1, <2>2, <2>3, <2>6 DEF Moved
<1> QED BY <1>2, <1>3

(* The grab of one more scanner: the update of moduleResult in grabTarget. *)
Extended(c, p, r) == [s \in DOMAIN c \cup {p} |-> IF s = p THEN r ELSE c[s]]

LEMMA ExtendedData ==
    ASSUME NEW c, NEW j, NEW p \in Scanners, NEW r, SoFar(c, j, p),
           Trigger[p] = Tag[j]
    PROVE  /\ p \notin DOMAIN c
           /\ Break(r) => Obeys(Extended(c, p, r), j)
           /\ ~Break(r) => SoFar(Extended(c, p, r), j, p + 1)
<1> DEFINE e == Extended(c, p, r)
<1>1. p \notin DOMAIN c /\ p \in Nat
  BY ScannersAssumption DEF SoFar, Scanners
<1>2. /\ DOMAIN e = DOMAIN c \cup {p} /\ e[p] = r
      /\ \A s \in DOMAIN c : e[s] = c[s]
  BY <1>1 DEF Extended
<1> HIDE DEF e
<1>3. DOMAIN e = {s \in Scanners : s < p + 1 /\ Trigger[s] = Tag[j]}
  <2>1. \A s \in Scanners : s < p + 1 <=> s < p \/ s = p
    BY <1>1, ScannersAssumption DEF Scanners
  <2> QED BY <1>2, <2>1 DEF SoFar
<1>4. \A s \in DOMAIN c : ~Break(e[s]) /\ s < p /\ s \in Scanners
  BY <1>2 DEF SoFar
<1>5. ASSUME Break(r) PROVE Obeys(e, j)
  <2>1. \A s \in DOMAIN e : Trigger[s] = Tag[j]
    BY <1>3
  <2>2. \A s, t \in DOMAIN e : Break(e[s]) => t <= s
    BY <1>1, <1>2, <1>4, ScannersAssumption DEF Scanners
  <2>3. ASSUME NEW s \in Scanners \ DOMAIN e, Trigger[s] = Tag[j]
        PROVE  p \in DOMAIN e /\ Break(e[p]) /\ p < s
    BY <1>1, <1>2, <1>3, <1>5, <2>3, ScannersAssumption DEF Scanners
  <2> QED BY <2>1, <2>2, <2>3 DEF Obeys
<1>6. ASSUME ~Break(r) PROVE SoFar(e, j, p + 1)
  BY <1>2, <1>3, <1>4, <1>6 DEF SoFar
<1> QED BY <1>1, <1>5, <1>6 DEF e

(* Which lines have been emitted, seen from the senders.                   *)
LEMMA EmittedSame ==
    ASSUME IndInv, IndInv',
           UNCHANGED <<nextIn, processQueue, wpc, obj, run>>
           \/ UNCHANGED <<outputQueue, outPc, result, buffered, written>>,
           NEW g \in Grabs
    PROVE  Emitted(g)' <=> Emitted(g)
<1>1. CASE UNCHANGED <<nextIn, processQueue, wpc, obj, run>>
  BY <1>1 DEF IndInv, LineInv, Taken
<1>2. CASE UNCHANGED <<outputQueue, outPc, result, buffered, written>>
  BY <1>2 DEF Emitted, Queued, InHand
<1> QED BY <1>1, <1>2

(* Steps of the other goroutines.                                          *)
LEMMA DataOthers ==
    ASSUME IndInv, IndInv', DataInv, Main \/ Output \/ Monitor
    PROVE  DataInv'
<1>1. UNCHANGED <<wpc, obj, run, pos, res, content>>
  BY DEF Main, Output, Monitor, InputTarget, InputFails, CloseInput,
     CloseOutput, StopMonitor, WriteSummary, SummaryFails, CountStatus,
     CallbackFails, MonitorEnd, ReceiveLine, WriteLine, WriteNewline, FlushLine, WriteFails, OutputEnd, Die,
     senderVars, lineVars
<1>2. \/ UNCHANGED <<nextIn, processQueue>>
      \/ UNCHANGED <<outputQueue, outPc, result, buffered, written>>
  BY DEF Main, Output, Monitor, InputTarget, InputFails, CloseInput,
     CloseOutput, StopMonitor, WriteSummary, SummaryFails, CountStatus,
     CallbackFails, MonitorEnd, ReceiveLine, WriteLine, WriteNewline, FlushLine, WriteFails, OutputEnd, Die,
     mainVars, pqVars, oqVars, outVars
<1>3. \A g \in Grabs : Emitted(g)' <=> Emitted(g)
  BY <1>1, <1>2, EmittedSame
<1>4. \A w \in Senders : SenderData(w)'
  BY <1>1 DEF DataInv, SenderData
<1>5. \A g \in Grabs : LineData(g)'
  BY <1>1, <1>3 DEF DataInv, LineData
<1> QED BY <1>4, <1>5 DEF DataInv

(* A step of sender w that emits nothing leaves the rest as it was.        *)
LEMMA DataOneSender ==
    ASSUME IndInv, IndInv', DataInv, NEW w \in Senders, SenderData(w)',
           \A v \in Senders \ {w} : /\ wpc'[v] = wpc[v] /\ pos'[v] = pos[v]
                                    /\ res'[v] = res[v] /\ obj'[v] = obj[v],
           UNCHANGED <<outputQueue, outPc, result, buffered, written, content>>
    PROVE  DataInv'
<1>1. ASSUME NEW v \in Senders PROVE SenderData(v)'
  <2>1. CASE v # w
    BY <2>1 DEF DataInv, SenderData
  <2> QED BY <2>1
<1>2. \A g \in Grabs : LineData(g)'
  BY EmittedSame DEF DataInv, LineData
<1> QED BY <1>1, <1>2 DEF DataInv

LEMMA DataTake ==
    ASSUME IndInv, IndInv', DataInv, NEW w \in Senders, TakeTarget(w)
    PROVE  DataInv'
<1> DEFINE j == Head(processQueue)
<1>1. /\ wpc[w] = "take" /\ Advance(w, j, 1) /\ TypeOK
      /\ obj' = [obj EXCEPT ![w] = j]
      /\ UNCHANGED <<res, content, outputQueue, outPc, result, buffered, written>>
  BY DEF TakeTarget, IndInv, oqVars, lineVars, outVars
<1>2. obj \in [Senders -> 0..NTargets]
  BY DEF IndInv, TypeOK
<1>3. res[w] = NoResult
  BY <1>1 DEF DataInv, SenderData, Busy
<1>4. 1 \in 1..NScanners + 1 /\ SoFar(NoResult, j, 1)
  BY NothingSoFar, ScannersAssumption
<1> HIDE DEF j
<1>5. /\ wpc'[w] \in {"scan", "emit"}
      /\ wpc'[w] = "scan" =>
             SoFar(NoResult, j, pos'[w]) /\ Trigger[pos'[w]] = Tag[j]
      /\ wpc'[w] = "emit" => Obeys(NoResult, j)
      /\ \A v \in Senders \ {w} : wpc'[v] = wpc[v] /\ pos'[v] = pos[v]
  BY <1>1, <1>4, AdvanceData
<1>6. /\ obj'[w] = j /\ res'[w] = NoResult
      /\ \A v \in Senders \ {w} : obj'[v] = obj[v] /\ res'[v] = res[v]
  BY <1>1, <1>2, <1>3
<1>7. SenderData(w)'
  BY <1>5, <1>6 DEF SenderData, Busy
<1> QED BY <1>1, <1>5, <1>6, <1>7, DataOneSender

LEMMA DataReport ==
    ASSUME IndInv, IndInv', DataInv, NEW w \in Senders, Report(w)
    PROVE  DataInv' /\ pos[w] \in Scanners /\ pos[w] \notin DOMAIN res[w]
           /\ res' = [res EXCEPT ![w] = Extended(res[w], pos[w], last[w])]
<1> DEFINE e == Extended(res[w], pos[w], last[w])
<1>1. /\ wpc[w] = "report" /\ TypeOK
      /\ res' = [res EXCEPT ![w] = e]
      /\ UNCHANGED <<obj, content, outputQueue, outPc, result, buffered, written>>
  BY DEF Report, IndInv, oqVars, lineVars, outVars, Extended
<1>2. /\ pos[w] \in Scanners /\ res \in [Senders -> Results]
      /\ wpc \in [Senders -> {"init", "take", "done"} \cup Busy]
  BY <1>1 DEF TypeOK
<1>3. SoFar(res[w], obj[w], pos[w]) /\ Trigger[pos[w]] = Tag[obj[w]]
  BY <1>1 DEF DataInv, SenderData
<1>4. /\ pos[w] \notin DOMAIN res[w]
      /\ Break(last[w]) => Obeys(e, obj[w])
      /\ ~Break(last[w]) => SoFar(e, obj[w], pos[w] + 1)
  BY <1>2, <1>3, ExtendedData
<1> HIDE DEF e
<1>5. res'[w] = e /\ \A v \in Senders \ {w} : res'[v] = res[v]
  BY <1>1, <1>2
<1>6. CASE Break(last[w])
  <2>1. wpc' = [wpc EXCEPT ![w] = "emit"] /\ pos' = pos
    BY <1>6 DEF Report
  <2>2. wpc'[w] = "emit" /\ \A v \in Senders \ {w} : wpc'[v] = wpc[v]
    BY <1>2, <2>1
  <2>3. SenderData(w)'
    BY <1>1, <1>4, <1>5, <1>6, <2>2 DEF SenderData, Busy
  <2>4. DataInv'
    BY <1>1, <1>5, <2>1, <2>2, <2>3, DataOneSender
  <2> QED BY <1>1, <1>2, <1>4, <2>4 DEF e
<1>7. CASE ~Break(last[w])
  <2>1. Advance(w, obj[w], pos[w] + 1) /\ pos[w] + 1 \in 1..NScanners + 1
    BY <1>2, <1>7, ScannersAssumption DEF Report, Scanners
  <2>2. SoFar(e, obj[w], pos[w] + 1)
    BY <1>4, <1>7
  <2>3. /\ wpc'[w] \in {"scan", "emit"}
        /\ wpc'[w] = "scan" =>
               SoFar(e, obj[w], pos'[w]) /\ Trigger[pos'[w]] = Tag[obj[w]]
        /\ wpc'[w] = "emit" => Obeys(e, obj[w])
        /\ \A v \in Senders \ {w} : wpc'[v] = wpc[v] /\ pos'[v] = pos[v]
    BY <1>1, <2>1, <2>2, AdvanceData
  <2>4. SenderData(w)'
    BY <1>1, <1>5, <2>3 DEF SenderData, Busy
  <2>5. DataInv'
    BY <1>1, <1>5, <2>3, <2>4, DataOneSender
  <2> QED BY <1>1, <1>2, <1>4, <2>5 DEF e
<1> QED BY <1>6, <1>7

(* The line of grab <<obj[w], run[w]>> is emitted, with what w holds.      *)
LEMMA DataEmit ==
    ASSUME IndInv, IndInv', DataInv, NEW w \in Senders, Emit(w)
    PROVE  /\ DataInv'
           /\ <<obj[w], run[w]>> \in Grabs
           /\ content[<<obj[w], run[w]>>] = NoResult
           /\ content' = [content EXCEPT ![<<obj[w], run[w]>>] = res[w]]
           /\ res' = [res EXCEPT ![w] = NoResult]
<1> DEFINE g == <<obj[w], run[w]>>
<1>1. /\ wpc[w] = "emit" /\ TypeOK
      /\ outputQueue' = Append(outputQueue, g)
      /\ content' = [content EXCEPT ![g] = res[w]]
      /\ res' = [res EXCEPT ![w] = NoResult]
      /\ UNCHANGED <<obj, outPc, result, buffered, written>>
  BY DEF Emit, IndInv, outVars
<1>2. /\ obj[w] \in Jobs /\ run[w] \in 0..ConnectionsPerHost - 1
      /\ g \in Grabs /\ g[1] = obj[w] /\ g[2] = run[w] /\ wpc[w] \in Busy
      /\ outputQueue \in Seq(Grabs)
      /\ res \in [Senders -> Results] /\ content \in [Grabs -> Results]
      /\ wpc \in [Senders -> {"init", "take", "done"} \cup Busy]
  BY <1>1, ConnectionsAssumption DEF TypeOK, Busy, Grabs
<1>3. ~Emitted(g)
  <2>1. ~(g[2] < run[w])
    BY <1>2
  <2> HIDE DEF g
  <2> QED BY <1>2, <2>1 DEF IndInv, LineInv
<1>4. content[g] = NoResult
  BY <1>2, <1>3 DEF DataInv, LineData
<1>5. Obeys(res[w], obj[w])
  BY <1>1 DEF DataInv, SenderData
<1> HIDE DEF g
<1>6. \A h \in Grabs : Emitted(h)' <=> Emitted(h) \/ h = g
  <2>1. /\ Len(outputQueue') = Len(outputQueue) + 1
        /\ Len(outputQueue) \in Nat
        /\ \A i \in 1..Len(outputQueue) : outputQueue'[i] = outputQueue[i]
        /\ outputQueue'[Len(outputQueue) + 1] = g
    BY <1>1, <1>2
  <2>2. \A h \in Grabs : Queued(h)' <=> Queued(h) \/ h = g
    BY <2>1 DEF Queued
  <2> QED BY <1>1, <2>2 DEF Emitted, InHand
<1>7. /\ content'[g] = res[w] /\ res'[w] = NoResult
      /\ \A h \in Grabs : h # g => content'[h] = content[h]
      /\ \A v \in Senders \ {w} : res'[v] = res[v]
  BY <1>1, <1>2
<1>8. \A h \in Grabs : LineData(h)'
  BY <1>2, <1>5, <1>6, <1>7 DEF DataInv, LineData
<1>9. /\ SenderData(w)'
      /\ \A v \in Senders \ {w} : wpc'[v] = wpc[v] /\ pos'[v] = pos[v]
  <2>1. CASE MoreConnections(run[w] + 1)
    <3>1. Advance(w, obj[w], 1) /\ 1 \in 1..NScanners + 1
      BY <2>1, ScannersAssumption DEF Emit
    <3>2. SoFar(NoResult, obj[w], 1)
      BY NothingSoFar
    <3>3. /\ wpc'[w] \in {"scan", "emit"}
          /\ wpc'[w] = "scan" => /\ SoFar(NoResult, obj[w], pos'[w])
                                 /\ Trigger[pos'[w]] = Tag[obj[w]]
          /\ wpc'[w] = "emit" => Obeys(NoResult, obj[w])
          /\ \A v \in Senders \ {w} : wpc'[v] = wpc[v] /\ pos'[v] = pos[v]
      BY <1>1, <3>1, <3>2, AdvanceData
    <3> QED BY <1>1, <1>7, <3>3 DEF SenderData, Busy
  <2>2. CASE ~MoreConnections(run[w] + 1)
    <3>1. wpc' = [wpc EXCEPT ![w] = "take"] /\ pos' = pos
      BY <2>2 DEF Emit
    <3>2. wpc'[w] = "take" /\ \A v \in Senders \ {w} : wpc'[v] = wpc[v]
      BY <1>2, <3>1
    <3> QED BY <1>7, <3>1, <3>2 DEF SenderData, Busy
  <2> QED BY <2>1, <2>2
<1>10. ASSUME NEW v \in Senders PROVE SenderData(v)'
  <2>1. CASE v # w
    BY <1>1, <1>7, <1>9, <2>1 DEF DataInv, SenderData
  <2> QED BY <1>9, <2>1
<1> QED BY <1>1, <1>2, <1>4, <1>8, <1>10 DEF DataInv, g

(* The other steps of a sender: it moves, and holds what it held.          *)
LEMMA DataMove ==
    ASSUME IndInv, IndInv', DataInv, NEW w \in Senders,
           \/ InitPerSender(w) \/ SenderDone(w) \/ ScanPanics(w)
           \/ \E r \in Response : Scan(w, r)
    PROVE  DataInv' /\ UNCHANGED <<res, content, statusesChan, states>>
<1>1. UNCHANGED <<obj, pos, res, content, outputQueue, outPc, result, buffered, written,
                  statusesChan, states>>
  BY DEF InitPerSender, SenderDone, ScanPanics, Scan, Die, oqVars, lineVars,
         outVars, senderVars, scVars, monVars
<1>2. wpc \in [Senders -> {"init", "take", "done"} \cup Busy]
  BY DEF IndInv, TypeOK
<1>3. /\ \A v \in Senders \ {w} : wpc'[v] = wpc[v]
      /\ \/ wpc'[w] = wpc[w]
         \/ wpc[w] = "init" /\ wpc'[w] = "take"
         \/ wpc[w] = "take" /\ wpc'[w] = "done"
         \/ wpc[w] = "scan" /\ wpc'[w] = "report"
  BY <1>2 DEF InitPerSender, SenderDone, ScanPanics, Scan, Die, senderVars
<1>4. SenderData(w)'
  BY <1>1, <1>3 DEF DataInv, SenderData, Busy
<1> QED BY <1>1, <1>3, <1>4, DataOneSender

LEMMA DataInit == ASSUME Init PROVE DataInv
<1>1. \A w \in Senders : SenderData(w)
  BY DEF Init, SenderData, Busy
<1>2. ASSUME NEW g \in Grabs PROVE LineData(g)
  <2>1. ~Emitted(g)
    BY DEF Init, Emitted, Queued, InHand
  <2> QED BY <2>1 DEF Init, LineData
<1> QED BY <1>1, <1>2 DEF DataInv

LEMMA DataStep == ASSUME IndInv, IndInv', DataInv, [Next]_vars PROVE DataInv'
<1>1. CASE Main \/ Output \/ Monitor
  BY <1>1, DataOthers
<1>2. ASSUME NEW w \in Senders, Sender(w) PROVE DataInv'
  BY <1>2, DataTake, DataReport, DataEmit, DataMove DEF Sender
<1>3. CASE UNCHANGED vars
  <2>1. UNCHANGED <<wpc, obj, pos, res, content, outputQueue, outPc, result,
                    buffered, written>>
    BY <1>3 DEF vars, senderVars, lineVars, oqVars, outVars
  <2>2. \A w \in Senders : SenderData(w)'
    BY <2>1 DEF DataInv, SenderData
  <2>3. \A g \in Grabs : LineData(g)'
    BY <2>1, EmittedSame DEF DataInv, LineData
  <2> QED BY <2>2, <2>3 DEF DataInv
<1> QED BY <1>1, <1>2, <1>3 DEF Next, Ended, Step

(* What every sender holds and every line says, for every scanner list.    *)
THEOREM GrabData == Spec => []DataInv
<1>1. Init => DataInv
  BY DataInit
<1>2. IndInv /\ IndInv' /\ DataInv /\ [Next]_vars => DataInv'
  BY DataStep
<1> QED BY <1>1, <1>2, Accounting, PTL DEF Spec

(* A line holds the scanners that --continue-on-error and                  *)
(* --break-on-success of multiple.go let grabTarget run, and no other.     *)
THEOREM GrabsFollowFlags == Spec => []GrabFollowsFlags
<1>1. ASSUME DataInv PROVE GrabFollowsFlags
  <2> SUFFICES ASSUME NEW g \in Grabs, Emitted(g)
               PROVE  LET ran == DOMAIN content[g]
                          ends == {s \in ran :
                             \/ content[g][s].error /\ ~ContinueOnError
                             \/ content[g][s].success /\ BreakOnSuccess}
                      IN /\ \A s \in ends, t \in ran : t <= s
                         /\ \A s \in Scanners \ ran :
                                Trigger[s] = Tag[g[1]] => \E t \in ends : t < s
                         /\ \A s \in ran : Trigger[s] = Tag[g[1]]
    BY DEF GrabFollowsFlags
  <2>1. Obeys(content[g], g[1])
    BY <1>1 DEF DataInv, LineData
  <2> QED BY <2>1 DEF Obeys, Break
<1> QED BY <1>1, GrabData, PTL

-----------------------------------------------------------------------------
(* The summary.  For each scanner s, and b for "with an error" or without: *)
(* the lines and the senders that hold such a response, the one on its way *)
(* to the monitor, and those the monitor has counted.                      *)

LinesOf(s, b) ==
    {g \in Grabs : s \in DOMAIN content[g] /\ content[g][s].error = b}
HeldOf(s, b) ==
    {w \in Senders : s \in DOMAIN res[w] /\ res[w][s].error = b}
SentOf(s, b) ==
    IF /\ statusesChan # <<>>
       /\ statusesChan[1].name = s /\ statusesChan[1].failure = b
    THEN 1 ELSE 0
CountedOf(s, b) == IF b THEN states[s].Failures ELSE states[s].Successes

Balanced(s, b) == CountedOf(s, b) + SentOf(s, b)
                    = Cardinality(LinesOf(s, b)) + Cardinality(HeldOf(s, b))

MonitorInv ==
    /\ monPc = "done" => scClosed /\ statusesChan = <<>>
    /\ alive = "finished" => monPc = "done"

SummaryInv == MonitorInv /\ \A s \in Scanners, b \in BOOLEAN : Balanced(s, b)

LEMMA GrabsFinite == IsFiniteSet(Grabs)
<1>1. IsFiniteSet(Jobs) /\ IsFiniteSet(0..ConnectionsPerHost - 1)
  BY InputAssumption, ConnectionsAssumption, FS_Interval DEF Jobs
<1> QED BY <1>1, FS_Product DEF Grabs

LEMMA CountsAreNumbers ==
    ASSUME NEW s, NEW b
    PROVE  /\ IsFiniteSet(LinesOf(s, b)) /\ IsFiniteSet(HeldOf(s, b))
           /\ Cardinality(LinesOf(s, b)) \in Nat
           /\ Cardinality(HeldOf(s, b)) \in Nat
<1>1. IsFiniteSet(LinesOf(s, b))
  BY GrabsFinite, FS_Subset DEF LinesOf
<1>2. IsFiniteSet(HeldOf(s, b))
  BY SendersAssumption, FS_Subset DEF HeldOf
<1> QED BY <1>1, <1>2, FS_CardinalityType

(* One element comes in or goes out.                                       *)
LEMMA AddOne ==
    ASSUME NEW S, IsFiniteSet(S), NEW x, x \notin S
    PROVE  Cardinality(S \cup {x}) = Cardinality(S) + 1
BY FS_AddElement

LEMMA RemoveOne ==
    ASSUME NEW S, IsFiniteSet(S), NEW x \in S
    PROVE  Cardinality(S \ {x}) = Cardinality(S) - 1
BY FS_RemoveElement

LEMMA SummaryInit == ASSUME Init PROVE SummaryInv
<1>1. MonitorInv
  BY DEF Init, MonitorInv
<1>2. ASSUME NEW s \in Scanners, NEW b \in BOOLEAN PROVE Balanced(s, b)
  <2>1. LinesOf(s, b) = {} /\ HeldOf(s, b) = {}
    BY NoResultEmpty DEF Init, LinesOf, HeldOf
  <2>2. CountedOf(s, b) = 0 /\ SentOf(s, b) = 0
    BY DEF Init, CountedOf, SentOf
  <2> QED BY <2>1, <2>2, FS_EmptySet DEF Balanced
<1> QED BY <1>1, <1>2 DEF SummaryInv

(* Steps that touch neither the results nor the statuses.                  *)
LEMMA BalanceKept ==
    ASSUME NEW s \in Scanners, NEW b \in BOOLEAN, Balanced(s, b),
           UNCHANGED <<content, res, statusesChan, states>>
    PROVE  Balanced(s, b)'
BY DEF Balanced, CountedOf, SentOf, LinesOf, HeldOf

(* A channel of one place.                                                 *)
LEMMA OnlyOne ==
    ASSUME NEW S, NEW q \in Seq(S), q # <<>>, Len(q) <= 1
    PROVE  Head(q) = q[1] /\ Head(q) \in S /\ Tail(q) = <<>>
<1>1. Len(Tail(q)) = Len(q) - 1 /\ Tail(q) \in Seq(S) /\ Len(q) \in Nat
  BY TailFacts
<1>2. Len(q) # 0
  OBVIOUS
<1>3. Len(Tail(q)) = 0
  BY <1>1, <1>2
<1> QED BY <1>1, <1>3, TailFacts

(* The monitor counts the status that was on its way.                      *)
LEMMA BalanceCount ==
    ASSUME TypeOK, CountStatus, NEW s \in Scanners, NEW b \in BOOLEAN,
           Balanced(s, b)
    PROVE  Balanced(s, b)'
<1> DEFINE m == Head(statusesChan)
<1>1. /\ statusesChan # <<>> /\ Len(statusesChan) <= 1
      /\ statusesChan \in Seq([name : Scanners, failure : BOOLEAN])
      /\ statusesChan' = Tail(statusesChan)
      /\ UNCHANGED <<content, res>>
      /\ states \in [Scanners -> [Successes : Nat, Failures : Nat]]
  BY DEF CountStatus, TypeOK, StatusCap, lineVars, senderVars
<1>2. /\ m = statusesChan[1] /\ statusesChan' = <<>>
      /\ m \in [name : Scanners, failure : BOOLEAN]
  BY <1>1, OnlyOne, Zenon
<1>3. states' = IF m.failure
                THEN [states EXCEPT ![m.name].Failures = @ + 1]
                ELSE [states EXCEPT ![m.name].Successes = @ + 1]
  BY DEF CountStatus
<1> HIDE DEF m
<1>4. m.name \in Scanners /\ m.failure \in BOOLEAN
  BY <1>2
<1>5. SentOf(s, b)' = 0
      /\ SentOf(s, b) = IF m.name = s /\ m.failure = b THEN 1 ELSE 0
  BY <1>1, <1>2 DEF SentOf
<1>6. CountedOf(s, b) \in Nat /\ SentOf(s, b) \in Nat
  BY <1>1 DEF CountedOf, SentOf
<1>7. CountedOf(s, b)' = CountedOf(s, b) + SentOf(s, b)
  <2>1. CASE b /\ m.failure
    BY <1>1, <1>3, <1>4, <1>5, <2>1 DEF CountedOf
  <2>2. CASE b /\ ~m.failure
    <3>1. SentOf(s, b) = 0
      BY <1>5, <2>2
    <3>2. CountedOf(s, b)' = CountedOf(s, b)
      BY <1>1, <1>3, <1>4, <2>2 DEF CountedOf
    <3> QED BY <1>6, <3>1, <3>2
  <2>3. CASE ~b /\ m.failure
    <3>1. SentOf(s, b) = 0
      BY <1>5, <2>3
    <3>2. CountedOf(s, b)' = CountedOf(s, b)
      BY <1>1, <1>3, <1>4, <2>3 DEF CountedOf
    <3> QED BY <1>6, <3>1, <3>2
  <2>4. CASE ~b /\ ~m.failure
    BY <1>1, <1>3, <1>4, <1>5, <2>4 DEF CountedOf
  <2> QED BY <1>4, <2>1, <2>2, <2>3, <2>4
<1>8. LinesOf(s, b)' = LinesOf(s, b) /\ HeldOf(s, b)' = HeldOf(s, b)
  BY <1>1 DEF LinesOf, HeldOf
<1> QED BY <1>5, <1>6, <1>7, <1>8 DEF Balanced

(* RunScanner reports the scan that the sender now holds.                  *)
LEMMA BalanceReport ==
    ASSUME IndInv, IndInv', DataInv, NEW w \in Senders, Report(w),
           NEW s \in Scanners, NEW b \in BOOLEAN, Balanced(s, b)
    PROVE  Balanced(s, b)'
<1> DEFINE m == [name |-> pos[w], failure |-> last[w].error]
           e == Extended(res[w], pos[w], last[w])
<1>1. /\ pos[w] \in Scanners /\ pos[w] \notin DOMAIN res[w]
      /\ res' = [res EXCEPT ![w] = e]
  BY DataReport
<1>2. /\ Len(statusesChan) < 1 /\ statusesChan' = Append(statusesChan, m)
      /\ UNCHANGED <<content, states>>
      /\ statusesChan \in Seq([name : Scanners, failure : BOOLEAN])
      /\ last[w] \in Response /\ res \in [Senders -> Results]
      /\ states \in [Scanners -> [Successes : Nat, Failures : Nat]]
  BY DEF Report, StatusFailure, StatusCap, lineVars, monVars, IndInv, TypeOK
<1>3. m.name = pos[w] /\ m.failure = last[w].error
  OBVIOUS
<1>4. /\ DOMAIN e = DOMAIN res[w] \cup {pos[w]} /\ e[pos[w]] = last[w]
      /\ \A t \in DOMAIN res[w] : e[t] = res[w][t]
  BY <1>1 DEF Extended
<1> HIDE DEF m, e
<1>5. statusesChan = <<>> /\ statusesChan'[1] = m /\ statusesChan' # <<>>
  <2>1. Len(statusesChan) = 0 /\ statusesChan = <<>>
    BY <1>2
  <2> QED BY <1>2, <2>1
<1>6. /\ SentOf(s, b) = 0
      /\ SentOf(s, b)' = IF s = pos[w] /\ last[w].error = b THEN 1 ELSE 0
  BY <1>3, <1>5 DEF SentOf
<1>7. LinesOf(s, b)' = LinesOf(s, b) /\ CountedOf(s, b)' = CountedOf(s, b)
  BY <1>2 DEF LinesOf, CountedOf
<1>8. res'[w] = e /\ \A v \in Senders : v # w => res'[v] = res[v]
  BY <1>1, <1>2
<1>9. CountedOf(s, b) \in Nat
  BY <1>2 DEF CountedOf
<1>10. CASE s = pos[w] /\ last[w].error = b
  <2>1. w \notin HeldOf(s, b)
    BY <1>1, <1>10 DEF HeldOf
  <2>2. HeldOf(s, b)' = HeldOf(s, b) \cup {w}
    BY <1>4, <1>8, <1>10 DEF HeldOf
  <2>3. Cardinality(HeldOf(s, b)') = Cardinality(HeldOf(s, b)) + 1
    BY <2>1, <2>2, AddOne, CountsAreNumbers
  <2>4. SentOf(s, b)' = 1
    BY <1>6, <1>10
  <2> QED BY <1>6, <1>7, <1>9, <2>3, <2>4, CountsAreNumbers DEF Balanced
<1>11. CASE ~(s = pos[w] /\ last[w].error = b)
  <2>1. w \in HeldOf(s, b)' <=> w \in HeldOf(s, b)
    <3>1. CASE s # pos[w]
      BY <1>4, <1>8, <3>1 DEF HeldOf
    <3>2. CASE s = pos[w]
      BY <1>1, <1>4, <1>8, <1>11, <3>2 DEF HeldOf
    <3> QED BY <3>1, <3>2
  <2>2. HeldOf(s, b)' = HeldOf(s, b)
    BY <1>8, <2>1 DEF HeldOf
  <2>3. SentOf(s, b)' = 0
    BY <1>6, <1>11
  <2> QED BY <1>6, <1>7, <2>2, <2>3 DEF Balanced
<1> QED BY <1>10, <1>11

(* What the sender held is now in its line.                                *)
LEMMA BalanceEmit ==
    ASSUME IndInv, IndInv', DataInv, NEW w \in Senders, Emit(w),
           NEW s \in Scanners, NEW b \in BOOLEAN, Balanced(s, b)
    PROVE  Balanced(s, b)'
<1> DEFINE g == <<obj[w], run[w]>>
<1>1. /\ g \in Grabs /\ content[g] = NoResult
      /\ content' = [content EXCEPT ![g] = res[w]]
      /\ res' = [res EXCEPT ![w] = NoResult]
  BY DataEmit
<1> HIDE DEF g
<1>2. /\ UNCHANGED <<statusesChan, states>>
      /\ res \in [Senders -> Results] /\ content \in [Grabs -> Results]
  BY DEF Emit, scVars, monVars, IndInv, TypeOK
<1>3. SentOf(s, b)' = SentOf(s, b) /\ CountedOf(s, b)' = CountedOf(s, b)
  BY <1>2 DEF SentOf, CountedOf
<1>4. /\ content'[g] = res[w] /\ res'[w] = NoResult
      /\ \A h \in Grabs : h # g => content'[h] = content[h]
      /\ \A v \in Senders : v # w => res'[v] = res[v]
  BY <1>1, <1>2
<1>5. g \notin LinesOf(s, b) /\ w \notin HeldOf(s, b)'
  BY <1>1, <1>4, NoResultEmpty DEF LinesOf, HeldOf
<1>6. g \in LinesOf(s, b)' <=> w \in HeldOf(s, b)
  BY <1>1, <1>4 DEF LinesOf, HeldOf
<1>7. CASE w \in HeldOf(s, b)
  <2>1. LinesOf(s, b)' = LinesOf(s, b) \cup {g}
    BY <1>1, <1>4, <1>6, <1>7 DEF LinesOf
  <2>2. HeldOf(s, b)' = HeldOf(s, b) \ {w}
    BY <1>4, <1>5 DEF HeldOf
  <2>3. /\ Cardinality(LinesOf(s, b)') = Cardinality(LinesOf(s, b)) + 1
        /\ Cardinality(HeldOf(s, b)') = Cardinality(HeldOf(s, b)) - 1
    BY <1>5, <1>7, <2>1, <2>2, AddOne, RemoveOne, CountsAreNumbers
  <2> QED BY <1>3, <2>3, CountsAreNumbers DEF Balanced
<1>8. CASE w \notin HeldOf(s, b)
  <2>1. LinesOf(s, b)' = LinesOf(s, b)
    BY <1>4, <1>5, <1>6, <1>8 DEF LinesOf
  <2>2. HeldOf(s, b)' = HeldOf(s, b)
    BY <1>4, <1>5, <1>8 DEF HeldOf
  <2> QED BY <1>3, <2>1, <2>2 DEF Balanced
<1> QED BY <1>7, <1>8

LEMMA MonitorStep == ASSUME IndInv, MonitorInv, [Next]_vars PROVE MonitorInv'
<1>1. CASE Main
  BY <1>1 DEF Main, InputTarget, InputFails, CloseInput, CloseOutput,
     StopMonitor, WriteSummary, SummaryFails, Die, scVars, monVars, MonitorInv
<1>2. CASE alive = "running" /\ Output
  BY <1>2 DEF Output, ReceiveLine, WriteLine, WriteNewline, FlushLine, WriteFails, OutputEnd, Die, scVars, monVars,
     MonitorInv
<1>3. CASE alive = "running" /\ Monitor
  BY <1>3 DEF Monitor, CountStatus, CallbackFails, MonitorEnd, Die, scVars,
     monVars, MonitorInv
<1>4. ASSUME NEW w \in Senders, Sender(w), alive = "running" PROVE MonitorInv'
  <2>1. CASE Report(w)
    <3>1. wpc[w] = "report"
      BY <2>1 DEF Report
    <3>2. ~scClosed
      BY <3>1, SendersAssumption DEF IndInv, ShutdownInv
    <3> QED BY <1>4, <2>1, <3>2 DEF Report, MonitorInv, monVars
  <2>2. CASE ~Report(w)
    BY <1>4, <2>2 DEF Sender, InitPerSender, TakeTarget, SenderDone, Scan,
       ScanPanics, Emit, Die, scVars, monVars, MonitorInv
  <2> QED BY <2>1, <2>2
<1>5. CASE UNCHANGED vars
  BY <1>5 DEF vars, scVars, monVars, MonitorInv
<1> QED BY <1>1, <1>2, <1>3, <1>4, <1>5 DEF Next, Ended, Step

LEMMA SummaryStep ==
    ASSUME IndInv, IndInv', DataInv, SummaryInv, [Next]_vars
    PROVE  SummaryInv'
<1>1. MonitorInv'
  BY MonitorStep DEF SummaryInv
<1>2. ASSUME NEW s \in Scanners, NEW b \in BOOLEAN PROVE Balanced(s, b)'
  <2>1. Balanced(s, b)
    BY DEF SummaryInv
  <2>2. CASE Main \/ Output \/ CallbackFails \/ MonitorEnd \/ UNCHANGED vars
    <3>1. UNCHANGED <<content, res, statusesChan, states>>
      BY <2>2 DEF Main, Output, InputTarget, InputFails, CloseInput,
         CloseOutput, StopMonitor, WriteSummary, SummaryFails, CallbackFails,
         MonitorEnd, ReceiveLine, WriteLine, WriteNewline, FlushLine, WriteFails, OutputEnd, Die, vars, senderVars,
         lineVars, scVars, monVars
    <3> QED BY <2>1, <3>1, BalanceKept
  <2>3. CASE CountStatus
    BY <2>1, <2>3, BalanceCount DEF IndInv
  <2>4. ASSUME NEW w \in Senders, Sender(w) PROVE Balanced(s, b)'
    <3>1. CASE TakeTarget(w)
      <4>1. UNCHANGED <<content, res, statusesChan, states>>
        BY <3>1 DEF TakeTarget, lineVars, scVars, monVars
      <4> QED BY <2>1, <4>1, BalanceKept
    <3>2. CASE Report(w)
      BY <2>1, <3>2, BalanceReport
    <3>3. CASE Emit(w)
      BY <2>1, <3>3, BalanceEmit
    <3>4. CASE \/ InitPerSender(w) \/ SenderDone(w) \/ ScanPanics(w)
               \/ \E r \in Response : Scan(w, r)
      BY <2>1, <3>4, DataMove, BalanceKept
    <3> QED BY <2>4, <3>1, <3>2, <3>3, <3>4 DEF Sender
  <2> QED BY <2>2, <2>3, <2>4 DEF Next, Ended, Step, Monitor
<1> QED BY <1>1, <1>2 DEF SummaryInv

(* The counters that ZGrab2Main reads after monitor.Stop and wg.Wait       *)
(* (bin.go) agree with the lines of the output, for every number of        *)
(* senders and every interleaving of the reports.                          *)
THEOREM SummaryIsRight == Spec => []SummaryMatchesOutput
<1>1. Init => SummaryInv
  BY SummaryInit
<1>2. IndInv /\ IndInv' /\ DataInv /\ SummaryInv /\ [Next]_vars => SummaryInv'
  BY SummaryStep
<1>3. ASSUME IndInv, DataInv, SummaryInv PROVE SummaryMatchesOutput
  <2> SUFFICES ASSUME alive = "finished", NEW s \in Scanners
               PROVE  /\ states[s].Failures = Cardinality(ErrorsOf(s))
                      /\ states[s].Successes = Cardinality(CleanOf(s))
    BY DEF SummaryMatchesOutput
  <2>1. statusesChan = <<>> /\ scClosed
    BY <1>3 DEF SummaryInv, MonitorInv
  <2>2. \A w \in Senders : wpc[w] = "done"
    BY <1>3, <2>1 DEF IndInv, ShutdownInv
  <2>3. ASSUME NEW b \in BOOLEAN
        PROVE  CountedOf(s, b) = Cardinality(LinesOf(s, b))
    <3>1. HeldOf(s, b) = {}
      BY <1>3, <2>2, NoResultEmpty DEF HeldOf, DataInv, SenderData, Busy
    <3>2. Cardinality(HeldOf(s, b)) = 0
      BY <3>1, FS_EmptySet
    <3>3. SentOf(s, b) = 0
      BY <2>1 DEF SentOf
    <3>4. Balanced(s, b)
      BY <1>3 DEF SummaryInv
    <3>5. CountedOf(s, b) \in Nat
      BY <1>3 DEF IndInv, TypeOK, CountedOf
    <3> QED BY <3>2, <3>3, <3>4, <3>5, CountsAreNumbers DEF Balanced
  <2>4. ErrorsOf(s) = LinesOf(s, TRUE) /\ CleanOf(s) = LinesOf(s, FALSE)
    <3>1. ASSUME NEW g \in Grabs, s \in DOMAIN content[g]
          PROVE  content[g][s].error \in BOOLEAN
      <4>1. content[g] \in Results
        BY <1>3 DEF IndInv, TypeOK
      <4>2. PICK S \in SUBSET Scanners : content[g] \in [S -> Response]
        BY <4>1 DEF Results
      <4>3. content[g][s] \in Response
        BY <3>1, <4>2
      <4> QED BY <4>3 DEF Response
    <3> QED BY <3>1 DEF ErrorsOf, CleanOf, LinesOf
  <2>5. /\ CountedOf(s, TRUE) = states[s].Failures
        /\ CountedOf(s, FALSE) = states[s].Successes
    BY DEF CountedOf
  <2> QED BY <2>3, <2>4, <2>5
<1> QED BY <1>1, <1>2, <1>3, Accounting, GrabData, PTL DEF Spec
===============================================================================
