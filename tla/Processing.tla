----------------------------- MODULE Processing -----------------------------
(***************************************************************************)
(* The grab framework: Process and grabTarget (processing.go), RunScanner  *)
(* (scanner.go), the Monitor goroutine (monitor.go), the output goroutine  *)
(* (output.go) and the shutdown sequence of ZGrab2Main (bin/bin.go).       *)
(*                                                                         *)
(* Four kinds of goroutine share three channels:                           *)
(*   main    --processQueue-->  Senders                                    *)
(*   Senders --outputQueue-->   output goroutine --bufio--> output file    *)
(*   Senders --statusesChan-->  monitor goroutine                          *)
(* and any of them can end the whole process: log.Fatal anywhere, or a     *)
(* panic of a scanner, which grabTarget re-raises after logging it.        *)
(***************************************************************************)
EXTENDS Naturals, Sequences, FiniteSets

CONSTANTS
    Senders,            \* the sender goroutines (config.Senders of them)
    QueueFactor,        \* capacity of both queues per sender (4 in the code)
    NTargets,           \* targets the input source delivers
    Tag,                \* Tag[j]: tag of the j-th target
    NScanners,          \* length of orderedScanners
    Trigger,            \* Trigger[s]: trigger of the s-th scanner
    ConnectionsPerHost,
    ContinueOnError, BreakOnSuccess, Flush,     \* command line flags
    Faults              \* which faults the environment may inject

Jobs == 1..NTargets
Scanners == 1..NScanners
Grabs == Jobs \X (0..ConnectionsPerHost - 1)    \* one line of output each
FaultKinds == {"csv", "panic", "write", "profile", "marshal"}

(* What Scan returns: its ScanStatus is SCAN_SUCCESS or not, and its error *)
(* is nil or not.  The two are independent: socks5 returns SCAN_SUCCESS    *)
(* with an error, xmpp and rethinkdb return a failure status without one.  *)
Response == [success : BOOLEAN, error : BOOLEAN]

ASSUME SendersAssumption ==
    Senders # {} /\ IsFiniteSet(Senders) /\ QueueFactor \in Nat \ {0}
ASSUME InputAssumption == NTargets \in Nat
ASSUME ScannersAssumption == NScanners \in Nat
ASSUME ConnectionsAssumption == ConnectionsPerHost \in 1..50
ASSUME FlagsAssumption ==
    /\ {ContinueOnError, BreakOnSuccess, Flush} \subseteq BOOLEAN
    /\ Faults \subseteq FaultKinds

VARIABLES
    alive,          \* "running", or how the process ended
    mainPc,         \* where the main goroutine is
    nextIn,         \* the next target the input source will deliver
    processQueue, pqClosed,
    outputQueue, oqClosed,
    statusesChan, scClosed,
    wpc,            \* where each sender is
    obj, run,       \* the target and the connection number of each sender
    pos,            \* index in orderedScanners of each sender's scan
    last,           \* the response of the scan whose status is being sent
    res,            \* moduleResult of each sender
    content,        \* content[g]: the Data encoded in the line of grab g
    encoded,        \* the grabs whose line could be marshalled
    outPc, result, buffered, written, bufErr,
                    \* output goroutine and the line it holds; copies of
                    \* each line, newline included, in the bufio.Writer
                    \* and in the file; its sticky error
    monPc, states   \* monitor goroutine and its per-scanner counters

mainVars == <<mainPc, nextIn>>
pqVars == <<processQueue, pqClosed>>
oqVars == <<outputQueue, oqClosed>>
scVars == <<statusesChan, scClosed>>
senderVars == <<wpc, obj, run, pos, last, res>>
lineVars == <<content, encoded>>
outVars == <<outPc, result, buffered, written, bufErr>>
monVars == <<monPc, states>>
vars == <<alive, mainVars, pqVars, oqVars, scVars, senderVars, lineVars,
          outVars, monVars>>

QueueCap == Cardinality(Senders) * QueueFactor  \* make(chan ..., workers*4)
StatusCap == 1                                  \* MakeMonitor(1, &wg)
NoLine == <<0, 0>>
NoResult == [s \in {} |-> [success |-> FALSE, error |-> FALSE]]

(* The scanners grabTarget runs on job j from position p on, until it      *)
(* breaks: those whose trigger is the target's tag.                        *)
Matching(j, p) == {s \in p..NScanners : Trigger[s] = Tag[j]}

Init ==
    /\ alive = "running"
    /\ mainPc = "input" /\ nextIn = 1
    /\ processQueue = <<>> /\ pqClosed = FALSE
    /\ outputQueue = <<>> /\ oqClosed = FALSE
    /\ statusesChan = <<>> /\ scClosed = FALSE
    /\ wpc = [w \in Senders |-> "init"]
    /\ obj = [w \in Senders |-> 0]
    /\ run = [w \in Senders |-> 0]
    /\ pos = [w \in Senders |-> 0]
    /\ last = [w \in Senders |-> [success |-> FALSE, error |-> FALSE]]
    /\ res = [w \in Senders |-> NoResult]
    /\ content = [g \in Grabs |-> NoResult] /\ encoded = {}
    /\ outPc = "recv" /\ result = NoLine /\ bufErr = FALSE
    /\ buffered = [g \in Grabs |-> 0] /\ written = [g \in Grabs |-> 0]
    /\ monPc = "recv"
    /\ states = [s \in Scanners |-> [Successes |-> 0, Failures |-> 0]]

-----------------------------------------------------------------------------
(* The process as a whole.  log.Fatal and an unrecovered panic end every   *)
(* goroutine at once: nothing that is only in memory survives.             *)

Die(how) ==
    /\ alive' = how
    /\ UNCHANGED <<mainVars, pqVars, oqVars, scVars, senderVars, lineVars,
                   outVars, monVars>>

-----------------------------------------------------------------------------
(* The main goroutine: Process, then the rest of ZGrab2Main.               *)

(* The input function has delivered its last target and returns nil.       *)
InputDone == nextIn > NTargets

TargetSentAgain ==                                              \* mutant
    /\ mainPc = "input" /\ ~InputDone
    /\ Len(processQueue) < QueueCap
    /\ processQueue' = Append(processQueue, nextIn)
    /\ nextIn' \in {nextIn, nextIn + 1}
    /\ UNCHANGED <<alive, mainPc, pqClosed, oqVars, scVars, senderVars,
                   lineVars, outVars, monVars>>

InputTarget ==      \* ch <- ScanTarget{...} in the input function
    /\ mainPc = "input" /\ ~InputDone
    /\ Len(processQueue) < QueueCap
    /\ processQueue' = Append(processQueue, nextIn)
    /\ nextIn' = nextIn + 1
    /\ UNCHANGED <<alive, mainPc, pqClosed, oqVars, scVars, senderVars,
                   lineVars, outVars, monVars>>

InputFails ==       \* inputTargets returns an error: log.Fatal
    /\ "csv" \in Faults
    /\ mainPc = "input"
    /\ Die("fatal")

CloseInput ==       \* inputTargets returns nil: close(processQueue)
    /\ mainPc = "input" /\ InputDone
    /\ pqClosed' = TRUE
    /\ mainPc' = "workerWait"
    /\ UNCHANGED <<alive, nextIn, processQueue, oqVars, scVars, senderVars,
                   lineVars, outVars, monVars>>

WaitForQueue == processQueue = <<>>                             \* mutant
WorkersDone == \A w \in Senders : wpc[w] = "done"

CloseOutput ==      \* workerDone.Wait(); close(outputQueue)
    /\ mainPc = "workerWait"
    /\ WorkersDone
    /\ oqClosed' = TRUE
    /\ mainPc' = "outputWait"
    /\ UNCHANGED <<alive, nextIn, pqVars, outputQueue, scVars, senderVars,
                   lineVars, outVars, monVars>>

StopAtOnce ==                                                   \* mutant
    /\ mainPc = "outputWait"
    /\ scClosed' = TRUE
    /\ mainPc' = "monitorWait"
    /\ UNCHANGED <<alive, nextIn, pqVars, oqVars, statusesChan, senderVars,
                   lineVars, outVars, monVars>>

StopMonitor ==      \* outputDone.Wait(), Process returns; monitor.Stop()
    /\ mainPc = "outputWait"
    /\ outPc = "done"
    /\ scClosed' = TRUE
    /\ mainPc' = "monitorWait"
    /\ UNCHANGED <<alive, nextIn, pqVars, oqVars, statusesChan, senderVars,
                   lineVars, outVars, monVars>>

WriteSummary ==     \* wg.Wait(), GetStatuses, encode the summary, return
    /\ mainPc = "monitorWait"
    /\ monPc = "done"
    /\ mainPc' = "done"
    /\ alive' = "finished"
    /\ UNCHANGED <<nextIn, pqVars, oqVars, scVars, senderVars, lineVars,
                   outVars, monVars>>

SummaryFails ==     \* enc.Encode of the summary or the deferred heap profile
    /\ Faults \cap {"write", "profile"} # {}         \* fails: log.Fatal
    /\ mainPc = "monitorWait" /\ monPc = "done"
    /\ Die("fatal")

Main == \/ InputTarget \/ InputFails \/ CloseInput \/ CloseOutput
        \/ StopMonitor \/ WriteSummary \/ SummaryFails

-----------------------------------------------------------------------------
(* A sender: the worker goroutine of Process, grabTarget and RunScanner.   *)

(* The next stop of sender w when grabTarget moves on to scanner position  *)
(* p of job j: the first matching scanner, or the end of the loop.         *)
Advance(w, j, p) ==
    IF Matching(j, p) = {}
    THEN /\ wpc' = [wpc EXCEPT ![w] = "emit"]
         /\ UNCHANGED pos
    ELSE /\ wpc' = [wpc EXCEPT ![w] = "scan"]
         /\ \E s \in Matching(j, p) :
                /\ \A t \in Matching(j, p) : s <= t
                /\ pos' = [pos EXCEPT ![w] = s]

InitPerSender(w) ==     \* InitPerSender of every scanner; errors ignored
    /\ wpc[w] = "init"
    /\ wpc' = [wpc EXCEPT ![w] = "take"]
    /\ UNCHANGED <<alive, mainVars, pqVars, oqVars, scVars, obj, run, pos,
                   last, res, lineVars, outVars, monVars>>

TakeTarget(w) ==        \* obj := <-processQueue; grabTarget begins
    /\ wpc[w] = "take"
    /\ processQueue # <<>>
    /\ processQueue' = Tail(processQueue)
    /\ obj' = [obj EXCEPT ![w] = Head(processQueue)]
    /\ run' = [run EXCEPT ![w] = 0]
    /\ Advance(w, Head(processQueue), 1)
    /\ UNCHANGED <<alive, mainVars, pqClosed, oqVars, scVars, last, res,
                   lineVars, outVars, monVars>>

SenderDone(w) ==        \* the range over processQueue ends
    /\ wpc[w] = "take"
    /\ processQueue = <<>> /\ pqClosed
    /\ wpc' = [wpc EXCEPT ![w] = "done"]
    /\ UNCHANGED <<alive, mainVars, pqVars, oqVars, scVars, obj, run, pos,
                   last, res, lineVars, outVars, monVars>>

ScanRetries(w, r) ==                                            \* mutant
    /\ wpc[w] = "scan"
    /\ last' = [last EXCEPT ![w] = r]
    /\ wpc' = [wpc EXCEPT ![w] = IF r.error THEN "scan" ELSE "report"]
    /\ UNCHANGED <<alive, mainVars, pqVars, oqVars, scVars, obj, run, pos,
                   res, lineVars, outVars, monVars>>

Scan(w, r) ==           \* status, res, e := s.Scan(target)
    /\ wpc[w] = "scan"
    /\ last' = [last EXCEPT ![w] = r]
    /\ wpc' = [wpc EXCEPT ![w] = "report"]
    /\ UNCHANGED <<alive, mainVars, pqVars, oqVars, scVars, obj, run, pos,
                   res, lineVars, outVars, monVars>>

ScanPanics(w) ==        \* the deferred function logs, then panics again
    /\ "panic" \in Faults
    /\ wpc[w] = "scan"
    /\ Die("panicked")

(* The loop of grabTarget ends early on an error, or on a success.         *)
BreakUnlessSuccess(r) == \/ r.error /\ ~ContinueOnError         \* mutant
                         \/ ~r.success /\ BreakOnSuccess
Break(r) == \/ r.error /\ ~ContinueOnError
            \/ r.success /\ BreakOnSuccess

(* RunScanner reports a failure exactly when the error is not nil.         *)
StatusFailure(r) == r.error

(* The rest of RunScanner, which sends the status of the scan to the       *)
(* monitor, and the rest of the loop body of grabTarget.                   *)
Report(w) ==
    /\ wpc[w] = "report"
    /\ Len(statusesChan) < StatusCap
    /\ statusesChan' = Append(statusesChan,
                              [name |-> pos[w], failure |-> StatusFailure(last[w])])
    /\ res' = [res EXCEPT ![w] =
                  [s \in DOMAIN res[w] \cup {pos[w]} |->
                      IF s = pos[w] THEN last[w] ELSE res[w][s]]]
    /\ IF Break(last[w])
       THEN wpc' = [wpc EXCEPT ![w] = "emit"] /\ UNCHANGED pos
       ELSE Advance(w, obj[w], pos[w] + 1)
    /\ UNCHANGED <<alive, mainVars, pqVars, oqVars, scClosed, obj, run, last,
                   lineVars, outVars, monVars>>

(* run < config.ConnectionsPerHost, tested after run++.                    *)
OneRunTooMany(n) == n <= ConnectionsPerHost                     \* mutant
MoreConnections(n) == n < ConnectionsPerHost

(* EncodeGrab, outputQueue <- result, and the next connection to the same  *)
(* host if one is left.  When json.Marshal fails the error is logged and   *)
(* the nil result is sent all the same: an empty line.                     *)
Emit(w) ==
    LET g == <<obj[w], run[w]>> IN
    /\ wpc[w] = "emit"
    /\ Len(outputQueue) < QueueCap
    /\ outputQueue' = Append(outputQueue, g)
    /\ content' = [content EXCEPT ![g] = res[w]]
    /\ \/ encoded' = encoded \cup {g}
       \/ "marshal" \in Faults /\ UNCHANGED encoded
    /\ res' = [res EXCEPT ![w] = NoResult]
    /\ run' = [run EXCEPT ![w] = run[w] + 1]
    /\ IF MoreConnections(run[w] + 1)
       THEN Advance(w, obj[w], 1)
       ELSE wpc' = [wpc EXCEPT ![w] = "take"] /\ UNCHANGED pos
    /\ UNCHANGED <<alive, mainVars, pqVars, oqClosed, scVars, obj, last,
                   outVars, monVars>>

Sender(w) == \/ InitPerSender(w) \/ TakeTarget(w) \/ SenderDone(w)
             \/ \E r \in Response : Scan(w, r)
             \/ ScanPanics(w) \/ Report(w) \/ Emit(w)

-----------------------------------------------------------------------------
(* The output goroutine: OutputResults behind OutputResultsWriterFunc.     *)
(* Line lengths are abstracted, so any Write may overflow the              *)
(* bufio.Writer, which flushes it first.  Its error is sticky.  A line     *)
(* counts as buffered or written once its newline is.                      *)

ReceiveLine ==      \* result := <-results
    /\ outPc = "recv" /\ outputQueue # <<>>
    /\ outPc' = "write" /\ result' = Head(outputQueue)
    /\ outputQueue' = Tail(outputQueue)
    /\ UNCHANGED <<alive, mainVars, pqVars, oqClosed, scVars, senderVars,
                   lineVars, buffered, written, bufErr, monVars>>

(* What the bufio.Writer does with something new, of which n[g] newlines:  *)
(* it fits, or all the rest goes to the file first.                        *)
Fits(n) ==
    \/ buffered' = [g \in Grabs |-> buffered[g] + n[g]] /\ UNCHANGED written
    \/ buffered' = n /\ written' = [g \in Grabs |-> buffered[g] + written[g]]
Flushed ==
    /\ buffered' = [g \in Grabs |-> 0]
    /\ written' = [g \in Grabs |-> buffered[g] + written[g]]

WriteLine ==        \* w.Write(result)
    /\ outPc = "write" /\ ~bufErr
    /\ outPc' = "newline"
    /\ Fits([g \in Grabs |-> 0])
    /\ UNCHANGED <<alive, mainVars, pqVars, oqVars, scVars, senderVars,
                   lineVars, result, bufErr, monVars>>

NeverFlush == FALSE                                             \* mutant
FlushAfterLine == Flush

WriteNewline ==     \* w.WriteByte('\n')
    /\ outPc = "newline" /\ ~bufErr
    /\ Fits([g \in Grabs |-> IF g = result THEN 1 ELSE 0])
    /\ \/ FlushAfterLine /\ outPc' = "flush" /\ UNCHANGED result
       \/ ~FlushAfterLine /\ outPc' = "recv" /\ result' = NoLine
    /\ UNCHANGED <<alive, mainVars, pqVars, oqVars, scVars, senderVars,
                   lineVars, bufErr, monVars>>

FlushLine ==        \* w.Flush(), its error dropped
    /\ outPc = "flush"
    /\ outPc' = "recv" /\ result' = NoLine
    /\ \/ Flushed /\ UNCHANGED bufErr
       \/ "write" \in Faults /\ bufErr' = TRUE /\ UNCHANGED <<buffered, written>>
    /\ UNCHANGED <<alive, mainVars, pqVars, oqVars, scVars, senderVars,
                   lineVars, monVars>>

WriteFails ==       \* Write or WriteByte returns an error: log.Fatal
    /\ outPc \in {"write", "newline"}
    /\ bufErr \/ "write" \in Faults
    /\ Die("fatal")

EndWithoutFlush ==                                              \* mutant
    /\ outPc = "recv" /\ outputQueue = <<>> /\ oqClosed
    /\ outPc' = "done"
    /\ UNCHANGED <<alive, mainVars, pqVars, oqVars, scVars, senderVars,
                   lineVars, result, buffered, written, bufErr, monVars>>

OutputEnd ==        \* the range ends; the deferred buf.Flush(), error dropped
    /\ outPc = "recv" /\ outputQueue = <<>> /\ oqClosed
    /\ outPc' = "done"
    /\ \/ ~bufErr /\ Flushed /\ UNCHANGED bufErr
       \/ /\ bufErr \/ "write" \in Faults
          /\ bufErr' = TRUE
          /\ UNCHANGED <<written, buffered>>
    /\ UNCHANGED <<alive, mainVars, pqVars, oqVars, scVars, senderVars,
                   lineVars, result, monVars>>

Output == ReceiveLine \/ WriteLine \/ WriteNewline \/ FlushLine \/ WriteFails \/ OutputEnd

-----------------------------------------------------------------------------
(* The monitor goroutine of MakeMonitor.                                   *)

CountStatus ==      \* an absent entry of m.states reads as zero counters
    LET m == Head(statusesChan) IN
    /\ monPc = "recv" /\ statusesChan # <<>>
    /\ statusesChan' = Tail(statusesChan)
    /\ states' = IF m.failure
                 THEN [states EXCEPT ![m.name].Failures = @ + 1]
                 ELSE [states EXCEPT ![m.name].Successes = @ + 1]
    /\ UNCHANGED <<alive, mainVars, pqVars, oqVars, scClosed, senderVars,
                   lineVars, outVars, monPc>>

CallbackFails ==    \* the Callback, dumpHeapProfile, calls log.Fatal
    /\ "profile" \in Faults
    /\ monPc = "recv" /\ statusesChan # <<>>
    /\ Die("fatal")

MonitorEndsOnClose ==                                           \* mutant
    /\ monPc = "recv" /\ scClosed
    /\ monPc' = "done"
    /\ UNCHANGED <<alive, mainVars, pqVars, oqVars, scVars, senderVars,
                   lineVars, outVars, states>>

MonitorEnd ==       \* the range over statusesChan ends: wg.Done()
    /\ monPc = "recv" /\ statusesChan = <<>> /\ scClosed
    /\ monPc' = "done"
    /\ UNCHANGED <<alive, mainVars, pqVars, oqVars, scVars, senderVars,
                   lineVars, outVars, states>>

Monitor == CountStatus \/ CallbackFails \/ MonitorEnd

-----------------------------------------------------------------------------
Step == \/ Main \/ Output \/ Monitor
        \/ \E w \in Senders : Sender(w)

(* The process is gone: nothing changes any more.                          *)
Ended == alive # "running" /\ UNCHANGED vars

Next == (alive = "running" /\ Step) \/ Ended

Spec == Init /\ [][Next]_vars

(* The Go scheduler runs every goroutine that can run; a Scan returns      *)
(* because its connection carries a deadline (module TimeoutConn).         *)
Fairness ==
    /\ WF_vars(alive = "running" /\ Main)
    /\ WF_vars(alive = "running" /\ Output)
    /\ WF_vars(alive = "running" /\ Monitor)
    /\ \A w \in Senders : WF_vars(alive = "running" /\ Sender(w))

FairSpec == Spec /\ Fairness

-----------------------------------------------------------------------------
(* Properties.                                                             *)

Busy == {"scan", "report", "emit"}
Results == UNION {[S -> Response] : S \in SUBSET Scanners}

(* Every variable has its type: in particular a sender that is scanning    *)
(* holds a target of the input and a connection number below               *)
(* ConnectionsPerHost, and no queue exceeds its capacity.                  *)
TypeOK ==
    /\ alive \in {"running", "finished", "fatal", "panicked"}
    /\ mainPc \in {"input", "workerWait", "outputWait", "monitorWait", "done"}
    /\ nextIn \in 1..NTargets + 1
    /\ processQueue \in Seq(Jobs) /\ pqClosed \in BOOLEAN
    /\ outputQueue \in Seq(Grabs) /\ oqClosed \in BOOLEAN
    /\ statusesChan \in Seq([name : Scanners, failure : BOOLEAN])
    /\ scClosed \in BOOLEAN
    /\ Len(processQueue) <= QueueCap /\ Len(outputQueue) <= QueueCap
    /\ Len(statusesChan) <= StatusCap
    /\ wpc \in [Senders -> {"init", "take", "done"} \cup Busy]
    /\ obj \in [Senders -> 0..NTargets]
    /\ run \in [Senders -> 0..ConnectionsPerHost]
    /\ pos \in [Senders -> 0..NScanners]
    /\ last \in [Senders -> Response]
    /\ res \in [Senders -> Results]
    /\ content \in [Grabs -> Results] /\ encoded \in SUBSET Grabs
    /\ outPc \in {"recv", "write", "newline", "flush", "done"} /\ bufErr \in BOOLEAN
    /\ IF outPc \in {"recv", "done"} THEN result = NoLine ELSE result \in Grabs
    /\ buffered \in [Grabs -> Nat] /\ written \in [Grabs -> Nat]
    /\ monPc \in {"recv", "done"}
    /\ states \in [Scanners -> [Successes : Nat, Failures : Nat]]
    /\ \A w \in Senders : wpc[w] \in Busy =>
           obj[w] \in Jobs /\ run[w] < ConnectionsPerHost
    /\ \A w \in Senders : wpc[w] \in {"scan", "report"} => pos[w] \in Scanners

(* No goroutine is about to send on a channel that has been closed, which  *)
(* in Go panics: close(outputQueue) and monitor.Stop() come only after the *)
(* last sender is done, whatever the interleaving.                         *)
NoSendOnClosed ==
    /\ mainPc = "input" => ~pqClosed
    /\ \A w \in Senders : wpc[w] \in Busy => ~oqClosed /\ ~scClosed

(* No two senders ever work on the same target, and none works on a target *)
(* that is still queued: processQueue hands each target to one sender.     *)
OneSenderPerTarget ==
    \A w \in Senders : wpc[w] \in Busy =>
        /\ \A v \in Senders \ {w} : wpc[v] \in Busy => obj[v] # obj[w]
        /\ \A i \in 1..Len(processQueue) : processQueue[i] # obj[w]

(* A process that ends normally, and whose output file took every write,   *)
(* has written exactly one line per target and connection.                 *)
AllLinesWritten ==
    alive = "finished" /\ ~bufErr => \A g \in Grabs : written[g] = 1

ErrorsOf(s) == {g \in Grabs : s \in DOMAIN content[g] /\ content[g][s].error}
CleanOf(s) == {g \in Grabs : s \in DOMAIN content[g] /\ ~content[g][s].error}

(* The summary agrees with the output: when main reads the counters of the *)
(* monitor, each scanner's Failures is the number of lines with an error   *)
(* of that scanner, and its Successes the number of lines with a response  *)
(* of it and no error.                                                     *)
SummaryMatchesOutput ==
    alive = "finished" => \A s \in Scanners :
        /\ states[s].Failures = Cardinality(ErrorsOf(s))
        /\ states[s].Successes = Cardinality(CleanOf(s))

(* The process ends: every target is processed and the three goroutines    *)
(* that main waits for finish, unless a fault ends the process first.      *)
Completes ==
    <>(alive # "running" /\ (Faults = {} => alive = "finished"))

-----------------------------------------------------------------------------
(* The inductive invariant behind the safety properties.                   *)

(* The targets handed to senders so far are 1..Taken: the input delivers   *)
(* them in order and processQueue is a FIFO.                               *)
Taken == nextIn - 1 - Len(processQueue)

(* A grab is emitted once a sender has put its line on outputQueue.        *)
Queued(g) == \E i \in 1..Len(outputQueue) : outputQueue[i] = g
InHand(g) == outPc \in {"write", "newline"} /\ result = g
Emitted(g) == Queued(g) \/ InHand(g) \/ buffered[g] + written[g] >= 1

(* With --flush a process that dies between any two steps, of whichever    *)
(* goroutine, loses one line beyond the queue at most, the one that the    *)
(* output goroutine holds: of what the senders emitted the rest is queued  *)
(* or in the file.  An error of Flush is dropped, and even then one line   *)
(* at most stays behind in the buffer.                                     *)
FlushIsDurable ==
    Flush =>
      /\ ~bufErr => \A g \in Grabs : Emitted(g) => Queued(g) \/ written[g] = 1 \/ result = g
      /\ \A g, h \in Grabs : buffered[g] > 0 /\ buffered[h] > 0 => g = h

(* What a grab holds obeys the multiple-module flags: once its line is     *)
(* emitted, a scanner triggered by the target's tag is missing from it     *)
(* only because an earlier one ended the loop, by an error without         *)
(* --continue-on-error or by a success with --break-on-success, and the    *)
(* one that ended it is the last that ran.                                 *)
GrabFollowsFlags ==
    \A g \in Grabs : Emitted(g) =>
        LET ran == DOMAIN content[g]
            ends == {s \in ran :
                        \/ content[g][s].error /\ ~ContinueOnError
                        \/ content[g][s].success /\ BreakOnSuccess}
        IN /\ \A s \in ends, t \in ran : t <= s
           /\ \A s \in Scanners \ ran :
                  Trigger[s] = Tag[g[1]] => \E t \in ends : t < s
           /\ \A s \in ran : Trigger[s] = Tag[g[1]]

(* The shutdown order: each goroutine ends only after those that feed it.  *)
ShutdownInv ==
    /\ pqClosed <=> mainPc # "input"
    /\ pqClosed => nextIn = NTargets + 1
    /\ \A w \in Senders : wpc[w] = "done" => pqClosed /\ processQueue = <<>>
    /\ oqClosed <=> mainPc \in {"outputWait", "monitorWait", "done"}
    /\ oqClosed => \A w \in Senders : wpc[w] = "done"
    /\ outPc = "done" => /\ oqClosed /\ outputQueue = <<>>
                         /\ bufErr \/ \A g \in Grabs : buffered[g] = 0
    /\ scClosed <=> mainPc \in {"monitorWait", "done"}
    /\ scClosed => outPc = "done"
    /\ alive = "finished" <=> mainPc = "done"

(* Every target is in the input, in the queue, with one sender, or done.   *)
TargetInv ==
    /\ \A i \in 1..Len(processQueue) : processQueue[i] = Taken + i
    /\ \A w \in Senders : wpc[w] \in Busy => obj[w] <= Taken
    /\ \A v, w \in Senders :
           v # w /\ wpc[v] \in Busy /\ wpc[w] \in Busy => obj[v] # obj[w]

(* Every line is emitted once, by the sender that holds its target.        *)
LineInv ==
    /\ \A g \in Grabs : buffered[g] + written[g] <= 1
    /\ \A g \in Grabs : Queued(g) \/ InHand(g) => buffered[g] + written[g] = 0
    /\ \A g \in Grabs : ~(Queued(g) /\ InHand(g))
    /\ \A i, k \in 1..Len(outputQueue) :
           i # k => outputQueue[i] # outputQueue[k]
    /\ \A g \in Grabs : Emitted(g) <=>
           /\ g[1] <= Taken
           /\ \A w \in Senders :
                  wpc[w] \in Busy /\ obj[w] = g[1] => g[2] < run[w]

(* Nothing is lost and nothing is done twice, at every moment of a run:    *)
(* the state of the three queues, of the senders and of the output account *)
(* for every target and every line.                                        *)
IndInv == TypeOK /\ ShutdownInv /\ TargetInv /\ LineInv

-----------------------------------------------------------------------------
(* What the framework promises its caller, whatever the number of senders, *)
(* the queues and the interleaving: GrabService, where a grab is delivered *)
(* once it has been handed to the output writer.                           *)

Service == INSTANCE GrabService WITH
    delivered <- [g \in Grabs |-> buffered[g] + written[g]],
    phase <- alive

(* Process implements GrabService: a grab is never delivered twice, and    *)
(* the process never ends normally while a grab is undelivered.            *)
ImplementsService == Service!Spec

-----------------------------------------------------------------------------
(* A statement of the repository that the code does not satisfy.           *)

(* output.go, on OutputResultsFunc: "It returns nil if there are no        *)
(* further results or error" - so a run that finishes without an error has *)
(* output every result.                                                    *)
FinishedMeansWritten ==
    alive = "finished" => \A g \in Grabs : written[g] = 1
=============================================================================
