# A verification project for FASST-LLM

The repository holds two programs that meet in `modules/`:

* **zgrab2**, a Go application-layer scanner: a framework (the Go files of the
  top-level directory and `bin/`) that feeds targets to a pool of goroutines,
  about fifty scanner modules that speak one protocol each, and forked protocol
  libraries (`lib/http`, `lib/ssh`) below some of them;
* **FASST-LLM** (`code/`), three Python scripts that have language models write
  new scanner modules for it and improve the prompts they were written from.

The modules here model the parts of both in which control, concurrency and
failure handling are hard to test. Source paths below are relative to the
repository.

## Inventory

| Component | State it keeps | Operations | Interacts with |
|---|---|---|---|
| grab framework (`processing.go`, `scanner.go`, `monitor.go`, `output.go`, `bin/bin.go`) | three channels, the senders, the bufio writer, the counters | read targets, scan, report a status, emit a line, write, flush, count, close and wait | every scanner; the output file; shutdown of the process |
| timeout connection (`conn.go`; `Open`, `OpenUDP` of `processing.go`) | session context, timeouts, explicit-deadline flags, byte count | make, `Read`, `Write`, three deadline setters, `Close` | every scanner calls it; the socket below |
| bounded reads (`utility.go`) | buffer, bytes left, deadline | `ReadAvailableWithOptions`, `ReadUntilRegex` | scanners above, timeout connection below |
| target input (`input.go`) | CSV reader, the address of the block being expanded | parse a record, expand a CIDR block | feeds `processQueue` |
| output encoding (`EncodeGrab`, `lib/output/process.go`) | the copy being built | strip debug fields, marshal | called by each sender |
| status mapping (`status.go`, `errors.go`) | none | error to `ScanStatus` | called by scanners |
| configuration and registration (`config.go`, `module.go`, `module_set.go`, `multiple.go`) | flags, ordered list of scanners | parse, validate, register | read-only once `Process` starts |
| TLS wrapper (`tls.go`), fake resolver (`fake_resolver.go`) | none of their own | configure and log a handshake; answer a DNS query | zcrypto; the dialer |
| scanners written by FASST (22 directories of `modules/`) | connections and one result per scan | open, send probes, read and check answers | framework and connection |
| scanners of zgrab2 (the others) | as above, some with redirects, STARTTLS, retries or reconnections | as above | as above; `lib/` |
| message codecs (in `modules/*`, `lib/ssh/messages.go`, `lib/http/h2_bundle.go`) | the position in a packet | encode, decode | scanners and libraries |
| `lib/ssh` | keys and sequence of a transport, authentication, channels and windows | key exchange, authenticate, open, write, request, close | the ssh scanner; the connection |
| `lib/http` | pool of connections, requests under way, streams and flow control | `Client.Do`, `RoundTrip`, dial, read and write loops | the http and ipp scanners |
| document server (`code/Reasoning/Action_mcp/rag_server.py`) | index in memory; index and signature on disk | initialize from cache or build, persist, retrieve | started by the action module over stdio; shares its directory |
| FASST pipeline (`code/*.py`, `code/Reasoning`, `code/Generator`, `code/Propagation`) | chat histories in memory; two prompts, the Scanning Tree and the code on disk | reason, act with tools, generate, compute loss and gradients, optimize | language-model service, document server, files |
| schemas, integration tests, containers, tools | none at run time | | |

What is hard in them, and what correctness means:

* **framework**: close and wait across four kinds of goroutine. Correct: no send
  on a closed channel, every target scanned by one sender, one line per target
  and connection in the file of a run that ends normally, a summary that agrees
  with the lines, and an end.
* **connection and bounded reads**: flags that outlive the operation they were
  set for, a limit reached in the middle of a buffer, a session that ends during
  an operation. Correct: never more than the limit is read, a read loop can
  neither spin nor hang and returns what it took, deadlines hold for the
  operation they were set for.
* **scanners**: a failure of any call at any point. Correct: a success only after
  an answer of the protocol, connections closed on every path, an error together
  with a failure status, nothing in the clear that TLS was to protect.
* **codecs**: lengths and counts chosen by the peer. Correct: what was encoded is
  decoded, a cut message is refused, no length makes a decoder slice out of
  range or allocate without bound.
* **SSH**: key exchanges started by both ends while others write; a mutex, a
  condition, a bounded channel and full sockets that wait for each other; closes
  that cross. Correct: keys in step, nothing lost or in the clear, nobody let in
  wrongly, exact windows, everybody released when a loop ends.
* **HTTP**: a pool shared by callers, dials and read loops; retries of requests
  that may have been sent; cancellation and deadlines racing answers. Correct:
  answers belong to their requests, nothing is sent twice, the pool is exact.
* **document server**: killed between the files it saves; documents edited while
  it reads them; two servers in one directory. Correct: it answers from the
  documents its user has.
* **pipeline**: any request may fail, any reply may lack the tag asked for, a
  script may be killed between two writes. Correct: conversations stay
  well-formed, loops driven by a model are bounded, and a failed run leaves the
  two prompts consistent.

`PROJECT.json` lists the components with their status and the hazards with the
properties that guard them.

## Modules

| Modules | Model | Theorems in |
|---|---|---|
| `GrabService` | what a run of zgrab2 promises: each grab delivered once, a normal end only after all | |
| `Processing` | the framework; implements `GrabService` | `ProcessingProofs` |
| `TimeoutConn` | a connection, its caller, its peer and the clock | `TimeoutConnProofs` |
| `BoundedReads` (extends `TimeoutConn`) | the two read loops on a connection | `TimeoutConnProofs` |
| `RagCache` | document servers, their directory, the user's edits | `RagCacheProofs` |
| `Fasst` | the three scripts and their files | `FasstProofs` |
| `ScanSteps`, `GeneratedScanners`, `ZgrabScanners`, `Scanning`, `Scanners` | every `Scan` method, and what they promise | |
| `WireItems`, `ControlFormats`, `DatabaseFormats`, `OracleFormats`, `SshFormats`, `HttpFormats`, `Wire`, `Codecs` | the message formats, one machine that encodes and decodes them, what is promised of them | |
| `SshTransport` | the SSH transport and its key exchange | `SshTransportProofs` |
| `SshAuth`, `SshMux`, `SshConnection` (composes the two) | user authentication, then channels | `SshConnectionProofs` |
| `HttpTransport`, `Http2Client`, `Http` (composes the two) | the HTTP/1 and the HTTP/2 client | `Http1Proofs`, `HttpProofs` |

`MC*` modules only give values to constants. `*Proofs` modules hold theorems and
the lemmas under them. A definition with the comment `mutant` is a plausible bug in the
definition that follows it; no specification uses it.

### Processing

`mainPc` is where `Process` and then `ZGrab2Main` are: reading input, waiting for
the senders (`workerDone`), for the output (`outputDone`), for the monitor. Each
sender (`wpc`) goes through `InitPerSender`, `TakeTarget`, and for each
connection a sequence of `Scan` and `Report` (the blocking send to
`statusesChan` in `RunScanner`), then `Emit` (the blocking send of the line to
`outputQueue`). The output goroutine takes a line (`ReceiveLine`), writes it and
its newline (`WriteLine`, `WriteNewline`), flushes (`FlushLine`, with `--flush`)
and ends with the deferred flush (`OutputEnd`), each a step, so that the process can
die between any two; `CountStatus` and `MonitorEnd` are the monitor's. A buffered channel is a sequence
with its capacity in the guard of its sender; a closed channel is a flag, and
receivers go on until it is empty. Line lengths are abstracted, so at any write the
`bufio.Writer` may first move what it holds to the file; it keeps its error once
it has one. `buffered` and `written` count the copies of each line, newline
included, in it and in the file.

A target is its number and tag; a scan's outcome is whether its status is
success and whether its error is nil, independently, since scanners return all
four combinations. `Faults` selects what the environment does: an error of the
CSV reader, a panicking scanner, a full disk, a failing summary write, a value
that cannot be marshalled. `log.Fatal` and a panic end all goroutines at once.

### TimeoutConn and BoundedReads

The fields of the struct are variables; `ctxEnd` is the deadline of its context,
and `sockRead`, `sockWrite` those of the socket. `Init` makes a connection as one
of the three constructors does. Starting an operation (`Read`, `Write`) is one
step, its end another (`ReadReturns`, `WriteDone`, `WriteReset`, `WriteTimesOut`),
and the peer and the clock move between them. `Refuse` is the early return of an
operation when the context is over. The socket, the peer and the clock are
external. `wanted` records what the caller asked of the next operation and
decides nothing. Each operation that takes a buffer or a deadline takes any one,
so that `BoundedReads` can give it those of its loops: a step of a loop that
reaches the connection *is* the connection's step, and `loop` and `result` hold
the loop's variables and what it returned.

### Scanners

A `Scan` method is a program: a sequence of steps (open, TLS, write, read, defer
Close, Close, loop, return), each with the code's reaction to every event that
can end it (go on, return a status, result and error, panic). `Scanning` is one
interpreter for all of them; it keeps the connections, the deferred closes,
whether anything was written in the clear, and the answers heard. An answer is
abstracted to how it stands to the request: accepted, refused, of another
protocol, or too short. An error is its Go type, which is what
`TryGetScanStatus` looks at. Flags that change what `Scan` does are enumerated;
combinations that `Validate` refuses are left out, and those that it lets pass
although `Scan` panics on them are in: a request code of ntp without a name, a
`max-read-size` of telnet smaller than what the negotiation has read. (`BoundedReads`
takes a maximum from `Nat`; the negative one of `telnet.go:105` is this panic.)

### Codecs

A format is two lists, translated separately: the fields its encoder pushes and
the reads and checks its decoder makes. Lengths, counts, tags and offsets have
their width and wrap in it; content is counted, not kept. `Wire` encodes a
message with several sizes of its parts, may cut it at every boundary of a field
or change one number the decoder uses, and decodes it item by item. Whether what
is decoded is what was encoded is then a question. `asked` is the largest buffer
that the decoder has made for a length the peer claimed. A format that has one
message after another, `mssqlStream`, shows what a length that wraps reads instead.

### SSH

`SshTransport` has two ends of the library, each with its reader goroutine
(`readLoop`), the main goroutine (handshake, then the multiplexer's loop) and a
writer; they share `mu` and its condition as in the code, and the bounded
`incoming` channel and socket buffers block. A key is named by the exchange hash
and session it is derived from. `SshAuth` and `SshMux` assume what
`SshTransport` checks, a transport that neither loses nor reorders.
In `SshAuth` callbacks answer as they like at every call, and a server of another
make may send banners. A signature is of a kind (`SigKinds`): valid, of another
owner, of a format or algorithm the server does not accept, or not parsed at all; a
client of another make (`forger`) sends any of them, but a valid one only with a key
it has. The server's checks of it (`isAcceptableAlgo`, `parseSignature`,
`pubKey.Verify`) are the ones of `server.go:408-471`, in their order. In `SshMux` a window counts modulo
`WindowMod`, and `rogue` is what a server of another make may send.
`SshConnection` starts the multiplexers when both ends are let in, or that of a
client alone whose authentication was skipped or only logged (`client.go:80`): the
server takes its first packet for a request of the authentication and ends. With
`HelloOnly` the writer of `SshTransport` does not run: the one user of that option
(`modules/ssh.go:121`) drops the client it gets.

### HTTP

`HttpTransport`: callers of `Client.Do`, the dial goroutines, and the `readLoop`
and `writeLoop` of every connection; a response carries the request it answers, so
that a wrong pairing shows. `Http2Client`: `RoundTrip` over a pool of
connections, each with its read loop, streams, body writers and both directions
of flow control. Its server handles a frame when it is sent and is late with its
answers, which stay in `wire`; a connection is lost only while another can still
be dialled. The server follows the protocol but chooses freely when to answer, to
change its settings, to reset a stream, to go away and to hang up. A `Setting` or a
`Play` is what the user and the server may do.
`Http` composes them by the protocol negotiated. The http scanner itself never
negotiates HTTP/2 (`onceSetNextProtoDefaults` returns when `DialTLS` is set), so
`Http2Client` is about the library.

### RagCache

One server is `pc`, `sig` and `rag_index`; `initialize_rag_resources` is cut
where it touches the disk. Documents and settings are one version number, and
the signature (a hash of paths, times, sizes and settings) is that number. The
index on disk is two files, since `persist` writes several in turn and a load
checks none against another. `Stop` is a kill or exception at any step, and may
leave the file being written torn. `seen` only records, for the properties.

### Fasst

`script` and `step` say which script runs and where it is: scripts are started by
hand, one at a time, in any order. `sendMessage` is two steps, `Request` and
`Reply`; a reply is the set of tags found in it, and an API error takes the
request back. The action module's loop keeps `talk`, the roles of its messages
and how many tool calls each has. A prompt file is the number of the
Backpropagation run that wrote it. Opening a file for writing empties it, and
writing it is another step, so that a kill can fall between.

## Runs

| Run | Instance | Shows |
|---|---|---|
| `faults` | 2 senders, 3 targets, queues of 2, `--flush`, every fault | `NoSendOnClosed`, `OneSenderPerTarget`, `FlushIsDurable`, and that `Processing` implements `GrabService` |
| `flags` | 2 senders, 3 targets of different tags, 3 scanners, stop on error and on success | `GrabFollowsFlags`: a line holds the results of exactly the scanners the flags let run; `SummaryMatchesOutput`; `AllLinesWritten`; `Completes`: the chain of waits at the end never blocks |
| `last_flush_error` | 1 sender, failing disk | the finding below |
| `conn_limit` | all constructors, limits 2 and 3 (default), buffers of 1 and 3, all limit actions, all setters | `LimitRespected`, `BogusEOFOnlyAtLimit` |
| `conn_deadlines` | sessions of 0 and 2 ticks, `SetReadDeadline`, the scanner's own reads and writes or one of the two loops | `ReadDeadlineOneShot`, `SessionOvershoot`, `LoopsBounded`, `OperationsReturn`, `LoopsEnd` |
| `rag_cache` | 1 server, 4 versions, kills anywhere | `FreshAnswers`, `Settles` |
| `fasst` | 3 reasoning rounds, 2 tool rounds of up to 2 calls, 2 Backpropagation runs, kills anywhere | `TranscriptIsValid`, `CallsBounded`, `PromptsTogether` |
| `scanners` | every scanner, every set of flags, every peer; 2 tries of the banner scanner | `ResultsAreHonest`, `ConnectionsOwned`, `SecrecyKept` |
| `codecs` | every format, whole, cut and changed | `Faithful`, `NeverBreaks`, `DecodeEnds` |
| `ssh_transport` | 11 pairs of configurations; rekeying at every packet, channels and sockets of one packet, up to 2 data packets each way | `KeysAgree`, `PacketsDelivered`, `TransportReturns` |
| `ssh_connection` | 9 authentication cases, one with a forger; 12 multiplexer scenarios | `AuthSound`, `FlowIsExact`, `ChannelsSound`, `ConnectionEnds` |
| `http` | 1 or 2 callers, 3 connections, 2 redirects; 2 HTTP/2 requests over 2 connections | `AnswersBelong`, `NothingTwice`, `PoolKept`, `FlowKept`, `CallsReturn` |

**Properties with exceptions.** What all scanners or all formats promise is stated
once, with those that break the promise named. Each name stands for an observation
about the code and is exact in one direction only: TLC shows that nothing outside
the list breaks the promise. In `Scanners`: `ErrorWithSuccess` (a success with an
error), `StatusWithoutError`, `Leaking` (a connection left open on some path),
`Panicking`, `Overlapping` (two connections open at once). In `Codecs`:
`Misread`, `AnyLength` (a cut message is accepted), `Unchecked` (slices by a
length of the peer), `Underflowing`, `Wrapping` (a TDS length below that of its
header reads 64 KB of what follows), and `Truncated`, a body of IPP that the
scanner's own `--max-size` cut, of which the attributes so far are returned without
an error; the comments give the lines. An HTTP/2 frame is the one message for which
a buffer larger than a scanner's limit is made, up to the 16 MB of a length of 24
bits (`MaxFrame`). In
`SshTransport`: `LoopBlocked`, `ReaderLeaked` and `ReadersBlocked` are the three
circular waits, and `TransportReturns` says that there is no fourth. In `SshMux`:
`OpenedTooLate`, a channel opened between `dropAll` and `Close`. In
`HttpTransport`: `Orphaned`, a caller whose canceler was dropped by the
`readLoop` of its first connection, so that its timer cannot end its wait.

**Bounds.** Two senders are the fewest that can race, and queues of one slot per
sender are the smallest that block; the code's factor 4 only delays blocking. Three
targets fill them.
Three scanners with mixed triggers are needed for a scanner that is skipped
between two that run, and for one that is cut off. In `TimeoutConn`, limits of 2
and 3 bytes against buffers of 1 and 3 reach the limit exactly, in the middle of
a buffer and after several reads; with the loops, buffers of 1 and 4 against 3
bytes fill and do not fill. `ClockIsLongEnough` asserts that the clock
reaches past every deadline, so that the bound hides none. One loop per connection
is run. Four versions are one more than a crash of one server and the start of
the next can involve. Three reasoning rounds give a first, a middle and a last
one; two Backpropagation runs give a first prompt, one to overwrite it, and a
failure of each. `RekeyThreshold` 0 asks for an exchange at every packet, which is
the worst interleaving of data and exchanges; one-packet buffers make every wait
that larger ones only delay. One cached key (`MaxCachedPubKeys`) against two keys
fills the cache. Windows of 2 units modulo 8, and an update of `WindowMod - 1`,
reach zero and wrap. Each multiplexer scenario, `Setting` and `Play` stresses one
concern, since their product is out of reach: two concerns that only fail
together are not covered, except where a case combines them (closes with data,
requests with hang-ups, redirects with deadlines).

**Deadlock** is checked for `Processing`, the connection, `RagCache`, `Fasst`,
`Scanners` and `codecs`; a program that has ended stutters by an explicit step.
The SSH and HTTP runs switch it off: two ends that are idle, or in one of the
named circular waits, have stopped, and the liveness properties of those runs say
which stops are allowed.

**Fairness.** `Processing`: weak fairness of each goroutine, which is what the Go
scheduler gives a goroutine that can run. It includes that a `Scan` returns, which
rests on calls that end: `OperationsReturn`, `LoopsEnd` and `DecodeEnds`.
`TimeoutConn` and `BoundedReads`: the clock ticks, the runtime completes an
operation that can be completed or is due, and a loop goes on; nothing is assumed
of the peer. `Wire`: a decoder goes on. SSH: some goroutine that can run does.
`Http`: the goroutines of the client run, the dialling goroutine of each HTTP/2
connection is not starved, and an HTTP/2 server answers; an HTTP/1 server owes
nothing, so only calls with a `Timeout` are claimed to return. `RagCache`: a
server that is not stopped goes on initializing; the user and kills are free.
`Fasst`: none. `requests.post` is called without a timeout, so the code justifies
none, and no liveness is claimed.

## Finding

`output.go:142` defers the last `buf.Flush()` and drops its error: a run can end
normally with its last lines missing, although `output.go:133` says the function
returns nil if there is no error (run `last_flush_error`).

Seen while modelling, with no run of their own:

* `conn.go:163` sets `explicitDeadline` to `deadline.IsZero()`: a deadline given
  to `SetDeadline` is replaced at the next operation, against `conn.go:151`;
  `SetWriteDeadline` (`conn.go:147`) has the same inversion. No scanner calls
  either.
* `module.go:72` says of `--timeout` "0 = no timeout"; `conn.go:231` makes a
  context of 0, which has expired at the first operation.
* `multiple.go:8` describes `--continue-on-error` as "If proceeding protocols
  error, do not run following protocols"; `processing.go:175` does the opposite
  (and what the flag's name says).
* `rag_server.py:128`: two servers in one directory share `./storage_cache`; the
  index of one can end up with the signature of the other. `Freshness` says when
  this cannot happen.
* A session may overrun its end by the timeout of one operation (`conn.go:77`;
  `SessionOvershoot` is the exact bound); `Dialer.Dial` passes a limit of 0 and
  so gets the default limit (`conn.go:319`), not the one of the dialer.

## Proofs

All are for every value of the constants that the named assumptions allow; no
bound of a run enters. They are checked by tlapm with Z3, Zenon and LS4. None of
the safety properties is inductive alone; the invariants below were first
checked by TLC on the runs' instances.

**ProcessingProofs.** `NoSendOnClosed` needs that a sender is done only when
`processQueue` is closed and empty, and that each close comes after the ends it
waits for (`ShutdownInv`). `OneSenderPerTarget` needs where every target is: the
targets taken are exactly `1..Taken`, because the queue is a FIFO of consecutive
numbers (`TargetInv`). `AllLinesWritten` needs where every line is: a grab has
been emitted exactly if its target was taken and no sender has it still to do,
and then it is in one place (`LineInv`). `IndInv` is their conjunction;
`Accounting` proves it, one step per action. `ChannelsSafe`, `SendersExclusive`
and `NothingLost` follow from it, and `Refinement` shows that every step is,
under `delivered = buffered + written`, a step of `GrabService` or changes
nothing of it.

On top of `Accounting`, `FlushLosesNothing` (`FlushIsDurable`)
needs `FlushInv`: a line is in the writer's buffer only while the goroutine that
holds it is about to flush, or after an error of an earlier flush, which `Write` of
the next line reports; so of the lines that left the queue the one in hand is the
only one a crash can take. `GrabData` proves `DataInv`:
what a sender holds for its target is the result of a run of the scanners
that the flags allow so far, and every line in a queue or the file is such a
result in full; `GrabsFollowFlags` follows. `SummaryIsRight` needs `SummaryInv`: the counters,
the statuses on their way and those not yet reported add up to the outcomes of
the lines, by scanner, at every moment.

**TimeoutConnProofs.** `Limit` and `ReadsReport` rest on `LimitInv`: the
buffer of a read under way is never larger than what the limit leaves, and equal
to it if it was cut. `OneShot` and `Overshoot` rest on `DeadlineInv`: the explicit
flag says what the caller set, and an operation starts within its session. They
assume `ReadSetterOnly` (the scanners in `modules/` call no other setter; the TDS
wrapper of mssql only passes such calls on), without which the inversion above
refutes them. The lemmas are about a step of the connection with any buffer and
deadline (`AnyStep`), so that those on the loops can use them.

For `BoundedReads`, `LoopInv` relates the variables of a loop to the
connection: the bytes a loop holds are those the connection counted since it
started, what is left of the maximum is what they leave, and the read under way
has at most the buffer the loop passed. `LoopsAreBounded` follows for every buffer, maximum,
timeout and peer. `LimitInLoops` and `DeadlinesInLoops` carry the theorems
above over: every step of a loop is a step of the connection with
a buffer and a deadline of the loop's own, or leaves it alone.

**RagCacheProofs.** `Freshness` assumes one server and documents that never
return to an earlier version. The invariant says that a saved signature never
names a later version than the documents have, and that if it names their
current one, so do both halves of the index unless torn; and, for every step of
the initialization, what the server has read and written. It is needed because
an old signature may stand beside a new index while a server saves, which is
harmless only because the documents never get back to the old version.

**FasstProofs.** `CallsAreBounded` needs `RoundsInv`: at every step of a script
the requests made are those of the rounds that are over plus those of this one.
`PromptsStayTogether` needs `PromptsInv`: which of the two files a script has
replaced at each of its steps, so that only a kill between the two writes can leave
them apart. `TranscriptsAreValid` needs `TranscriptInv`: while answers are being
added, the calls still open are those of the last assistant message, in order.

**SshConnectionProofs.** `AuthenticationSound` proves `AuthSound` of `SshConnection` for
every list of methods, retries and keys, every set of callbacks and every answer
they give. `AuthInv` has four parts beside the types. `TurnsInv`: the two ends
take turns, so for each place of the client it says what is on the wire and where
the server is; without it an answer could not be tied to its request. `TriesInv`:
the client is at the first entry of its method, and the calls made under it are
the rounds that are over, which bounds the retries. `GrantInv`: permissions and
grant are those of the server's last round. `CacheInv`: what was said of a key is
what the cache says of it, unless the cache was full before the key was first
seen. `AloneInv` says that a client whose multiplexer runs alone has ended its
authentication. That a key was proven needs both halves of the server's test: the
signature verifies, which only the owner of the key brings about, and the callback's
verdict is the cached one. The steps of `SshMux` leave all of them alone.

`ChannelsSurvive` proves `ChannelsSound` for every scenario of the users, whatever
packets a peer of another make sends, any number of channels and every size of
window; the one assumption on the scenarios is their type (`MuxAssumption`).
`MuxInv` speaks of each end alone, since nothing may be assumed of the other.
`SlotsKnown` is what makes it inductive: a slot of the list that is not free holds a
channel that is not closed and whose own number is the slot, so the close of a
channel frees its own slot and no other, and no packet finds a closed channel.
`GoneAreDone` is the converse: a channel without a slot is closed or was refused,
which needs that the peer has a number for our channel only once it answered.
`OffersAreIn` keeps the user from deciding about a channel this end opened. `Books`
has the windows: what was reserved and what is left is what was added, which needs
the test of `window.add` for a sum that wraps, and our window and the pending units
are together the window's size. A step that changes one channel in its slot is
proved against `Goes`; adding to and removing from the list are lemmas of their own.

**SshTransportProofs.** `TransportKeysAgree` proves `KeysAgree` and
`TransportDelivers` proves `PacketsDelivered` (two of its conjuncts are theorems of
their own, `TransportErrorsAreHonest` and `NobodyIsForgotten`), for every pair of configurations, every capacity of the channel
and the sockets, every threshold and any number of exchanges. A key is named by its
epoch, the number of the exchange that made it. `Inv` has two predicates for each
end. `EndOK` speaks of one end alone: who holds the mutex or waits for it
(`LockOK`), which keys are in use and pending at each place of an exchange
(`KeysOK`, `ExchangeOK`, `PlaceOK`), that nothing above the transport runs before
the first exchange (`MainOK`, `HelloOK`), and why it may have failed (`FailsOK`).
`WireOK` ties the two ends by what is between them: the epochs of the packets on the
wire lead from the reader's to the writer's, always, and their ranks in the exchange
lead from the reader's place to the writer's while the reader still reads and the
writer still writes. Neither holds alone: that a packet is the one expected needs
the ranks, and that an end is where its peer believes needs the packets it has
consumed. The lemmas on the scripts of the four methods say what each step reads or
writes and how it moves the rank. Every action then changes one end and appends to
or takes from one wire, so it is proved once against `Changes`.

`NothingLost`, the third conjunct of `PacketsDelivered`, needs `Deliveries` on top
of `Inv`. `Flow` says that the channel, the reader's hand and the wire carry, in this
order, the packets written and not taken. It is not inductive: the main goroutine
would lose a packet if it took one while it waits for the report of the first
exchange, and it counts what it takes as data. So `Handed` says that only data and
such reports are delivered, which rests on the ranks of `Inv` (outside of an exchange
only data and KEXINITs come, inside of one no data), and `ReportFirst` that before
the handshake is over the report is the first packet delivered, or nothing is and
the reader has no keys yet, is about to report them, or has ended. All steps but
seven are `Quiet`: they move no packet of this end's queues and write no data.

**Http1Proofs, HttpProofs.** `HttpNothingTwice` proves `NothingTwice` for any number of callers,
connections, hosts, streams and requests, every setting and every server. The two
protocols share no state, so it has an invariant for each.

Over HTTP/1 (`Once`, in `Http1Proofs`), `SentOnce` needs to know where a request that must not be
repeated can still be: in `seen`, or in the `writech` of a connection whose writer
is still there (`Pends`). Before its caller has given it to a connection it is
nowhere; while the caller waits it is at most on the caller's own connection, and
there either sent or still to be sent, not both; later it is on one connection at
most (`OnceOK`). It is retried only after
"nothing written", which needs that this is never said of a request the server has:
then the connection's counter is past the `start` the caller noted, and neither the
error the caller holds nor the one the writer is about to report says so
(`Waiting`). `Earlier` says that no connection knows of a hop its
caller has not reached, so a redirect starts clean. All steps but three (the caller
gives its request to a connection, the writer writes it, the writer reports) are
`Steady`: they move no request into a queue, no counter back, and restart a call
only as above, and they are proved together.

Over HTTP/2 (`H2Once`), a server acts on a stream it still serves, which is one
bound to a RoundTrip that is past its start (`Served`), so two actions for one
request are on one stream (`Acted`). A RoundTrip leaves its stream only when its
result says "goaway" (`Refusals`): then the server has not acted on that stream and
never will. That in turn needs the frames on the wire: a GOAWAY carries the last
stream its server said it would serve, and nothing beyond it is acted on. A step
that neither sends a request nor lets a server act is `Quiet2`, proved once.

`HttpPoolKept` proves `PoolKept` with `Pooled`, on the types of `Once`. The hard case
is that the `readLoop` gives a connection to the pool before it delivers a response
without a body: the caller is then `Leaving`, and the connection may have another
user already, so "one user" is claimed of those that do not leave. `ConnKept` says
of each connection when its `reqch` is empty and when it may be listed (not while
its loop is `Busy` with a response that keeps it out), `UserKept` what a caller at
each place may find on it, and `KeptConn` that a connection that is open and waits
for a request (`Free`) is listed or held. `Lists` ties the lists of idle connections,
one for each host and one by age, to each other and to their limits.

**Only model-checked.** All liveness (`Completes`, `OperationsReturn`, `LoopsEnd`,
`Settles`, `DecodeEnds`, `TransportReturns`, `ConnectionEnds`,
`CallsReturn`), which is beyond the prover. The properties of `Scanners` and
`Codecs` are about fifty programs and eighty formats that are data of one
interpreter: a proof would be a case analysis of that data, which TLC does
exhaustively. `FlowIsExact` of `SshConnection` has no
proof: its invariant would tie the two ends by everything that is on both wires, and
need lemmas, by induction, about the fold that adds it up. The other invariants of `Http` (`AnswersBelong` and
`FlowKept`) have no proof, the second for the same reason.

## Plan

Done: every component of the inventory that has control of its own. Left: the
expansion of a CIDR block and the debug-field processor, as operators checked
against their definitions.

## Not modelled

The server half of `lib/http` and its request, header and file-system code (the
scanner is a client); keys, certificates, agent and terminal of `lib/ssh`; the
table of errors of `lib/mysql`; the reflective encoder of `lib/smb`; TLS (the
handshake is the external zcrypto library's), JARM's fingerprint, the fake
resolver (a pure function of a packet), the parsing of flags, of CSV records and
CIDR blocks (sequential; the input is a source of targets that can fail or end),
schemas, tests and build files. Left out of the modelled parts: log messages,
formats and wording; profiles and the Prometheus endpoint; timestamps; ranking and
embedding in the document server; the contents of prompts and replies beyond
their tags; HTTP proxies, cookies, `ResponseHeaderTimeout`, `Expect:
100-continue`, HPACK and the HTTP/2 client's pings; of the HTTP/2 client also a body that is longer
or shorter than its `Content-Length`, reading a body in pieces, PUSH_PROMISE, a first
frame other than SETTINGS, a window setting above 2^31 - 1 or one that overflows a
stream's window (`flow.add`'s result is ignored there), a failed acknowledgement of
SETTINGS (`cc.werr`) and `closeWhenIdle`, none of which a server that keeps to the
protocol brings about; SSH sessions and forwarding, which
are users of the channels.
