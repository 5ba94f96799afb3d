----------------------------- MODULE ScanSteps ------------------------------
(***************************************************************************)
(* The vocabulary in which the Scan method of a zgrab2 scanner is written: *)
(* a sequence of steps (open, TLS handshake, write, read, defer Close,     *)
(* Close, loop, return).  A step says what the scanner does on each event  *)
(* that can end it: go on, return (status, result, error) or panic.        *)
(* A peer's answer is abstracted to how it stands to the request:          *)
(*   "accept"   the protocol's own positive answer                         *)
(*   "refuse"   the protocol's own negative answer                         *)
(*   "foreign"  enough bytes, but of another protocol                      *)
(*   "short"    fewer bytes than the scanner looks at                      *)
(* and an error to its Go type, which is what TryGetScanStatus looks at.   *)
(***************************************************************************)
EXTENDS Integers, Sequences

Answers == {"accept", "refuse", "foreign", "short"}

(* An error by what its type is: *net.OpError of a dial, read or write,    *)
(* io.EOF, a *zgrab2.ScanError (by its Status), any other type: a context  *)
(* error, the read limit, a TLS alert, an error made with fmt or errors.   *)
ScanErrors == {"protocol-error", "application-error", "unknown-error"}
Errors == {"dial", "read", "write", "EOF", "other"} \cup ScanErrors
Statuses == {"success", "connection-timeout", "io-timeout"} \cup ScanErrors

TryGetScanStatus(err) ==
    CASE err = "nil" -> "success"
      [] err \in {"EOF", "read", "write"} -> "io-timeout"
      [] err = "dial" -> "connection-timeout"
      [] err \in ScanErrors -> err
      [] OTHER -> "unknown-error"

-----------------------------------------------------------------------------
(* What a scanner does on an event: a set of reactions, one is taken.      *)

Reaction == [to : {"next", "return", "panic"},
             skip : Nat,                        \* steps to leave out
             learn : SUBSET STRING,             \* facts that guard steps
             status : Statuses \cup {"detect"}, \* detect: TryGetScanStatus
             result : {"nil", "some"},
             keep : Errors \cup {"nil", "same"}, \* an error for later
             err : Errors \cup {"nil", "same", "kept", "dropped"}]
                \* same: the event's error, kept: the one kept for later,
                \* dropped: the event's error is in the status only

Go == {[to |-> "next", skip |-> 0, learn |-> {}, keep |-> "nil",
        status |-> "success", result |-> "nil", err |-> "nil"]}
Skip(n) == {[r EXCEPT !.skip = n] : r \in Go}
KeepSkip(n) == {[r EXCEPT !.skip = n, !.keep = "same"] : r \in Go}
Keep(what, err) == {[r EXCEPT !.learn = what, !.keep = err] : r \in Go}
Learn(what) == {[r EXCEPT !.learn = what] : r \in Go}
Panic == {[r EXCEPT !.to = "panic"] : r \in Go}
Give(status, result, err) ==
    {[to |-> "return", skip |-> 0, learn |-> {}, keep |-> "nil",
      status |-> status, result |-> result, err |-> err]}
Success == Give("success", "some", "nil")
Fail(result) == Give("detect", result, "same")      \* the error as it came
Dropped(result) == Give("detect", result, "dropped")
Kept(result) == Give("detect", result, "kept")
Wrapped(result) == Give("detect", result, "other")  \* an error of its own
Ended(result) == Give("detect", result, "EOF")      \* closed in mid answer
Verdict(status, result) == Give(status, result, "other")

(* The steps.  fail is the reaction to an error, one reaction per answer.  *)
Step(op, on) == [op |-> op, when |-> {}, unless |-> {}, on |-> on,
                 back |-> 0, max |-> 0]
Open(fail) == Step("open", [ok |-> Go, dial |-> fail])
Tls(fail) == Step("tls", [ok |-> Go, read |-> fail, write |-> fail,
                          EOF |-> fail, other |-> fail])
Write(fail) == Step("write", [ok |-> Go, write |-> fail, other |-> fail])
Read(fail, accept, refuse, foreign, short) ==
    Step("read", [accept |-> accept, refuse |-> refuse, foreign |-> foreign,
                  short |-> short, read |-> fail, EOF |-> fail,
                  other |-> fail])
Hear(fail, any) == Read(fail, any, any, any, any)
(* A line protocol's ReadResponse: an end or a timeout is taken for an     *)
(* answer, with what was read so far.                                      *)
ReadLine(fail, accept, refuse, junk) ==
    [Read(fail, accept, refuse, junk, junk)
        EXCEPT !.on["EOF"] = junk, !.on["read"] = fail \cup junk]
Command(fail) == <<Write(fail), ReadLine(fail, Go, Go, Go)>>
DeferClose == Step("defer", [ok |-> Go])
Close == Step("close", [ok |-> Go])
Cleanup == Step("cleanup", [ok |-> Go])      \* every connection
Return(reaction) == Step("return", [ok |-> reaction])
Choose(reaction) == Return(reaction)    \* on what the answers hold
For == Step("for", [ok |-> Go])
Loop(back, max) == [Step("loop", [ok |-> Go])
                       EXCEPT !.back = back, !.max = max]

(* Steps under a condition: a flag or a fact learned from an answer.       *)
If(fact, steps) ==
    [i \in DOMAIN steps |-> [steps[i] EXCEPT !.when = @ \cup {fact}]]
IfNot(fact, steps) ==
    [i \in DOMAIN steps |-> [steps[i] EXCEPT !.unless = @ \cup {fact}]]

Module(port, flags, exclusive, scan) ==
    [port |-> port, flags |-> flags, exclusive |-> exclusive, scan |-> scan]
=============================================================================
