------------------------------ MODULE Scanning ------------------------------
(***************************************************************************)
(* One interpreter for every Scan method: it runs the program of a scanner *)
(* under any flags that pass Validate, against any peer, one step at a     *)
(* time, and keeps what the properties are about.                          *)
(***************************************************************************)
EXTENDS GeneratedScanners, ZgrabScanners, FiniteSets, TLC

(* The scanner modules: name -> [port, flags, exclusive, scan].            *)
Programs == GeneratedPrograms @@ ZgrabPrograms

VARIABLES
    scanner,    \* the scanner that runs, a name of Programs
    facts,      \* its flags, and what it learned from answers
    pc,         \* its next step
    round,      \* rounds of the loop it is in
    conns,      \* the connections it opened: is each still open?
    deferred,   \* the connections with a deferred Close
    secure,     \* is the current connection wrapped in TLS?
    plain,      \* did it write on a connection without TLS?
    heard,      \* the answers it has read
    kept,       \* the error it keeps for later, or "nil"
    outcome     \* Running, Panicked or what Scan returned

vars == <<scanner, facts, pc, round, conns, deferred, secure, plain, heard,
          kept, outcome>>

Running == [status |-> "running", result |-> "nil", err |-> "nil"]
Panicked == [Running EXCEPT !.status = "panic"]

Program == Programs[scanner].scan
Flags == Programs[scanner].flags

(* Validate: options that exclude each other are refused before a scan.    *)
Validate(name, flags) ==
    \A pair \in Programs[name].exclusive : ~ pair \subseteq flags

Init ==
    /\ scanner \in DOMAIN Programs
    /\ facts \in SUBSET Flags /\ Validate(scanner, facts)
    /\ pc = 1 /\ round = 1
    /\ conns = <<>> /\ deferred = {} /\ secure = FALSE
    /\ plain = FALSE /\ heard = {} /\ kept = "nil"
    /\ outcome = Running

At(op) == /\ outcome = Running
          /\ Program[pc].op = op
          /\ Program[pc].when \subseteq facts
          /\ Program[pc].unless \cap facts = {}

(* What Scan returns on event e with reaction r.                           *)
Cause(r, e) == CASE r.err \in {"same", "dropped"} -> e
                 [] r.err = "kept" -> kept
                 [] OTHER -> r.err
Returned(r, e) ==
    [status |-> IF r.status = "detect" THEN TryGetScanStatus(Cause(r, e))
                ELSE r.status,
     result |-> r.result,
     err |-> IF r.err = "dropped" THEN "nil" ELSE Cause(r, e)]

(* After event e with reaction r: opened is the state of the connections   *)
(* before the deferred calls, which run on a return and on a panic.        *)
React(r, e, opened) ==
    /\ facts' = facts \cup r.learn
    /\ kept' = CASE r.keep = "nil" -> kept
                 [] r.keep = "same" -> e
                 [] OTHER -> r.keep
    /\ \/ /\ r.to = "next"
          /\ pc' = pc + 1 + r.skip /\ conns' = opened
          /\ UNCHANGED outcome
       \/ /\ r.to # "next"
          /\ conns' = [i \in DOMAIN opened |-> opened[i] /\ i \notin deferred]
          /\ outcome' = IF r.to = "panic" THEN Panicked
                        ELSE Returned(r, e)
          /\ UNCHANGED pc

SkipStep ==
    /\ outcome = Running
    /\ \/ ~ Program[pc].when \subseteq facts
       \/ Program[pc].unless \cap facts # {}
    /\ pc' = pc + 1
    /\ UNCHANGED <<scanner, facts, round, conns, deferred, secure, plain, heard,
                   kept, outcome>>

(* target.Open, OpenUDP, net.Dial: a new connection becomes the current.   *)
OpenStep ==
    /\ At("open")
    /\ \E e \in DOMAIN Program[pc].on : \E r \in Program[pc].on[e] :
         /\ React(r, e, IF e = "ok" THEN Append(conns, TRUE) ELSE conns)
         /\ secure' = IF e = "ok" THEN FALSE ELSE secure
    /\ UNCHANGED <<scanner, round, deferred, plain, heard>>

(* GetTLSConnection and Handshake.                                         *)
TlsStep ==
    /\ At("tls")
    /\ \E e \in DOMAIN Program[pc].on : \E r \in Program[pc].on[e] :
         /\ React(r, e, conns)
         /\ secure' = (secure \/ e = "ok")
    /\ UNCHANGED <<scanner, round, deferred, plain, heard>>

WriteStep ==
    /\ At("write")
    /\ \E e \in DOMAIN Program[pc].on : \E r \in Program[pc].on[e] :
         React(r, e, conns)
    /\ plain' = (plain \/ ~ secure)
    /\ UNCHANGED <<scanner, round, deferred, secure, heard>>

ReadStep ==
    /\ At("read")
    /\ \E e \in DOMAIN Program[pc].on : \E r \in Program[pc].on[e] :
         /\ React(r, e, conns)
         /\ heard' = heard \cup ({e} \cap Answers)
    /\ UNCHANGED <<scanner, round, deferred, secure, plain>>

(* defer conn.Close(): the receiver is the connection of this moment.      *)
DeferStep ==
    /\ At("defer")
    /\ deferred' = deferred \cup {Len(conns)}
    /\ pc' = pc + 1
    /\ UNCHANGED <<scanner, facts, round, conns, secure, plain, heard,
                   kept, outcome>>

CloseStep ==
    /\ At("close")
    /\ conns' = [conns EXCEPT ![Len(conns)] = FALSE]
    /\ pc' = pc + 1
    /\ UNCHANGED <<scanner, facts, round, deferred, secure, plain, heard,
                   kept, outcome>>

CleanupStep ==
    /\ At("cleanup")
    /\ conns' = [i \in DOMAIN conns |-> FALSE]
    /\ pc' = pc + 1
    /\ UNCHANGED <<scanner, facts, round, deferred, secure, plain, heard, kept,
                   outcome>>

(* A loop is For, its body, and Loop, which goes back to the body.         *)
ForStep ==
    /\ At("for")
    /\ round' = 1
    /\ pc' = pc + 1
    /\ UNCHANGED <<scanner, facts, conns, deferred, secure, plain, heard,
                   kept, outcome>>

LoopStep ==
    /\ At("loop")
    /\ LET again == round < Program[pc].max
       IN  /\ round' = IF again THEN round + 1 ELSE round
           /\ pc' = IF again THEN pc - Program[pc].back ELSE pc + 1
    /\ UNCHANGED <<scanner, facts, conns, deferred, secure, plain, heard,
                   kept, outcome>>

ReturnStep ==
    /\ At("return")
    /\ \E r \in Program[pc].on["ok"] : React(r, "ok", conns)
    /\ UNCHANGED <<scanner, round, deferred, secure, plain, heard>>

Scan == SkipStep \/ OpenStep \/ TlsStep \/ WriteStep \/ ReadStep \/ DeferStep
        \/ CloseStep \/ CleanupStep \/ ForStep \/ LoopStep \/ ReturnStep

Done == outcome # Running /\ UNCHANGED vars

Next == Scan \/ Done

Spec == Init /\ [][Next]_vars
=============================================================================
