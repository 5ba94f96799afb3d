------------------------------ MODULE Scanners ------------------------------
(***************************************************************************)
(* What the Scan methods of all scanner modules promise together.  A       *)
(* scanner outside a set of names below never does what the set is named   *)
(* for, whatever its flags and its peer.                                   *)
(***************************************************************************)
EXTENDS Scanning

Returns == outcome \notin {Running, Panicked}
Succeeds == Returns /\ outcome.status = "success"

(* The state of the interpreter is well formed: the program counter stays  *)
(* in the program and only connections that were opened are deferred.      *)
TypeOK ==
    /\ scanner \in DOMAIN Programs
    /\ pc \in DOMAIN Program /\ round \in Nat \ {0}
    /\ conns \in Seq(BOOLEAN) /\ deferred \subseteq DOMAIN conns
    /\ secure \in BOOLEAN /\ plain \in BOOLEAN
    /\ heard \subseteq Answers /\ kept \in Errors \cup {"nil"}
    /\ outcome \in {Running, Panicked}
           \cup [status : Statuses, result : {"nil", "some"},
                 err : Errors \cup {"nil"}]

(* The status and the error of a scan say the same: RunScanner copies both *)
(* into the record.  The exceptions are named.                             *)
ErrorWithSuccess == {"socks5"}
StatusWithoutError == {"bacnet", "imap", "modbus", "pop3", "rethinkdb", "xmpp"}
StatusAgreesWithError ==
    Returns =>
      /\ outcome.status = "success" /\ outcome.err # "nil"
            => scanner \in ErrorWithSuccess
      /\ outcome.status # "success" /\ outcome.err = "nil"
            => scanner \in StatusWithoutError

(* A success has a result: only the Modbus scanner reports one without,    *)
(* when the peer closes after the header, and the SMB scanner, when SMB1   *)
(* fails.                                                                  *)
SuccessHasResult ==
    Succeeds /\ outcome.result = "nil" => scanner \in {"modbus", "smb"}

(* A success was answered: these scanners call a success only what the     *)
(* protocol itself said.                                                   *)
Recognisers ==
    {"amqp", "doq", "ldap", "memcached", "radius", "rethinkdb", "rfb", "rtsp",
     "terraria", "tftp", "xmpp", "amqp091", "bacnet", "dnp3", "fox", "modbus",
     "mongodb", "mssql", "mysql", "oracle", "redis", "siemens", "telnet"}
SuccessIsRecognised ==
    Succeeds /\ scanner \in Recognisers
        => heard \cap {"accept", "refuse"} # {}

(* When Scan is over, every connection it opened is closed; the exceptions *)
(* open the target twice, or return before Close is deferred.              *)
Leaking == {"banner", "fox", "ipp", "oracle", "redis", "siemens", "sip", "ssh"}
ConnectionsClosed ==
    outcome # Running /\ scanner \notin Leaking => \A i \in DOMAIN conns : ~ conns[i]

(* With TLS from the start nothing is written in the clear; the SIP        *)
(* scanner ignores the option over UDP, and the HTTP scanners follow a     *)
(* redirect to http.                                                       *)
ImplicitTLS == {"implicit-tls", "tls", "use-tls", "imaps", "pop3s", "smtps",
                "tcps", "ipps", "use-https"}
NothingInTheClear ==
    facts \cap ImplicitTLS # {} /\ plain
        => \/ scanner = "sip" /\ "tcp" \notin facts
           \/ scanner \in {"http", "ipp"} /\ heard # {}

(* A scan asked to upgrade that succeeds has upgraded; the FTP scanner     *)
(* goes on without when the server refuses.                                *)
UpgradedOrFailed ==
    Succeeds /\ facts \cap {"starttls", "authtls", "encrypt-on"} # {} /\ ~ secure
        => scanner = "ftp"

(* A panic, which ends the process, is limited to the scanners that take   *)
(* bytes of an answer without checking that they are there, use a          *)
(* connection they did not get, or meet an option that Validate let pass.  *)
Panicking == {"banner", "fox", "ldap", "mongodb", "mssql", "ntp", "oracle",
              "postgres", "redis", "siemens", "smb", "telnet", "tftp"}
PanicsAreKnown == outcome = Panicked => scanner \in Panicking

(* A scan has at most one connection to the target open at a time; those   *)
(* that have more have lost track of one, or keep an idle one.             *)
Overlapping == {"banner", "fox", "http", "ipp", "postgres", "redis"}
OneConnectionAtATime ==
    Cardinality({i \in DOMAIN conns : conns[i]}) > 1 => scanner \in Overlapping

(* What Scan returns, which RunScanner copies into the record, is what     *)
(* happened: the status and the error agree, a success has a result and    *)
(* was recognised as the protocol, and only the named scanners end the     *)
(* process instead of returning.                                           *)
ResultsAreHonest ==
    /\ TypeOK /\ StatusAgreesWithError
    /\ SuccessHasResult /\ SuccessIsRecognised /\ PanicsAreKnown

(* Scan owns every connection it opens from Open to Close: it has one at a *)
(* time, and none is left open on any of its returns, the named scanners   *)
(* excepted.                                                               *)
ConnectionsOwned == ConnectionsClosed /\ OneConnectionAtATime

(* A scan that is asked for TLS does not say in the clear what TLS was to  *)
(* protect, and does not call a success what was never upgraded.           *)
SecrecyKept == NothingInTheClear /\ UpgradedOrFailed
=============================================================================
