---------------------------- MODULE ZgrabScanners ---------------------------
(***************************************************************************)
(* The scanner modules of zgrab2 (modules/): default port, options that    *)
(* change what Scan does, options Validate refuses together, and the Scan  *)
(* method with the helpers it calls.                                       *)
(***************************************************************************)
EXTENDS ScanSteps

CONSTANT MaxTries       \* the banner scanner's max-tries

ASSUME MaxTriesAssumption == MaxTries \in Nat \ {0}

MaxRedirects == 1       \* bound: the max-redirects of the HTTP scanners
MaxRounds == 2          \* bound: rounds of a telnet negotiation before the
                        \* session of the connection is over

(* amqpLib.Open sends the protocol header and reads the START frame; once  *)
(* that has come, whatever follows is a success.                           *)
Amqp091 == Module(5672, {"use-tls"}, {},
    LET noStart == Verdict("protocol-error", "nil")
        broken == Fail("nil") \cup noStart
    IN  <<Open(Fail("nil")), DeferClose>>
        \o If("use-tls", <<Tls(Fail("nil"))>>)
        \o <<[Write(broken) EXCEPT !.on["other"] = noStart],
             [Read(broken, Success, Success, noStart, noStart)
                EXCEPT !.on["other"] = noStart]>>)

(* ReadProperty over a datagram.  After the device id, a failed query ends *)
(* the scan with its status but no error.                                  *)
Bacnet == Module(47808, {}, {},
    LET unknown == Give("unknown-error", "some", "nil")
        ended == Give("io-timeout", "some", "nil")
    IN  <<Open(Fail("nil")), DeferClose, Write(Fail("nil")),
          Read(Fail("nil"), Go, Wrapped("nil"), Wrapped("nil"),
               Wrapped("nil") \cup Ended("nil")),
          For,
          Write(Dropped("some")),
          Read(Dropped("some"), Go, unknown, unknown, unknown \cup ended),
          Loop(2, 8),
          Return(Success)>>)

(* Two retry loops of MaxTries.  A connection whose handshake failed is    *)
(* not closed; with max-tries 0 there is no connection to defer Close on.  *)
(* A failed write still reads, and its error wins.                         *)
Banner == Module(80, {"tls", "pattern", "max-tries=0"}, {},
    If("max-tries=0", <<Return(Panic)>>)
    \o <<For, Open(KeepSkip(2))>>
    \o If("tls", <<Tls(KeepSkip(1))>>)
    \o <<Choose(Skip(2)),                  \* connected: leave the loop
         Loop(3, MaxTries), Return(Kept("nil")),
         DeferClose,
         For, Write(KeepSkip(3)),
         [Hear(KeepSkip(0), Skip(5)) EXCEPT !.on["EOF"] = Skip(5)],
         Loop(2, MaxTries), Return(Kept("nil")),
         Hear(Go, Go), Loop(5, MaxTries),
         Return(Kept("nil"))>>
    \o If("pattern", <<Return(Success
                              \cup Verdict("protocol-error", "some"))>>)
    \o <<Return(Success)>>)

(* The start field of a link header must be there.                         *)
AnyLinkHeader == Module(20000, {}, {},                             \* mutant
    <<Open(Fail("nil")), DeferClose, Write(Go), Hear(Fail("nil"), Success)>>)

Dnp3 == Module(20000, {}, {},
    LET invalid == Give("detect", "nil", "protocol-error")
    IN  <<Open(Fail("nil")), DeferClose, Write(Go),
          [Read(Fail("nil"), Success, Success, invalid, invalid)
              EXCEPT !.on["EOF"] = invalid]>>)

(* The target is opened before the TLS option is looked at and again when  *)
(* it is not set; the error of the first open is overwritten.              *)
Fox == Module(1911, {"use-tls"}, {},
    LET notFox == Give("detect", "nil", "protocol-error")
    IN  <<Open(Learn({"no connection"}))>>
        \o If("use-tls", If("no connection", <<Return(Panic)>>)
                         \o <<Tls(Fail("nil"))>>)
        \o IfNot("use-tls", <<Open(Fail("nil"))>>)
        \o <<DeferClose, Write(notFox),
             Read(notFox, Success \cup Wrapped("some"), notFox, notFox,
                  notFox)>>)

(* A banner and any three digits at the end of it; AUTH TLS, then AUTH     *)
(* SSL, when the banner's code is 2xx.                                     *)
SetupFTPS ==
    <<Write(Go),
      Read(Wrapped("some"), Skip(2), Go, Wrapped("some") \cup Go \cup Skip(2),
           Wrapped("some")),
      Write(Go),
      Read(Wrapped("some"), Go, Success, Wrapped("some") \cup Go \cup Success,
           Wrapped("some")),
      Tls(Wrapped("some"))>>
Ftp == Module(21, {"authtls", "implicit-tls"}, {{"authtls", "implicit-tls"}},
    <<Open(Fail("nil")), DeferClose>>
    \o If("implicit-tls", <<Tls(Fail("nil"))>>)
    \o <<Read(Fail("some"), Learn({"2xx"}), Go,
              Wrapped("some") \cup Learn({"2xx"}) \cup Go,
              Wrapped("some") \cup Ended("some"))>>
    \o If("authtls", If("2xx", SetupFTPS))
    \o <<Return(Success)>>)

(* The banner decides the status, which is returned without an error; the  *)
(* words that make a banner an IMAP one occur in others too.               *)
VerifyIMAPContents ==
    LET invalid == Verdict("protocol-error", "nil")
    IN  <<[ReadLine(Fail("nil"), Go, Learn({"application-error"}), invalid)
              EXCEPT !.on["foreign"] = invalid \cup Go]>>
ReturnBannerStatus ==
    If("application-error",
       <<Return(Give("application-error", "some", "nil"))>>)
    \o <<Return(Success)>>
HandshakeUnchecked(refused, junk) ==                               \* mutant
    <<Write(Fail("some")), ReadLine(Fail("some"), Go, refused, junk), Tls(Go)>>

StartTLS(refused, junk) ==
    <<Write(Fail("some")), ReadLine(Fail("some"), Go, refused, junk),
      Tls(Fail("some"))>>
Imap == Module(143, {"imaps", "starttls", "send-close"},
               {{"imaps", "starttls"}},
    <<Open(Fail("nil")), DeferClose>>
    \o If("imaps", <<Tls(Fail("some"))>>)
    \o VerifyIMAPContents
    \o If("starttls", StartTLS(Wrapped("some"), Wrapped("some")))
    \o If("send-close", Command(Fail("nil")))
    \o ReturnBannerStatus)

(* The answer to STLS is an error only when it starts with "-".            *)
VerifyPOP3Contents == VerifyIMAPContents
Pop3 == Module(110, {"pop3s", "starttls", "send-help", "send-noop",
                     "send-quit"}, {{"pop3s", "starttls"}},
    <<Open(Fail("nil")), DeferClose>>
    \o If("pop3s", <<Tls(Fail("some"))>>)
    \o VerifyPOP3Contents
    \o If("send-help", Command(Fail("some")))
    \o If("send-noop", Command(Fail("some")))
    \o If("starttls", StartTLS(Wrapped("some"), Go))
    \o If("send-quit", Command(Fail("nil")))
    \o ReturnBannerStatus)

(* Any three digits at the start are a code; the error of the banner is    *)
(* returned at the end, when every command has been sent.                  *)
VerifySMTPContents ==
    LET invalid == Verdict("protocol-error", "nil")
        banner(fail) ==
            <<[ReadLine(fail, Go, Learn({"application-error"}), invalid)
                  EXCEPT !.on["foreign"] = invalid \cup Go]>>
    IN  If("smtps", banner(Fail("some"))) \o IfNot("smtps", banner(Fail("nil")))
Smtp == Module(25, {"smtps", "starttls", "send-helo", "send-ehlo", "send-help",
                    "send-quit"},
               {{"smtps", "starttls"}, {"send-helo", "send-ehlo"}},
    <<Open(Fail("nil")), DeferClose>>
    \o If("smtps", <<Tls(Fail("some"))>>)
    \o VerifySMTPContents
    \o If("send-helo", Command(Fail("some")))
    \o If("send-ehlo", Command(Fail("some")))
    \o If("send-help", Command(Fail("some")))
    \o If("starttls", StartTLS(Verdict("application-error", "some"),
                               Give("detect", "some", "protocol-error")))
    \o If("send-quit", Command(Fail("nil")))
    \o If("application-error",
          <<Return(Verdict("application-error", "some"))>>)
    \o <<Return(Success)>>)

(* client.Do: a request, and one more for every redirect while there are   *)
(* at most MaxRedirects, on an idle connection or a new one.  A redirect   *)
(* chooses between http and https anew, whatever the scan was asked for.   *)
(* DialTLS notes its connection for Cleanup, note is what DialContext does *)
(* with its own.                                                           *)
ClientDo(https, done, moved, failed, note, dial, tls, send, read) ==
    IfNot(failed,
        <<For>>
        \o If(moved, <<Choose(Go \cup Skip(6))>>)
        \o <<Open(dial), note>>
        \o If(moved, <<Choose(Go \cup Skip(3))>>)
        \o IfNot(https, IfNot(moved, <<Choose(Skip(2))>>))
        \o <<DeferClose, Tls(tls), Write(send), read>>
        \o IfNot(done, <<Loop(9, MaxRedirects + 1)>>))

(* A redirect to the local host is not followed and is a success.  After a *)
(* failure in the clear retry-https closes the connections and tries again *)
(* with TLS; when that fails too the first error is reported.              *)
HttpGrab(https, done, moved, failed, broken, misread) ==
    ClientDo(https, done, moved, failed, DeferClose, broken, broken, misread,
        Read(misread, Learn({done}), Learn({moved}) \cup Learn({done}),
             misread, misread \cup Learn({done})))
Http == Module(80, {"use-https", "retry-https", "fail-http-to-https",
                    "redirects-succeed"}, {},
    LET failed(err) == Keep({"failed"}, err)
        again == Kept("some")
    IN  HttpGrab("use-https", "answered", "moved", "failed",
                 failed("same") \cup failed("other"), failed("other"))
        \o If("fail-http-to-https", If("answered",
              <<Choose(Go \cup failed("protocol-error"))>>))
        \o If("redirects-succeed", IfNot("failed", <<Return(Success)>>))
        \o IfNot("failed", If("answered", <<Return(Success)>>)
                           \o <<Choose(failed("application-error"))>>)
        \o If("use-https", <<Return(again)>>)
        \o IfNot("retry-https", <<Return(again)>>)
        \o <<Cleanup>>
        \o HttpGrab("retry-https", "answered again", "moved again",
                    "failed again", again, again)
        \o If("fail-http-to-https", If("answered again",
              <<Choose(Go \cup again)>>))
        \o IfNot("redirects-succeed", IfNot("answered again",
              <<Return(again)>>))
        \o <<Return(Success)>>)

(* Get-Printer-Attributes in each IPP version until one is supported; the  *)
(* CUPS request that follows a CUPS answer can fail silently.  Attributes  *)
(* that cannot be decoded are logged only.  Connections without TLS are    *)
(* not noted for Cleanup.                                                  *)
IppGrab(https, version, failed, broken, unsent, unanswered, refused) ==
    LET done == "answered " \o version
        cups == "CUPS " \o version
    IN  ClientDo(https, done, "moved " \o version, failed, Choose(Go),
            broken, unsent, unanswered,
            Read(unanswered, Learn({done, "supported"})
                             \cup Learn({done, "supported", cups}),
                 Learn({done}),
                 Learn({"moved " \o version}) \cup refused
                    \cup Verdict("protocol-error", "some"),
                 Learn({done, "supported"}) \cup unanswered))
        \o IfNot(failed, IfNot(done, <<Choose(refused)>>)
              \o If(cups, <<Write(Skip(1)), Hear(Go, Go)>>)
              \o If("supported", <<Return(Success)>>))
IppVersions(https, attempt, failed, broken, unsent, unanswered, refused) ==
    LET grab(version) == IppGrab(https, version \o attempt, failed, broken,
                                 unsent, unanswered, refused)
    IN  grab("2.1") \o grab("1.0")     \* bound: 2.0 and 1.1 left out
        \o IfNot(failed, <<Return(Verdict("application-error", "some"))>>)

(* With ipps-retry the first attempt is made over TLS and the second in    *)
(* the clear.  What there is to report of an attempt is a response or a    *)
(* ServerHello.                                                            *)
Ipp == Module(631, {"ipps", "ipps-retry"}, {},
    LET failed(what, err) == Keep({"failed"} \cup what, err)
        broken == failed({}, "same") \cup failed({}, "other")
        report == Return(Kept("some"))
    IN  If("ipps", <<Choose(Learn({"https"}))>>)
        \o If("ipps-retry", <<Choose(Learn({"https"}))>>)
        \o IppVersions("https", "", "failed", broken,
                       broken \cup failed({"hello"}, "same"),
                       failed({"sent"}, "other"),
                       failed({"answered"}, "application-error"))
        \o IfNot("ipps", If("ipps-retry",
              IppVersions("in the clear", " again", "failed again",
                  Fail("nil") \cup Kept("some"), Fail("nil") \cup Kept("some"),
                  Wrapped("nil") \cup Kept("some"),
                  Verdict("application-error", "some"))))
        \o If("answered", <<report>>) \o If("hello", <<report>>)
        \o If("https", If("sent", <<report>>))
        \o <<Return(Kept("nil"))>>)

(* Ten probes, a connection for each; only a failed open is an error.      *)
Jarm == Module(443, {}, {},
    <<For, Open(Fail("nil")), Write(Skip(1)), Hear(Go, Go), Close, Loop(4, 10),
      Return(Success)>>)

(* The header must echo the request id.  No body at all is no response and *)
(* no error; a body cut short is parsed as it is.                          *)
GetModbusResponse ==
    LET nothing == Give("success", "nil", "nil")
        invalid == Verdict("protocol-error", "nil")
        exception == Give("application-error", "some", "nil")
    IN  <<Read(Wrapped("nil"), Go, Go, Wrapped("nil"), Wrapped("nil")),
          [Read(Fail("nil"), Success, exception, invalid \cup nothing,
                invalid \cup exception) EXCEPT !.on["EOF"] = nothing]>>
Modbus == Module(502, {}, {},
    <<Open(Fail("nil")), DeferClose, Write(Fail("nil"))>> \o GetModbusResponse)

(* Messages with a length prefix; isMaster is checked, the other answers   *)
(* are cut at an offset without looking at their length.                   *)
GetIsMaster ==
    LET invalid == Verdict("protocol-error", "nil")
    IN  <<Write(Go), Read(invalid, Go, invalid, invalid, invalid)>>
ListDatabases ==
    LET invalid == Verdict("protocol-error", "nil")
    IN  <<Write(Go), Read(invalid, Go, Go, Go \cup invalid,
                          invalid \cup Panic)>>
Mongodb == Module(27017, {}, {},
    <<Open(Fail("nil")), DeferClose>> \o GetIsMaster \o ListDatabases
    \o <<Write(Go),
         Read(Fail("some"), Success, Success, Success \cup Wrapped("some"),
              Verdict("protocol-error", "some") \cup Wrapped("some")
                 \cup Panic)>>)

(* PRELOGIN, and a TLS handshake inside TDS packets unless one side does   *)
(* not support encryption.  An option of the answer is cut out at a 16-bit *)
(* offset plus length, which can wrap.                                     *)
Mssql == Module(1433, {"encrypt-on", "encrypt-not-sup"},
                {{"encrypt-on", "encrypt-not-sup"}},
    LET mismatch == Return(Verdict("application-error", "some"))
        invalid == Give("detect", "nil", "application-error")
                   \cup Give("detect", "some", "application-error")
    IN  <<Open(Fail("nil")), DeferClose, Write(Fail("nil")),
          Read(Fail("nil"), Go \cup Learn({"server-req"}),
               Learn({"server-not-sup"}),
               invalid \cup Wrapped("nil") \cup Panic,
               Ended("nil") \cup Wrapped("nil"))>>
        \o If("encrypt-on", If("server-not-sup", <<mismatch>>))
        \o If("encrypt-not-sup", If("server-req", <<mismatch>>))
        \o If("server-not-sup", <<Return(Success)>>)
        \o <<Tls(Fail("some")), Return(Success)>>)

(* Every failure is thrown as a panic and recovered into a status.  A      *)
(* ScanError of readPacket loses its type when it is wrapped.              *)
Mysql == Module(3306, {}, {},
    LET refused == Give("detect", "some", "application-error")
    IN  <<Open(Fail("some")), DeferClose,
          Read(Wrapped("some"), Learn({"SSL"}) \cup Go, refused,
               Wrapped("some"), Wrapped("some"))>>
        \o If("SSL", <<Write(Wrapped("some")), Tls(Fail("some"))>>)
        \o <<Return(Success)>>)

(* GetTime and MonList over a datagram.  What is no answer to MonList is   *)
(* no error either.  Validate lets any request-code pass; one that is no   *)
(* code is met by a panic in MonList.                                      *)
GetTime == <<Write(Fail("nil")),
             Read(Fail("nil"), Go, Go, Wrapped("nil"),
                  Ended("nil") \cup Wrapped("nil"))>>
MonList(result) ==
    If("invalid request-code", <<Return(Panic)>>)
    \o <<Write(Fail(result)),
         Read(Fail(result), Go, Give("detect", result, "application-error"),
              Go \cup Give("detect", result, "protocol-error"),
              Go \cup Ended(result))>>
Ntp == Module(123, {"skip-get-time", "monlist", "invalid request-code"}, {},
    <<Open(Fail("nil")), DeferClose>>
    \o IfNot("skip-get-time", GetTime)
    \o If("monlist", If("skip-get-time", MonList("nil"))
                     \o IfNot("skip-get-time", MonList("some")))
    \o <<Return(Success)>>)

(* TNS connect and Native Security Negotiation; a Resend is obeyed once.   *)
(* A Redirect is not among the packets that are read.  The descriptor of a *)
(* Refuse is parsed without looking at its end.  Nothing is ever closed.   *)
SendPacket(result, accept, refuse) ==
    LET invalid == Wrapped(result)
        answer(positive) == Read(Fail(result), positive, refuse, invalid,
                                 Ended(result) \cup invalid)
    IN  <<Write(Fail(result)), answer(Skip(2) \cup Go),
          Write(Fail(result)), answer(accept)>>
TnsConnect(result) ==
    SendPacket(result, Go \cup Verdict("application-error", "some"),
               Success \cup Panic)
Oracle == Module(1521, {"tcps"}, {},
    LET odd == Verdict("application-error", "some")
    IN  <<Open(Fail("nil"))>>
        \o If("tcps", <<Tls(Fail("nil"))>> \o TnsConnect("some"))
        \o IfNot("tcps", TnsConnect("nil"))
        \o SendPacket("some", Go \cup odd, odd)
        \o <<Return(Success)>>)

(* One connection for each protocol version offered, TLS on the first and  *)
(* the last.  closeConnection looks the connection up under another key    *)
(* than it was added with, so all stay open until cleanUp.                 *)
NewConnection(result) ==
    LET invalid == Verdict("protocol-error", result)
        rejected == Verdict("application-error", result)
    IN  <<Open(Fail(result)), DeferClose>>
        \o IfNot("skip-ssl",
              <<Write(Fail(result)),
                Read(Fail(result), Go, Skip(1), invalid \cup rejected,
                     invalid \cup rejected \cup Wrapped(result)),
                Tls(Fail(result))>>)
ReadPacket ==
    Read(Fail("some"), Go, Go, Go \cup Verdict("protocol-error", "some"),
         Go \cup Wrapped("some"))
ReadAll == [ReadPacket EXCEPT !.on["read"] = Go, !.on["EOF"] = Go]
Postgres == Module(5432, {"skip-ssl", "user"}, {},
    LET late == Give("protocol-error", "some", "same")
        offer == <<Open(Fail("some")), DeferClose, Write(late), ReadPacket,
                   ReadAll>>
    IN  NewConnection("nil") \o <<Write(Fail("some")), ReadPacket, ReadAll>>
        \o offer \o offer
        \o If("user", NewConnection("some")
              \o <<Write(late),
                   [ReadAll EXCEPT !.on["short"] = @ \cup Panic]>>)
        \o <<Return(Success)>>)

(* RESP values.  The target is opened twice when TLS is not set; an array  *)
(* of negative length cannot be made.                                      *)
SendCommand(result) ==
    <<Write(Fail(result)),
      Read(Fail(result), Go, Go, Wrapped(result) \cup Panic,
           Wrapped(result) \cup Ended(result))>>
Redis == Module(6379, {"use-tls", "password", "custom-commands"}, {},
    <<Open(Fail("nil"))>>
    \o If("use-tls", <<Tls(Fail("nil"))>>)
    \o IfNot("use-tls", <<Open(Fail("nil"))>>)
    \o <<DeferClose>> \o SendCommand("nil")
    \o If("password", SendCommand("some"))
    \o SendCommand("some") \o SendCommand("some")
    \o If("custom-commands", SendCommand("some"))
    \o <<Write(Fail("some")),
         [Read(Fail("some"), Success, Success, Wrapped("some") \cup Panic,
               Wrapped("some") \cup Success) EXCEPT !.on["EOF"] = Success]>>)

(* COTP connect; without an answer the connection is closed and the target *)
(* opened again for another TSAP, and nobody closes that connection.  Once *)
(* the PDU size is negotiated there is a result, also beside an error.     *)
ConnectCOTP ==
    LET odd == Learn({"not a confirmation"}) \cup Go
    IN  <<Write(Go),
          Read(Go, Learn({"confirmed"}) \cup Go, odd, odd, odd)>>
        \o If("not a confirmation", <<Return(Wrapped("nil"))>>)
        \o IfNot("confirmed",
              <<Close, Open(Fail("nil")), Write(Go),
                Read(Fail("nil"), Go \cup Ended("nil"), Wrapped("nil"),
                     Wrapped("nil"), Wrapped("nil"))>>)
ReadSZL ==
    <<Write(Go),
      Read(Fail("some"), Go \cup Ended("some"), Go, Wrapped("some"),
           Wrapped("some") \cup Panic)>>
Siemens == Module(102, {}, {},
    <<Open(Fail("nil")), DeferClose>> \o ConnectCOTP
    \o <<Write(Go), Hear(Fail("nil"), Go \cup Ended("nil"))>>
    \o ReadSZL \o ReadSZL
    \o <<Return(Success)>>)

(* SMB2 negotiation, SMB1 on a new connection when there is no answer to   *)
(* it, and the session setup.  Errors of the SMB1 log are lost in a        *)
(* shadowed variable.                                                      *)
SmbV2 ==
    <<Write(Go),
      Read(Learn({"v1"}), Go, Wrapped("some"), Learn({"v1"}), Learn({"v1"}))>>
    \o IfNot("v1", If("setup-session",
          <<Write(Go), Read(Fail("some"), Success, Success \cup Wrapped("some"),
                            Wrapped("some"), Wrapped("some"))>>)
          \o <<Return(Success)>>)
SmbV1 ==
    LET lost == Give("success", "nil", "nil")
    IN  <<Close, Open(Fail("nil")), DeferClose, Write(Go),
          Read(lost, Go, lost, Success, lost)>>
        \o If("setup-session",
              <<Write(Go),
                Read(Success, Success, Success, Success, Success \cup Panic)>>)
        \o <<Return(Success)>>
Smb == Module(445, {"setup-session"}, {},
    <<Open(Fail("nil")), DeferClose>> \o SmbV2 \o SmbV1)

(* NewClientConn: version lines, key exchange, method "none" to learn the  *)
(* methods.  A failure loses its type and closes the connection, a success *)
(* leaves it to the client's goroutines, which the dial's deadline ends.   *)
SshSend == Write(Learn({"failed"}))
SshReceive(accept) ==
    LET failed == Learn({"failed"})
    IN  Read(failed, accept, failed, failed, failed)
ExchangeVersions == IfNot("failed", <<SshSend, Hear(Learn({"failed"}), Go)>>)
RequestInitialKeyChange ==
    IfNot("failed",
        <<SshSend, SshReceive(Go \cup Learn({"gex"}))>>    \* KEXINIT
        \o If("gex", <<SshSend, SshReceive(Go)>>)          \* group exchange
        \o <<SshSend, SshReceive(Go)>>                     \* key exchange
        \o <<SshSend, SshReceive(Go)>>)                    \* NEWKEYS
ClientAuthenticate ==
    IfNot("failed", If("userauth",
        <<SshSend, SshReceive(Go),
          SshSend, [SshReceive(Go) EXCEPT !.on["refuse"] = Go]>>))
Ssh == Module(22, {"hello-only", "userauth"}, {},
    <<Open(Fail("some"))>> \o ExchangeVersions
    \o IfNot("failed", If("hello-only", <<Return(Success)>>))
    \o RequestInitialKeyChange \o ClientAuthenticate
    \o If("failed", <<Close, Return(Wrapped("some"))>>)
    \o <<Return(Success)>>)

(* Options are refused as they come until there is text, or an option that *)
(* a Read has cut before its last byte; one cut after its first byte is of *)
(* an unknown type, and past the end of a buffer that has one byte left.   *)
(* A peer that only ever sends options is read until the session is over.  *)
NegotiateOptions(fail, unsupported) ==
    <<For,
      Read(fail, Learn({"option"}) \cup Learn({"option", "text"}),
           Learn({"option", "text"}), Learn({"text"}) \cup unsupported,
           unsupported \cup Panic),
      Write(fail)>>
    \o IfNot("text", <<Loop(2, MaxRounds), Return(unsupported)>>)

(* What is left of max-read-size is negative when the negotiation has read *)
(* more text than that.                                                    *)
Telnet == Module(23, {"small max-read-size"}, {},
    LET fail == Fail("nil") \cup Fail("some")
        unsupported == Wrapped("nil") \cup Wrapped("some")
        invalid == Give("detect", "nil", "protocol-error")
                   \cup Give("detect", "some", "protocol-error")
    IN  <<Open(Fail("nil")), DeferClose>>
        \o NegotiateOptions(fail, unsupported)
        \o If("small max-read-size", <<Choose(Go \cup Panic)>>)
        \o <<ReadLine(fail, Go, Go, Go)>>
        \o IfNot("option", <<Return(invalid)>>)
        \o <<Return(Success)>>)

(* OpenTLS; the log is kept when a ServerHello was seen.                   *)
NeverClosed == Module(443, {}, {},                                 \* mutant
    <<Open(Fail("nil")), Tls(Fail("nil")), Return(Success)>>)

TlsScanner == Module(443, {}, {},
    <<Open(Fail("nil")), DeferClose, Tls(Fail("nil") \cup Fail("some")),
      Return(Success)>>)

ZgrabPrograms ==
    [amqp091 |-> Amqp091, bacnet |-> Bacnet, banner |-> Banner,
     dnp3 |-> Dnp3, fox |-> Fox, ftp |-> Ftp, http |-> Http, imap |-> Imap,
     ipp |-> Ipp, jarm |-> Jarm, modbus |-> Modbus, mongodb |-> Mongodb, mssql |-> Mssql,
     mysql |-> Mysql, ntp |-> Ntp, oracle |-> Oracle, pop3 |-> Pop3, postgres |-> Postgres,
     redis |-> Redis, siemens |-> Siemens, smb |-> Smb, smtp |-> Smtp,
     ssh |-> Ssh, telnet |-> Telnet,
     tls |-> TlsScanner]
=============================================================================
