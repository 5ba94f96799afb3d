-------------------------- MODULE GeneratedScanners -------------------------
(***************************************************************************)
(* The scanner modules that FASST-LLM generated (modules/<name>/scanner.go *)
(* for 22 protocols): default port, options that change what Scan does,    *)
(* options Validate refuses together, and the Scan method with the helpers *)
(* it calls.  Options that only change the log are left out.               *)
(***************************************************************************)
EXTENDS ScanSteps

(* Any answer of at least eight bytes that starts with AMQP will do, a     *)
(* server's refusal of the version too.                                    *)
Amqp == Module(5672, {"implicit-tls"}, {},
    <<Open(Fail("nil")), DeferClose>>
    \o If("implicit-tls", <<Tls(Wrapped("some"))>>)
    \o <<Write(Fail("some")),
         Read(Fail("some"), Go, Go, Wrapped("some"), Wrapped("some")),
         Return(Success)>>)

(* Four bytes are read with one Read: a short answer is padded with zeros, *)
(* and version 0 is the server's refusal.                                  *)
Bolt == Module(7687, {}, {},
    <<Open(Wrapped("nil")), DeferClose,
      Write(Fail("nil")), Write(Fail("nil")),
      LET noVersion == Verdict("application-error", "some")
      IN  Read(Fail("nil"), Success, noVersion, Success,
               Success \cup noVersion)>>)

(* ReadAvailable reads on after the first bytes: what ends that reading    *)
(* other than a timeout is an error, whatever was received.                *)
Cassandra == Module(9042, {}, {},
    <<Open(Fail("nil")), DeferClose, Write(Fail("nil")),
      Hear(Fail("nil"), Success \cup Ended("nil") \cup Wrapped("nil"))>>)

(* DNS over QUIC: session and stream, then a length prefix and a message   *)
(* each way.  Every error is wrapped.                                      *)
Doq == Module(853, {}, {},
    <<Open(Wrapped("nil")), DeferClose, Tls(Wrapped("nil")),
      Write(Wrapped("nil")), Write(Wrapped("nil")),
      Read(Wrapped("nil"), Success, Success, Wrapped("nil"), Wrapped("nil"))>>)

Ipmi == Module(623, {}, {},
    <<Open(Fail("nil")), DeferClose, Write(Fail("some")),
      Hear(Fail("some"), Success)>>)

(* After the banner a server that says nothing more is still a success.    *)
Irc == Module(6667, {"authtls", "implicit-tls"}, {{"authtls", "implicit-tls"}},
    <<Open(Fail("nil")), DeferClose>>
    \o If("implicit-tls", <<Tls(Fail("nil"))>>)
    \o <<Hear(Fail("some"), Go)>>
    \o If("authtls", <<Tls(Wrapped("some"))>>)
    \o <<Write(Fail("some")), Write(Fail("some")),
         LET invalid == Verdict("protocol-error", "some")
         IN  Read(Success, Success, Success, invalid, invalid)>>)

(* The bind response must hold an integer result code from 0 to 80; its    *)
(* second child is taken to have a child without looking.                  *)
Ldap == Module(389, {"tls"}, {},
    <<Open(Fail("nil")), DeferClose>>
    \o If("tls", <<Tls(Fail("nil"))>>)
    \o <<Write(Fail("some")),
         Read(Fail("some"), Success, Success,
              Verdict("unknown-error", "some")
                 \cup Verdict("protocol-error", "some") \cup Panic,
              Wrapped("some") \cup Verdict("unknown-error", "some")
                 \cup Panic)>>)

Lpd == Module(515, {}, {},
    <<Open(Fail("nil")), DeferClose, Write(Wrapped("some")),
      Hear(Wrapped("some"), Success)>>)

Memcached == Module(11211, {}, {},
    <<Open(Fail("nil")), DeferClose, Write(Go),
      Read(Fail("some"), Success, Wrapped("some"), Wrapped("some"),
           Wrapped("some"))>>)

(* MQTT 3 reads four bytes with one Read (a short CONNACK is padded with   *)
(* zeros), MQTT 5 a header and a body of the length it announces; CONNACK  *)
(* and DISCONNECT are both a success.                                      *)
ReadMQTTv3Packet ==
    <<Read(Fail("some"), Success, Success, Wrapped("some"),
           Wrapped("some") \cup Success)>>
ReadMQTTv5Packet ==
    <<Read(Fail("some"), Success, Success, Wrapped("some"),
           Wrapped("some") \cup Ended("some"))>>
Mqtt == Module(1883, {"v5", "tls"}, {},
    <<Open(Fail("nil")), DeferClose>>
    \o If("tls", <<Tls(Fail("some"))>>)
    \o <<Write(Fail("nil"))>>
    \o If("v5", ReadMQTTv5Packet) \o IfNot("v5", ReadMQTTv3Packet))

Pptp == Module(1723, {}, {},
    <<Open(Fail("nil")), DeferClose, Write(Fail("some")),
      Hear(Fail("some"), Success)>>)

(* Access-Accept, Access-Reject and Access-Challenge are all an answer.    *)
Radius == Module(1812, {}, {},
    <<Open(Fail("nil")), DeferClose, Write(Fail("nil")),
      Read(Fail("nil"), Success, Success, Verdict("protocol-error", "nil"),
           Wrapped("nil"))>>)

(* Bytes up to a zero byte, which must be JSON; an answer without the word *)
(* "success" is an application error with no error beside it.              *)
Rethinkdb == Module(28015, {}, {},
    <<Open(Fail("nil")), DeferClose, Write(Fail("nil")),
      Read(Fail("nil"), Success, Give("application-error", "some", "nil"),
           Verdict("protocol-error", "some"),
           Ended("nil") \cup Verdict("protocol-error", "some"))>>)

(* ReadUntilRegex: what does not match is read on until an error.          *)
Rfb == Module(5900, {}, {},
    <<Open(Fail("nil")), DeferClose,
      Read(Fail("some"), Success, Success, Wrapped("some") \cup Ended("some"),
           Ended("some"))>>)

Rtsp == Module(554, {}, {},
    <<Open(Fail("nil")), DeferClose, Write(Fail("nil")),
      LET unexpected == Verdict("application-error", "some")
      IN  Read(Fail("nil"), Success, Success, unexpected, unexpected)>>)

(* Close is deferred after the handshake: a failed one keeps the           *)
(* connection.  Over UDP the TLS option does nothing.                      *)
Sip == Module(5060, {"tcp", "tls"}, {},
    <<Open(Fail("some"))>>
    \o If("tcp", If("tls", <<Tls(Fail("nil"))>>))
    \o <<DeferClose, Write(Fail("some")), Hear(Fail("some"), Success)>>)

(* Both answers are read with one Read into a zeroed buffer and only their *)
(* second byte is looked at.  "No acceptable method" is a success that     *)
(* comes with an error.                                                    *)
Socks5 == Module(1080, {}, {},
    <<Open(Fail("nil")), DeferClose, Write(Wrapped("some")),
      LET noMethod == Give("success", "some", "other")
      IN  Read(Wrapped("some"), Go, noMethod, Go \cup noMethod, Go),
      Write(Wrapped("some")),
      Read(Wrapped("some"), Success, Wrapped("some"),
           Success \cup Wrapped("some"), Success)>>)

Tacacs == Module(49, {}, {},
    <<Open(Fail("nil")), DeferClose, Write(Fail("some")),
      Hear(Fail("some"), Success)>>)

(* Length, announced length and packet id are checked.                     *)
Terraria == Module(7777, {}, {},
    <<Open(Fail("nil")), DeferClose, Write(Fail("nil")),
      Read(Fail("some"), Success, Success, Wrapped("some"),
           Wrapped("some"))>>)

(* A DATA and an ERROR packet are both a success; after the opcode two     *)
(* more bytes are taken without looking.                                   *)
Tftp == Module(69, {}, {},
    <<Open(Fail("nil")), DeferClose, Write(Fail("nil")),
      Read(Fail("nil"), Success, Success, Wrapped("nil"),
           Wrapped("nil") \cup Panic)>>)

(* Version and status of the answer only go into the result.               *)
X11 == Module(6000, {}, {},
    <<Open(Fail("nil")), DeferClose, Write(Fail("some")),
      Hear(Fail("some"), Success)>>)

(* An answer without <stream:stream is an error status with no error.      *)
Xmpp == Module(5222, {"tls"}, {},
    <<Open(Fail("nil")), DeferClose>>
    \o If("tls", <<Tls(Fail("nil"))>>)
    \o <<Write(Wrapped("some")),
         LET noStream == Give("unknown-error", "some", "nil")
         IN  Read(Wrapped("some"), Success, Success, noStream, noStream)>>)

GeneratedPrograms ==
    [amqp |-> Amqp, bolt |-> Bolt, cassandra |-> Cassandra, doq |-> Doq,
     ipmi |-> Ipmi, irc |-> Irc, ldap |-> Ldap, lpd |-> Lpd,
     memcached |-> Memcached, mqtt |-> Mqtt, pptp |-> Pptp,
     radius |-> Radius, rethinkdb |-> Rethinkdb, rfb |-> Rfb, rtsp |-> Rtsp,
     sip |-> Sip, socks5 |-> Socks5, tacacs |-> Tacacs,
     terraria |-> Terraria, tftp |-> Tftp, x11 |-> X11, xmpp |-> Xmpp]
=============================================================================
