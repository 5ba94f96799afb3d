------------------------------- MODULE Codecs -------------------------------
(***************************************************************************)
(* What is promised of the message formats of Wire, with the formats that  *)
(* do not keep a promise named, each with the lines that break it.         *)
(***************************************************************************)
EXTENDS Wire

Values(fields, name) == SelectSeq(fields, LAMBDA f : f.name = name)
Names(fields) == {fields[i].name : i \in DOMAIN fields}
sent == FlattenSeq([i \in DOMAIN frame |-> frame[i].fields])
total == IF frame = <<>> THEN 0 ELSE Last(frame).start + Last(frame).n

(* The decoder never reads past what arrived, nor runs off its items.      *)
TypeOK ==
    /\ format \in DOMAIN Formats
    /\ damage \in {"none", "cut", "changed"}
    /\ outcome \in {"new", "sent", "unsent", "decoding", "done", "refused",
                    "panic"}
    /\ size \in 0..total /\ at \in 0..size
    /\ asked \in Nat /\ round \in Nat /\ wrapped \in BOOLEAN
    /\ outcome = "decoding" => pc \in DOMAIN form.dec

-----------------------------------------------------------------------------
(* readLenString drops a byte too many (mysql.go:840); NTPHeader.Encode    *)
(* has version and mode in each other's place (ntp/scanner.go:658); the    *)
(* high bits of the private header's numbers are shifted by 4 (762, 764);  *)
(* TNSRefuse has the type of a redirect, which ReadTNSPacket does not know *)
(* (oracle/types.go:840, 1512).                                            *)
Misread == {"mysqlOK", "ntpHeader", "ntpPrivate", "ntpLargeItems",
            "oracleRefuse", "oracleRedirect"}
(* "If body was truncated, return all attributes so far without error"     *)
(* (ipp/scanner.go:323, 356): the scanner itself reads no more of a body.  *)
Truncated == format = "ippAttributes" /\ size = MaxBody
(* What one side sends and nothing damages the other side decodes, every   *)
(* field with the value it was sent with, whatever the sizes of the parts; *)
(* of a body the scanner truncates, those in front of the cut.             *)
RoundTrip ==
    format \notin Misread /\ damage = "none"
    /\ outcome \in {"done", "refused", "panic"}
        => /\ outcome = "done"
           /\ \A name \in Names(read) \cap Names(sent) :
                 \/ Values(read, name) = Values(sent, name)
                 \/ Truncated /\ IsPrefix(Values(read, name), Values(sent, name))

(* A decoder that accepts an undamaged message leaves none of its bytes    *)
(* for the next one: the stream stays in step.                             *)
InSync == damage = "none" /\ outcome = "done" /\ ~Truncated => at = total

(* SendAndReceive of NTP returns a nil error (ntp/scanner.go:894-931), a   *)
(* Modbus body ends where it ends (modbus.go:375), a PostgreSQL connection *)
(* that ends early gives zeroes (connection.go:118, 152); the SSH messages *)
(* end with all that is left, and their packet has a length of its own; of *)
(* a stream of TDS packets the cut may be in a later one.                  *)
AnyLength ==
    {"ntpMonList", "ntpLargeItems", "modbusRequest", "modbusException",
     "modbusMEI", "postgresAuth", "postgresText", "sshUserAuthRequest",
     "sshUserAuthInfoRequest", "sshChannelOpen", "sshChannelData",
     "sshChannelOpenConfirm", "sshChannelRequest", "sshGlobalRequest",
     "sshRequestSuccess", "mssqlStream"}
(* A message cut short is not taken for a whole one, unless it was cut by  *)
(* the limit of the scanner itself.                                        *)
CutIsRefused ==
    format \notin AnyLength /\ damage = "cut" /\ ~Truncated => outcome # "done"

(* Slices bounded by what the peer says: mongodb/scanner.go:310 and 361,   *)
(* mssql/connection.go:445-450 and 562, mysql.go:353, 603, 712 and 840,    *)
(* oracle/types.go:1242, postgres/scanner.go:157, siemens/s7.go (up to the *)
(* capacity of the buffer).                                                *)
Unchecked ==
    {"mongoDatabases", "mssqlPrelogin", "mssqlSliced", "mysqlError",
     "mysqlHandshake", "mysqlOK", "oracleVersion", "postgresAuth",
     "siemensRequest", "siemensModules"}
(* No input, however cut or changed, makes the decoder slice out of range. *)
NoPanic == format \notin Unchecked => outcome # "panic"

(* A length field that is sent says how long its part is: what does not    *)
(* fit in the field is refused before it is sent.                          *)
LengthsAreHonest ==
    outcome # "unsent" => \A i \in DOMAIN frame : frame[i].honest

(* header.Length - 10 in 32 bits (oracle/types.go:893-905, 1060-1075).     *)
Underflowing == {"oracleData", "oracleRedirected"}
MaxBuffer == 524288                     \* the largest limit of a scanner
(* A length that the peer claims does not make the reader allocate more    *)
(* than its own limit before a byte of it has arrived: half a megabyte in  *)
(* the scanners, and all that 24 bits can say for an HTTP/2 frame          *)
(* (h2_bundle.go:1009-1012).                                               *)
BufferBounded ==
    format \notin Underflowing
      => asked <= IF format \in DOMAIN HttpMessages THEN MaxFrame ELSE MaxBuffer

(* header.Length - 8 in 16 bits (mssql/connection.go:795, 833).            *)
Wrapping == {"mssqlStream"}
(* A message whose lengths wrapped around in the decoder's arithmetic is   *)
(* not accepted with values cut from the wrong place.                      *)
NoWrap == wrapped /\ format \notin Wrapping => outcome # "done"

(* Every decoder ends on every input.                                      *)
DecodeEnds == <>Over

(* Encoder and decoder of a format agree: what was sent is what is read,   *)
(* the stream stays in step, a length says how long its part is, and a     *)
(* message that was cut is not taken for a whole one.                      *)
Faithful ==
    TypeOK /\ RoundTrip /\ InSync /\ CutIsRefused /\ LengthsAreHonest

(* No input breaks a decoder: none makes it slice out of range, allocate   *)
(* without bound or accept a length that wrapped around.                   *)
NeverBreaks == NoPanic /\ BufferBounded /\ NoWrap
=============================================================================
