--------------------------- MODULE DatabaseFormats --------------------------
(***************************************************************************)
(* The packets of the MSSQL, MongoDB, MySQL, PostgreSQL and IPP scanners.  *)
(***************************************************************************)
EXTENDS WireItems

(* TDSHeader.Encode in TDSPacket.Encode and tdsConnection.Write.           *)
TDSHeader == <<AtMost(MaxU16), U(1, "Type"), U(1, "Status"),
               LenOf(2, "Length", "all", 0), U(2, "SPID"),
               U(1, "SequenceNumber"), U(1, "Window")>>
decodeTDSHeader == <<U(1, "Type"), U(1, "Status"), U(2, "Length"),
                     U(2, "SPID"), U(1, "SequenceNumber"), U(1, "Window")>>
TDSPacket == TDSHeader \o <<Body("Body", {0, 3, 65527, 65528})>>
(* ReadPacket and Read take Length - 8 bytes, in 16 bits; decodeTDSPacket  *)
(* slices from 8 to Length.                                                *)
ReadTDSPacket ==
    Stream(TDSPacket, decodeTDSHeader
                      \o <<Take("Body", Plus({"Length"}, -8, 16))>>)
(* The packets of a peer follow one another: a Length below 8 wraps to one *)
(* near 2^16, and takes the bytes of the packets behind it.                *)
TDSStream ==
    PeerStream(<<U(1, "Type"), U(1, "Status"), LenOf(2, "Length", "Body", 8),
                 U(2, "SPID"), U(1, "SequenceNumber"), U(1, "Window"),
                 Body("Body", {3, 65527}), Body("Next", {0, 8})>>,
               decodeTDSHeader
               \o <<Take("Body", Plus({"Length"}, -8, 16)), Rest("Next")>>)
decodeTDSPacket ==
    Sliced(TDSPacket,
           <<Need(8)>> \o decodeTDSHeader
           \o <<Test(Diff({"#size"}, {"Length"}, 0, 0), 0, Huge),
                Slice("Body", N(8), V("Length")), Rest("")>>)

decodeOption ==
    <<Need(5), U(2, "offset"), U(2, "length"),
      Let("end", Plus({"offset", "length"}, 0, 16)),
      Test(Diff({"#size"}, {"end"}, 0, 0), 0, Huge),
      Slice("value", V("offset"), V("end")),
      Largest("max", V("end")), U(1, "token")>>
(* PreloginOptions.Encode with two options: the offset of each is that of  *)
(* its value in the body.  decodePreloginOptions adds offset and length in *)
(* 16 bits, and readPreloginPacket refuses what is left over.              *)
PreloginOptions == Sliced(
    <<Lit(1, "token", 0), Lit(2, "offset", 11), Lit(2, "length", 6),
      Lit(1, "token", 1), Lit(2, "offset", 17),
      LenOf(2, "length", "encryption", 0), Lit(1, "token", 255),
      Blob("value", 6), BodyAs("encryption", "value", Few)>>,
    <<Need(1), U(1, "token")>>
    \o While(V("token"), 0, 254, decodeOption)
    \o <<Test(Diff({"#size"}, {"max"}, 0, 0), 0, 0), Rest("")>>)
decodeServerVersion ==
    PeerSliced(<<U(1, "Major"), U(1, "Minor"), U(2, "BuildNumber"),
                 U(2, "SubBuild")>>,
               <<Test(V("#size"), 6, 6), U(1, "Major"), U(1, "Minor"),
                 U(2, "BuildNumber"), U(2, "SubBuild")>>)

-----------------------------------------------------------------------------
(* MongoDB.  ReadMsg, and the documents its callers look for.              *)

MongoHeader(op) == Little(<<LenOf(4, "msglen", "all", 0), Lit(4, "id", 0),
                            Lit(4, "responseTo", 0), Lit(4, "opcode", op)>>)
getOpQuery == MongoHeader(2004)
              \o Little(<<Lit(4, "flags", 0), Body("collname", {11}),
                          Lit(1, "nul", 0), Lit(4, "nskip", 0),
                          Lit(4, "nret", 1), Body("query", {17})>>)
getOpMsg == MongoHeader(2013) \o <<Lit(4, "flags", 0), Body("section", Few)>>
ReadMsg ==
    <<Need(4)>> \o Little(<<U(4, "msglen")>>)
    \o <<Test(V("msglen"), 4, 5125), Make(V("msglen")),
         Test(Diff({"#left"}, {"msglen"}, 4, 0), 0, Huge),
         Window(Plus({"msglen"}, -4, 0))>>
(* A reply: its flags, cursor, start and count, then the documents.        *)
MongoReply == MongoHeader(1)
              \o Little(<<Lit(4, "flags", 8), Blob("cursor", 16),
                          LenOf(4, "doclen", "document", 4),
                          Body("document", {1, 40})>>)
getIsMaster ==
    PeerSliced(MongoReply,
        ReadMsg
        \o <<Test(V("msglen"), 40, 5125), Take("ids", N(12))>>
        \o Little(<<Pack(4, <<Bits("failed", 1, 1), Bits("moreFlags", 2, 4)>>)>>)
        \o <<Is("failed", 0), Take("cursor", N(16))>>
        \o Little(<<U(4, "doclen")>>)
        \o <<Test(Diff({"#left"}, {"doclen"}, 4, 0), 0, Huge), Rest("document")>>)
(* What BSON makes of the rest of the message is not looked at.            *)
listDatabases == PeerSliced(MongoReply, ReadMsg \o <<Take("start", N(32)),
                                                     Rest("documents")>>)

-----------------------------------------------------------------------------
(* MySQL.  sendPacket; readPacket, whose body is sliced without checks.    *)

sendPacket(body) ==
    Little(<<LenOf(3, "packetSize", "after", -1), U(1, "seq")>>) \o body
SSLRequest == sendPacket(Little(<<U(4, "CapabilityFlags"), U(4, "MaxPacketSize"),
                                  U(1, "CharacterSet"), Blob("Reserved", 23)>>))
readLenInt(name) ==
    <<Need(1), U(1, "v"), Let(name, N(0))>>
    \o If(V("v"), 0, 250, <<Let(name, V("v"))>>)
    \o If(V("v"), 251, 251, <<Need(1)>>)
    \o If(V("v"), 252, 252, <<Need(2)>> \o Little(<<U(2, name)>>))
    \o If(V("v"), 253, 253,
          <<Need(3), Slice("four", V("#read"), Plus({"#read"}, 4, 0))>>
          \o Little(<<U(3, name)>>))
    \o If(V("v"), 254, 254, <<Need(8)>> \o Little(<<U(8, name)>>))
    \o If(V("v"), 255, 255, <<Refuse>>)
(* The byte after the string is dropped with it.                           *)
readLenString(name) ==
    readLenInt("length")
    \o <<Test(Diff({"#left"}, {"length"}, 0, 0), 0, Huge),
         Take(name, V("length")), Take("dropped", N(1))>>
readERRPacket == Little(<<U(2, "ErrorCode")>>) \o <<Rest("ErrorMessage")>>
readOKPacket == readLenInt("AffectedRows") \o readLenInt("LastInsertId")
                \o readLenString("Info")
                \o If(Left, 1, Huge, readLenString("SessionStateChanges"))
                \o <<Test(Left, 0, 0)>>
readHandshakePacket ==
    <<Until("ServerVersion")>>
    \o Little(<<U(4, "ConnectionID"), Blob("AuthPluginData1", 8),
                U(1, "Filler1"),
                Pack(2, <<Bits("secure", 15, 1), Bits("low", 0, 15)>>),
                U(1, "CharacterSet"), U(2, "StatusFlags"),
                Pack(2, <<Bits("plugin", 3, 1), Bits("tls", 4, 4)>>),
                U(1, "AuthPluginDataLen")>>)
    \o If(V("plugin"), 1, 1,
          <<Take("Reserved", N(10)),
            Let("part2Len", Plus({"AuthPluginDataLen"}, -8, 8))>>
          \o If(V("part2Len"), 0, 12, <<Let("part2Len", N(13))>>)
          (* rest[31 : 31+part2Len], added in a byte: the upper bound is   *)
          (* below the lower one when it wraps.                            *)
          \o <<Let("start", V("#read")),
               Let("bound", Plus({"part2Len"}, 31, 8)),
               Slice("AuthPluginData2", V("start"),
                     Plus({"start", "bound"}, -31, 0)),
               Take("", V("part2Len"))>>
          \o If(V("secure"), 1, 1, <<Rest("AuthPluginName")>>))
readPacket ==
    <<Need(4)>> \o Little(<<U(3, "packetSize"), U(1, "seq")>>)
    \o <<Test(V("packetSize"), 0, 524288), Make(V("packetSize")),
         Test(Diff({"#left"}, {"packetSize"}, 0, 0), 0, Huge),
         Window(V("packetSize")), U(1, "header")>>
    \o If(V("header"), 255, 255, readERRPacket \o <<Finish>>)
    \o If(V("header"), 10, 10, readHandshakePacket \o <<Finish>>)
    \o If(V("header"), 0, 0, readOKPacket \o <<Finish>>)
    \o If(V("header"), 254, 254, readOKPacket \o <<Finish>>)
    \o <<Refuse>>
MySQLHandshake ==
    PeerSliced(sendPacket(
        <<Lit(1, "header", 10), Body("ServerVersion", {6}), Lit(1, "nul", 0)>>
        \o Little(<<U(4, "ConnectionID"), Blob("AuthPluginData1", 8),
                    Lit(1, "Filler1", 0),
                    Pack(2, <<Fixed("secure", 15, 1, 1), Bits("low", 0, 15)>>),
                    U(1, "CharacterSet"), U(2, "StatusFlags"),
                    Pack(2, <<Fixed("plugin", 3, 1, 1), Bits("tls", 4, 4)>>),
                    Lit(1, "AuthPluginDataLen", 21), Blob("Reserved", 10),
                    Blob("AuthPluginData2", 13),
                    Body("AuthPluginName", {0, 5})>>)), readPacket)
MySQLError == PeerSliced(sendPacket(<<Lit(1, "header", 255)>>
                                    \o Little(<<U(2, "ErrorCode")>>)
                                    \o <<Body("ErrorMessage", {0, 5})>>),
                         readPacket)
MySQLOK == PeerSliced(sendPacket(<<Lit(1, "header", 0), U(1, "AffectedRows"),
                                   U(1, "LastInsertId"),
                                   LenOf(1, "length", "Info", 0),
                                   Body("Info", Few)>>), readPacket)

-----------------------------------------------------------------------------
(* PostgreSQL.  Send, and ReadPacket with tryReadPacket: a connection that *)
(* ends where the length or the body should begin is not an error, the     *)
(* bytes are then all zero.  A length above 2^24 is the start of a text.   *)

Send(body) == <<LenOf(4, "length", "all", 0)>> \o body
tryReadPacket(decode) ==
    <<Need(1), U(1, "Type"), Test(V("Type"), 48, 122)>>
    \o If(Left, 0, 0, <<Finish>>)
    \o <<Need(4), U(4, "length")>>
    \o If(V("length"), 16777216, Huge,
          <<Need(2), Take("text", Plus({"#left"}, -2, 0)), U(2, "end"),
            Is("end", 2560), Finish>>)
    \o <<Let("sizeToRead", V("length"))>>
    \o If(V("length"), 524289, 16777215, <<Let("sizeToRead", N(524288))>>)
    \o If(V("length"), 0, 3, <<Let("sizeToRead", N(4))>>)
    \o <<Make(Plus({"sizeToRead"}, -4, 0))>>
    \o If(Left, 0, 0, If(V("sizeToRead"), 5, Huge, <<Finish>>))
    \o <<Test(Diff({"#left"}, {"sizeToRead"}, 4, 0), 0, Huge),
         Window(Plus({"sizeToRead"}, -4, 0))>> \o decode
decodeAuthMode == PeerSliced(
    <<Lit(1, "Type", 82), LenOf(4, "length", "after", 4), U(4, "modeID"),
      Body("Payload", {0, 4})>>,
    tryReadPacket(<<U(4, "modeID"), Rest("Payload")>>))
PostgresText == PeerSliced(
    <<Lit(1, "Type", 69), Body("start", {4}), Body("text", Few),
      Lit(2, "end", 2560)>>, tryReadPacket(<<Rest("Payload")>>))
(* SendStartupMessage with encodeMap.                                      *)
StartupMessage == Send(<<U(2, "major"), U(2, "minor"), Body("dict", Few),
                         Lit(2, "end", 0)>>)

-----------------------------------------------------------------------------
(* IPP.  AttributeByteString in a request; readAllAttributes.              *)

AttributeByteString ==
    <<Lit(1, "tag", 71), LenOf(2, "nameLength", "name", 0),
      Body("name", {0, 18, 32767}), LenOf(2, "valueLength", "value", 0),
      Body("value", {0, 5, 32767})>>
getPrintersRequest == <<U(2, "Version"), U(2, "StatusCode"), U(4, "ReqID"),
                        Lit(1, "tag", 1)>>
                      \o AttributeByteString \o <<Lit(1, "tag", 3)>>
(* Mutant: a delimiter is looked at again and again.                       *)
skipDelimiterStuck == If(V("tag"), 0, 5, <<>>)
skipDelimiter == If(V("tag"), 0, 5, <<U(1, "tag")>>)
(* bufferFromBody reads no more than max-size of a body.  A name or value  *)
(* that runs past what was read is an error of the peer, unless the body   *)
(* was cut there: then what there is will do.                              *)
MaxBody == 32768                        \* bound: max-size 32
shouldReturnAttrs(length) ==
    If(Diff({"#left"}, {length}, 0, 0), -Huge, -1,
       If(V("#size"), MaxBody, Huge, <<Finish>>) \o <<Refuse>>)
readAllAttributes ==
    <<Window(N(MaxBody)), U(2, "Version"), U(2, "StatusCode"), U(4, "ReqID"), U(1, "tag")>>
    \o While(N(1), 1, 1,
        If(V("tag"), 3, 3, <<Finish>>)
        \o skipDelimiter
        \o If(V("tag"), 6, 255,
            <<U(2, "nameLength")>> \o shouldReturnAttrs("nameLength")
            \o <<Take("name", V("nameLength")),
                 Pack(2, <<Bits("sign", 15, 1), Bits("length", 0, 15)>>)>>
            \o If(V("sign"), 0, 0,
                shouldReturnAttrs("length") \o <<Take("value", V("length"))>>)
            \o <<U(1, "tag")>>))
IPPAttributes == Stream(getPrintersRequest, readAllAttributes)

DatabaseMessages ==
    [mssqlPacket |-> ReadTDSPacket, mssqlStream |-> TDSStream,
     mssqlSliced |-> decodeTDSPacket, mssqlPrelogin |-> PreloginOptions,
     mssqlVersion |-> decodeServerVersion,
     mongoQuery |-> Sent(getOpQuery), mongoMsg |-> Sent(getOpMsg),
     mongoIsMaster |-> getIsMaster, mongoDatabases |-> listDatabases,
     mysqlSSLRequest |-> Sent(SSLRequest), mysqlHandshake |-> MySQLHandshake,
     mysqlError |-> MySQLError, mysqlOK |-> MySQLOK,
     postgresStartup |-> Sent(StartupMessage),
     postgresAuth |-> decodeAuthMode, postgresText |-> PostgresText,
     ippAttributes |-> IPPAttributes]
=============================================================================
