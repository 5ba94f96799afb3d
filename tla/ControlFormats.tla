--------------------------- MODULE ControlFormats ---------------------------
(***************************************************************************)
(* The packets of the NTP, BACnet, Siemens S7 and Modbus scanners.         *)
(***************************************************************************)
EXTENDS WireItems

(* NTPHeader.Encode puts the mode above the version, decodeNTPHeader reads *)
(* the version above the mode.                                             *)
NTPTimes ==
    Us(1, <<"Stratum", "Poll", "Precision">>)
    \o <<U(4, "RootDelay"), U(4, "RootDispersion"), Blob("ReferenceID", 4)>>
    \o Blobs(8, <<"ReferenceTimestamp", "OriginTimestamp", "ReceiveTimestamp",
                  "TransmitTimestamp">>)
EncodeNTPHeader ==
    <<Pack(1, <<Bits("LeapIndicator", 6, 2), Bits("Mode", 3, 3),
                Bits("Version", 0, 3)>>)>> \o NTPTimes
decodeNTPHeader ==
    <<Need(48),
      Pack(1, <<Bits("LeapIndicator", 6, 2), Bits("Version", 3, 3),
                Bits("Mode", 0, 3)>>)>> \o NTPTimes
NTPHeader == Stream(EncodeNTPHeader, decodeNTPHeader)
(* A server's header, and GetTime with ValidateSyntax.                     *)
NTPReply ==
    PeerStream(<<Pack(1, <<Fixed("LeapIndicator", 6, 2, 0),
                           Fixed("Version", 3, 3, 3),
                           Fixed("Mode", 0, 3, 4)>>)>>
               \o [NTPTimes EXCEPT ![1].k = 2],
               decodeNTPHeader
               \o <<Test(V("Version"), 1, 4), Test(V("Mode"), 1, 7),
                    Test(V("Stratum"), 0, 16)>>)

(* PrivatePacketHeader.Encode and decodePrivatePacketHeader, which shifts  *)
(* the high four bits of both numbers by 4.                                *)
PrivateStart ==
    <<Pack(1, <<Bits("IsResponse", 7, 1), Bits("HasMore", 6, 1),
                Bits("Version", 3, 3), Bits("Mode", 0, 3)>>),
      Pack(1, <<Bits("IsAuthenticated", 7, 1), Bits("SequenceNumber", 0, 7)>>),
      U(1, "ImplementationNumber"), U(1, "RequestCode")>>
EncodePrivate ==
    PrivateStart
    \o <<Pack(2, <<Bits("Error", 12, 4), Bits("NumItems", 0, 12)>>),
         Pack(2, <<Bits("MBZ", 12, 4), Bits("ItemSize", 0, 12)>>)>>
decodePrivate ==
    PrivateStart
    \o <<Pack(2, <<Bits("Error", 12, 4), Part("NumItems", 4, 8, 4),
                   Bits("NumItems", 0, 8)>>),
         Pack(2, <<Bits("MBZ", 12, 4), Part("ItemSize", 4, 8, 4),
                   Bits("ItemSize", 0, 8)>>)>>
PrivateHeader == Sliced(EncodePrivate, <<Need(8)>> \o decodePrivate)

(* An answer as a server sends it, of 72 byte or of larger items, to       *)
(* SendAndReceive, which returns no error in most of its early returns.    *)
MonListReply(items, size1) ==
    PeerStream(
        <<Pack(1, <<Fixed("IsResponse", 7, 1, 1), Fixed("HasMore", 6, 1, 0),
                    Fixed("Version", 3, 3, 3), Fixed("Mode", 0, 3, 7)>>),
          U(1, "SequenceNumber"), Lit(1, "ImplementationNumber", 3),
          U(1, "RequestCode"),
          Pack(2, <<Fixed("Error", 12, 4, 0), Fixed("NumItems", 0, 12, items)>>),
          Pack(2, <<Fixed("MBZ", 12, 4, 0), Fixed("ItemSize", 0, 12, size1)>>),
          Blob("ret", items * size1)>>,
        <<Quit(Left, 8, Huge)>> \o decodePrivate
        \o <<Quit(V("Mode"), 7, 7), Quit(V("IsResponse"), 1, 1),
             Quit(V("MBZ"), 0, 0), Quit(V("ImplementationNumber"), 3, 3),
             Is("Error", 0),
             Let("length", Times({"NumItems", "ItemSize"}, {}, 16)),
             Test(Diff({"length"}, {"#left"}, 0, 0), 0, 0), Rest("ret")>>)

-----------------------------------------------------------------------------
(* BACnet.  SendVLC; ReadVLC.                                              *)

SendVLC(payload) ==
    <<AtMost(1476), Lit(1, "Type", 129), U(1, "Function"),
      LenOf(2, "Length", "all", 0)>> \o payload
ReadVLC ==
    <<Need(4), U(1, "Type"), Is("Type", 129), U(1, "Function"),
      U(2, "Length"), Need(2), U(1, "Version"), U(1, "Control"),
      U(1, "TypeAndFlags"), U(1, "InvokeID"), U(1, "ServerChoice")>>
(* NewReadPropertyRequest: its segment sizes are set.                      *)
ReadPropertyRequest ==
    SendVLC(Us(1, <<"Version", "Control", "TypeAndFlags", "SegmentSizes",
                    "InvokeID", "ServerChoice">>))
ReadProperty ==
    <<Lit(1, "objectTag", 12), U(4, "Object"), Lit(1, "propertyTag", 25),
      U(1, "Property")>>
readProperty ==
    <<U(1, "objectTag"), Is("objectTag", 12), U(4, "Object"),
      U(1, "propertyTag"), Is("propertyTag", 25), U(1, "Property")>>
BACnetProperty == Stream(ReadProperty, readProperty)

(* Answers.  A tag that is not the expected one ends the decoding without  *)
(* an error.                                                               *)
Answer(value, dec) ==
    PeerStream(SendVLC(Us(1, <<"Version", "Control", "TypeAndFlags",
                               "InvokeID", "ServerChoice">>)
                       \o ReadProperty \o <<Lit(1, "open", 62)>> \o value
                       \o <<Lit(1, "close", 63)>>),
               ReadVLC \o readProperty
               \o <<U(1, "open"), Quit(V("open"), 62, 62)>> \o dec
               \o <<U(1, "close"), Quit(V("close"), 63, 63)>>)
readInstanceNumber ==
    Answer(<<Lit(1, "app", 196), U(4, "instance")>>,
           <<U(1, "app"), Quit(V("app"), 196, 196), U(4, "instance")>>)
readVendorID(w) ==
    Answer(<<Lit(1, "app", 32 + w), U(w, "vendor")>>,
           <<U(1, "app"), Quit(V("app"), 33, 34)>>
           \o If(V("app"), 34, 34, <<U(2, "vendor")>>)
           \o If(V("app"), 33, 33, <<U(1, "vendor")>>))
readStringProperty(bits, length) ==
    Answer(<<Pack(1, <<Fixed("tag", 3, 5, 14), Fixed("bits", 0, 3, bits)>>)>>
           \o length \o <<U(1, "charset"), Body("value", {0, 3})>>,
           <<Pack(1, <<Bits("tag", 3, 5), Bits("bits", 0, 3)>>),
             Quit(V("tag"), 14, 14)>>
           \o If(V("bits"), 5, 5, <<U(1, "length")>>)
           \o If(V("bits"), 0, 4, <<Let("length", V("bits"))>>)
           \o If(V("bits"), 6, 7, <<Let("length", V("bits"))>>)
           \o <<Test(V("length"), 1, 255), U(1, "charset"),
                Take("value", Plus({"length"}, -1, 0))>>)

-----------------------------------------------------------------------------
(* Siemens S7 over COTP over TPKT.                                         *)

TPKT(data) ==
    <<Lit(1, "version", 3), Lit(1, "reserved", 0),
      LenOf(2, "totalLength", "all", 0)>> \o data
readTPKT == <<Need(4), U(1, "version"), U(1, "reserved"), U(2, "totalLength")>>
makeCOTPConnectionPacket ==
    TPKT(<<Lit(1, "size", 17), Lit(1, "pduType", 224), U(2, "DestinationRef"),
           U(2, "SourceRef"), Blob("class", 1), Blob("c1", 2),
           U(2, "SourceTSAP"), Blob("c2", 2), U(2, "DestinationTSAP"),
           Blob("c0", 2), U(1, "TPDUSize")>>)
COTPConnectionResponse ==
    PeerSliced(TPKT(<<LenOf(1, "size", "after", 0), Lit(1, "pduType", 208),
                      Body("rest", {0, 16})>>),
               readTPKT \o <<Need(2), U(1, "size"),
                             Test(Diff({"size"}, {"#left"}, 0, 0), 0, 0),
                             U(1, "pduType"), Is("pduType", 208),
                             Rest("rest")>>)

S7(type, body) ==
    TPKT(<<Lit(1, "headerSize", 2), Lit(1, "f0", 240), Lit(1, "80", 128),
           Lit(1, "protocolId", 50), Lit(1, "pduType", type),
           Lit(2, "reserved2", 0), U(2, "RequestId")>> \o body)
(* COTPDataPacket.Unmarshal: a header size of 255 wraps to 0, which leaves *)
(* 255 for the protocol, refused.  S7Packet.Unmarshal slices what is short *)
(* of its header up to the capacity of the buffer.                         *)
readS7 ==
    readTPKT
    \o <<Need(1), U(1, "headerSize"), Test(V("headerSize"), 0, 254),
         Test(Diff({"#left"}, {"headerSize"}, 0, 0), 0, Huge),
         Take("header", V("headerSize")), Need(1), U(1, "protocolId"),
         Is("protocolId", 50), U(1, "pduType"), Test(V("pduType"), 1, 7)>>
    \o If(V("pduType"), 4, 6, <<Refuse>>)
    \o <<U(2, "reserved2"), U(2, "RequestId"), U(2, "paramLength"),
         U(2, "dataLength")>>
    \o If(V("pduType"), 2, 3, <<U(2, "Error")>>)
    \o <<Test(Diff({"#left"}, {"paramLength", "dataLength"}, 0, 0), 0, Huge),
         Take("Parameters", V("paramLength"))>>
ByCapacity(enc, dec, own) == Format(own, enc, {"panic", "refused"}, dec)
makeRequestPacket ==
    ByCapacity(
        S7(7,
            <<LenOf(2, "paramLength", "Parameters", 0),
              LenOf(2, "dataLength", "Data", 0), Body("Parameters", {8}),
              Body("Data", {0, 8})>>),
        readS7 \o <<Take("Data", V("dataLength"))>>, TRUE)
(* parseModuleIdentificationRequest on the data of an answer.              *)
ModuleIdentification ==
    ByCapacity(
        S7(7,
            <<Lit(2, "paramLength", 12), LenOf(2, "dataLength", "records", 68),
              Blob("Parameters", 12), Blob("start", 8), Lit(2, "recordLen", 28),
              Lit(2, "numRecords", 2), Blob("record1", 28),
              Blob("record2", 28), Body("records", {0})>>),
        readS7
        \o <<Window(V("dataLength")), Need(12), Take("start", N(8)),
             U(2, "recordLen"), U(2, "numRecords"), Is("recordLen", 28),
             Let("total", Times({"recordLen", "numRecords"}, {}, 0)),
             Test(Diff({"#left"}, {"total"}, 0, 0), 0, Huge)>>
        \o Each(V("numRecords"), <<U(2, "Index"), Take("MIFB", N(20)),
                                   U(2, "BGTyp"), U(2, "Ausbg1"),
                                   U(2, "Ausbg2")>>), FALSE)

-----------------------------------------------------------------------------
(* Modbus.  The request ID is 0x5A47 ("ZG").                               *)

MarshalRequest(data) ==
    <<Lit(2, "requestID", 23111), Lit(2, "protocolID", 0),
      LenOf(2, "msglen", "after", 0), U(1, "UnitID"), U(1, "Function")>> \o data
(* A body that ends early is returned as it is.                            *)
GetModbusResponse ==
    <<Need(7), U(2, "requestID"), Is("requestID", 23111), U(2, "protocolID"),
      Is("protocolID", 0), U(2, "msglen"), U(1, "UnitID"),
      Test(V("msglen"), 1, MaxU16), Make(Plus({"msglen"}, -1, 0)),
      Window(Plus({"msglen"}, -1, 0)),
      Quit(Left, 1, Huge), U(1, "Function")>>
ModbusRequest == Stream(MarshalRequest(<<Body("Data", {0, 3})>>),
                        GetModbusResponse \o <<Rest("Data")>>)
getExceptionResponse ==
    PeerStream(MarshalRequest(<<U(1, "ExceptionType")>>),
               GetModbusResponse \o <<Need(1), U(1, "ExceptionType")>>)
MEIObject == <<U(1, "OID"), LenOf(1, "objLen", "Value", 0), Body("Value", Few)>>
parseMEIObject ==
    <<Quit(Left, 2, Huge), U(1, "OID"), U(1, "objLen"),
      Quit(Diff({"#left"}, {"objLen"}, 0, 0), 0, Huge),
      Take("Value", V("objLen"))>>
getMEIResponse ==
    PeerStream(
        [MarshalRequest(<<Lit(1, "meiType", 14), Lit(1, "readType", 1),
                          U(1, "conformityLevel"), Lit(1, "moreFollows", 0),
                          Lit(1, "nextObject", 0),
                          LenOf(1, "objectCount", "objects", 0),
                          Many("objects", {0, 2}, MEIObject)>>)
         EXCEPT ![5].k = 43],
        GetModbusResponse
        \o <<Is("Function", 43), Need(6), U(1, "meiType"), Is("meiType", 14),
             U(1, "readType"), Is("readType", 1), U(1, "conformityLevel"),
             U(1, "moreFollows"), U(1, "nextObject"), U(1, "objectCount")>>
        \o Each(V("objectCount"), parseMEIObject))

ControlMessages ==
    [ntpHeader |-> NTPHeader, ntpReply |-> NTPReply,
     ntpPrivate |-> PrivateHeader, ntpMonList |-> MonListReply(6, 72),
     ntpLargeItems |-> MonListReply(1, 300),
     bacnetRequest |-> Sent(ReadPropertyRequest \o ReadProperty),
     bacnetProperty |-> BACnetProperty,
     bacnetInstance |-> readInstanceNumber, bacnetVendor1 |-> readVendorID(1),
     bacnetVendor2 |-> readVendorID(2),
     bacnetString |-> readStringProperty(5, <<LenOf(1, "length", "value", 1)>>),
     siemensConnect |-> Sent(makeCOTPConnectionPacket),
     siemensConnected |-> COTPConnectionResponse,
     siemensRequest |-> makeRequestPacket,
     siemensModules |-> ModuleIdentification,
     modbusRequest |-> ModbusRequest, modbusException |-> getExceptionResponse,
     modbusMEI |-> getMEIResponse]
=============================================================================
