---------------------------- MODULE OracleFormats ---------------------------
(***************************************************************************)
(* The TNS packets of the Oracle scanner (modules/oracle/types.go).        *)
(***************************************************************************)
EXTENDS WireItems

(* EncodePacket and TNSHeader.Encode, with the 16-bit length of the older  *)
(* format; ReadTNSHeader.                                                  *)
TNSHeader(type) ==
    <<LenOf(2, "Length", "all", 0), U(2, "PacketChecksum"),
      Lit(1, "Type", type), U(1, "Flags"), U(2, "HeaderChecksum")>>
EncodePacket(type, body) == <<AtMost(MaxU16)>> \o TNSHeader(type) \o body
ReadTNSHeader ==
    <<U(2, "Length"), U(2, "PacketChecksum"), U(1, "Type"),
      U(1, "Flags"), U(2, "HeaderChecksum")>>
(* ReadTNSPacket knows the types Connect, Accept, Refuse, Resend and Data. *)
ReadTNSPacket(type, body) == ReadTNSHeader \o <<Is("Type", type)>> \o body

(* The newer format: a 32-bit length in the place of the checksum.         *)
TNSMode12c ==
    Stream(<<LenOf(4, "Length", "all", 0), Lit(1, "Type", 11), U(1, "Flags"),
             U(2, "HeaderChecksum")>>,
           <<U(4, "Length"), U(1, "Type"), U(1, "Flags"),
             U(2, "HeaderChecksum"), Is("Type", 11)>>)

(* The fields up to the offset and length of the descriptor, and after.    *)
ConnectStart ==
    Us(2, <<"Version", "MinVersion", "GlobalServiceOptions", "SDU", "TDU",
              "ProtocolCharacteristics", "MaxBeforeAck">>)
    \o <<Blob("ByteOrder", 2)>>
ConnectEnd ==
    <<U(4, "MaxResponseSize"), U(1, "ConnectFlags0"),
      U(1, "ConnectFlags1"), U(4, "CrossFacility0"),
      U(4, "CrossFacility1"), Blob("ConnectionID0", 8),
      Blob("ConnectionID1", 8)>>
TNSConnect == Stream(
    <<AtMost(32767)>>
    \o EncodePacket(1, ConnectStart
        \o <<LenOf(2, "DataLength", "ConnectDescriptor", 0),
             LenOf(2, "DataOffset", "Unknown3A", 58)>>
        \o ConnectEnd
        \o <<Body("Unknown3A", {0}),
             Body("ConnectDescriptor", {0, 3, 200, 32709, 32710})>>),
    ReadTNSPacket(1, ConnectStart
        \o <<U(2, "DataLength"), U(2, "DataOffset")>> \o ConnectEnd
        \o <<Take("Unknown3A", Plus({"DataOffset"}, -58, 16)),
             Take("ConnectDescriptor", V("DataLength"))>>))

TNSResend == Stream(EncodePacket(11, <<>>), ReadTNSPacket(11, <<>>))

TNSAccept ==
    LET start == Us(2, <<"Version", "GlobalServiceOptions", "SDU", "TDU">>)
                 \o <<Blob("ByteOrder", 2)>>
        flags == Us(1, <<"ConnectFlags0", "ConnectFlags1">>)
    IN  Stream(
        EncodePacket(2, start
            \o <<LenOf(2, "DataLength", "AcceptData", 0),
                 LenOf(2, "DataOffset", "Unknown18", 24)>> \o flags
            \o <<Body("Unknown18", {0, 8}), Body("AcceptData", Few)>>),
        ReadTNSPacket(2, start
            \o <<U(2, "DataLength"), U(2, "DataOffset")>> \o flags
            \o <<Take("Unknown18", Plus({"DataOffset"}, -24, 16)),
                 Take("AcceptData", V("DataLength"))>>))

(* TNSRefuse.GetType is the type of a redirect.                            *)
TNSRefuse == Stream(
    EncodePacket(5, <<U(1, "AppReason"), U(1, "SysReason"),
                      LenOf(2, "DataLength", "Data", 0), Body("Data", Few)>>),
    ReadTNSPacket(4, <<U(1, "AppReason"), U(1, "SysReason"),
                       U(2, "DataLength"), Take("Data", V("DataLength")),
                       Test(Diff({"Length"}, {"DataLength"}, -12, 32), 0, 0)>>))

(* A refusal as a server sends it.                                         *)
ReadTNSRefuse ==
    [TNSRefuse EXCEPT !.own = FALSE,
                      !.enc = [i \in DOMAIN @ |-> IF @[i].name = "Type"
                               THEN Lit(1, "Type", 4) ELSE @[i]]]

ReadTNSRedirect ==
    <<U(2, "DataLength"), Take("Data", Plus({"Length"}, -10, 32)),
      Test(Diff({"Length"}, {"DataLength"}, -10, 0), 0, 0)>>
(* ReadTNSPacket has no case for a redirect; ReadTNSRedirect itself.       *)
TNSRedirect == Stream(
    EncodePacket(5, <<LenOf(2, "DataLength", "Data", 0), Body("Data", Few)>>),
    ReadTNSHeader \o <<Is("Type", 4)>> \o ReadTNSRedirect)
TNSRedirectBody ==
    [TNSRedirect EXCEPT !.dec = ReadTNSHeader \o ReadTNSRedirect]

TNSData == Stream(
    EncodePacket(6, <<U(2, "DataFlags"), Body("Data", {0, 3, 65525, 65526})>>),
    ReadTNSPacket(6, <<U(2, "DataFlags"),
                       Take("Data", Plus({"Length"}, -10, 32))>>))

(* major.maintenance.appserver.component.platform in 8.4.4.8.8 bits.       *)
ReleaseVersion == Sliced(
    <<Pack(4, <<Bits("major", 24, 8), Bits("maintenance", 20, 4),
                Bits("appserver", 16, 4), Bits("component", 8, 8),
                Bits("platform", 0, 8)>>)>>,
    <<Pack(4, <<Bits("major", 24, 8), Bits("maintenance", 20, 4),
                Bits("appserver", 16, 4), Bits("component", 8, 8),
                Bits("platform", 0, 8)>>)>>)

NSNValue == <<LenOf(2, "size", "Value", 0), U(2, "ValueType"),
              Body("Value", Few)>>
ReadNSNValue == <<U(2, "size"), U(2, "ValueType"),
                  Take("Value", V("size"))>>
NSNService == Stream(
    <<AtMost(MaxU16), U(2, "Type"), LenOf(2, "n", "Values", 0),
      U(4, "Marker"), Many("Values", {0, 1, 2}, NSNValue)>>,
    <<U(2, "Type"), U(2, "n"), Test(V("n"), 0, 1024), U(4, "Marker")>>
    \o Each(V("n"), ReadNSNValue))

(* Services without values; the ID 0xdeadbeef as two halves.               *)
TNSDataNSN == Stream(
    <<AtMost(MaxU16), Lit(2, "ID0", 57005), Lit(2, "ID1", 48879),
      LenOf(2, "length", "all", 0), U(4, "Version"),
      LenOf(2, "services", "Services", 0), U(1, "Options"),
      Many("Services", {0, 2}, <<U(2, "Type"), Lit(2, "n", 0),
                                 U(4, "Marker")>>)>>,
    <<U(2, "ID0"), U(2, "ID1"), Is("ID0", 57005), Is("ID1", 48879),
      U(2, "length"), Test(V("length"), 12, MaxU16), U(4, "Version"),
      U(2, "services"), Test(V("services"), 0, 255), U(1, "Options")>>
    \o Each(V("services"), <<U(2, "Type"), U(2, "n"), Is("n", 0),
                             U(4, "Marker")>>)
    \o <<Test(Diff({"length"}, {"#read"}, 0, 0), 0, 0), Test(Left, 0, 0)>>)

OracleMessages ==
    [oracle12c |-> TNSMode12c, oracleConnect |-> TNSConnect,
     oracleResend |-> TNSResend, oracleAccept |-> TNSAccept,
     oracleRefuse |-> TNSRefuse, oracleRefused |-> ReadTNSRefuse,
     oracleRedirect |-> TNSRedirect, oracleRedirected |-> TNSRedirectBody,
     oracleData |-> TNSData, oracleVersion |-> ReleaseVersion,
     oracleService |-> NSNService, oracleNSN |-> TNSDataNSN]
=============================================================================
