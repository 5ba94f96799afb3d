---------------------------- MODULE HttpFormats -----------------------------
(***************************************************************************)
(* The frames of HTTP/2 (lib/http/h2_bundle.go): what a Framer writes and  *)
(* what ReadFrame and the parser of the frame's type accept.               *)
(***************************************************************************)
EXTENDS WireItems

(* 31 bits of a word under one bit of another meaning.                     *)
Word31(top, hi, lo) ==
    <<Pack(2, <<Bits(top, 15, 1), Bits(hi, 0, 15)>>), U(2, lo)>>
Masked31(hi, lo) ==
    <<Pack(2, <<Fixed("reserved", 15, 1, 0), Bits(hi, 0, 15)>>), U(2, lo)>>
Flags(set) == Pack(1, [i \in 1..6 |-> Fixed(
    <<"EndStream", "f2", "EndHeaders", "Padded", "f5", "Priority">>[i], i - 1,
    1, IF i \in set THEN 1 ELSE 0)])

(* startWrite, the payload, endWrite; stream 0 is the connection.          *)
startWrite(type, flags, stream) ==
    <<LenOf(3, "Length", "after", -6), Lit(1, "Type", type), Flags(flags)>>
    \o (IF stream = 0
        THEN <<Pack(2, <<Fixed("reserved", 15, 1, 0),
                         Fixed("StreamHi", 0, 15, 0)>>), Lit(2, "StreamLo", 0)>>
        ELSE Masked31("StreamHi", "StreamLo"))
endWrite(type, flags, stream, payload) ==
    <<AtMost(16777224)>> \o startWrite(type, flags, stream) \o payload

MaxFrame == 16777215                    \* maxReadSize of a Framer
readFrameHeader ==
    <<U(3, "Length"), U(1, "Type"), Flags({})>>
    \o Masked31("StreamHi", "StreamLo")
(* The payload is read whole before it is parsed, into a buffer of the     *)
(* length that the header says.                                            *)
ReadFrame(type, payload) ==
    readFrameHeader \o <<Test(V("Length"), 0, MaxFrame), Make(V("Length")),
        Test(Diff({"#left"}, {"Length"}, 0, 0), 0, Huge), Window(V("Length")),
        Is("Type", type)>> \o payload

Stream0 == Test(Plus({"StreamHi", "StreamLo"}, 0, 0), 0, 0)
StreamN == Test(Plus({"StreamHi", "StreamLo"}, 0, 0), 1, Huge)
PadSize == If(V("Padded"), 1, 1, <<Need(1), U(1, "padSize")>>)
Unpadded(name) == <<Take(name, Diff({"#left"}, {"padSize"}, 0, 0)),
                    Take("padding", Left)>>
Pads == {1, 3}                          \* bound

(* Mutant: padding larger than the payload is not refused.                 *)
parseDataFrameUnchecked == <<StreamN>> \o PadSize \o Unpadded("data")
parseDataFrame ==
    <<StreamN>> \o PadSize
    \o <<Test(Diff({"#left"}, {"padSize"}, 0, 0), 0, Huge)>> \o Unpadded("data")
WriteDataPadded(pads) ==
    endWrite(0, {1} \cup (IF pads = {} THEN {} ELSE {4}), 1,
        IF pads = {} THEN <<Body("data", {0, 3, 300})>>
        ELSE <<LenOf(1, "padSize", "pad", 0), Body("data", {0, 3}),
               Body("pad", pads)>>)

(* The first value of SETTINGS_INITIAL_WINDOW_SIZE is below 2^31.          *)
parseSettingsFrame ==
    If(V("EndStream"), 1, 1, <<Is("Length", 0)>>) \o <<Stream0>>
    \o While(Left, 1, Huge,
        <<Need(6), U(2, "ID"), U(4, "Val")>>
        \o If(V("ID"), 4, 4,
              If(V("seen"), 0, 0, <<Test(V("Val"), 0, Huge - 1)>>)
              \o <<Let("seen", N(1))>>))
WriteSettings ==
    endWrite(4, {}, 0, <<Many("settings", {0, 1, 2},
                              <<Lit(2, "ID", 4), U(4, "Val")>>)>>)
WriteSettingsAck == endWrite(4, {1}, 0, <<>>)

parsePingFrame == <<Test(Left, 8, 8), Stream0, Take("Data", N(8))>>
WritePing == endWrite(6, {1}, 0, <<Blob("Data", 8)>>)

parseGoAwayFrame ==
    <<Stream0, Need(8)>> \o Masked31("LastHi", "LastLo")
    \o <<U(4, "ErrCode"), Rest("debugData")>>
(* Mutant: the error code first.                                           *)
WriteGoAwaySwapped ==
    endWrite(7, {}, 0, <<U(4, "ErrCode")>> \o Masked31("LastHi", "LastLo")
                       \o <<Body("debugData", Few)>>)
WriteGoAway ==
    endWrite(7, {}, 0, Masked31("LastHi", "LastLo")
                       \o <<U(4, "ErrCode"), Body("debugData", Few)>>)

parseWindowUpdateFrame ==
    <<Test(Left, 4, 4)>> \o Masked31("IncHi", "IncLo")
    \o <<Test(Plus({"IncHi", "IncLo"}, 0, 0), 1, Huge)>>
WriteWindowUpdate == endWrite(8, {}, 1, Masked31("IncHi", "IncLo"))

parseHeadersFrame ==
    <<StreamN>> \o PadSize
    \o If(V("Priority"), 1, 1,
          <<Need(4)>> \o Word31("Exclusive", "DepHi", "DepLo")
          \o <<Need(1), U(1, "Weight")>>)
    \o <<Test(Diff({"#left"}, {"padSize"}, 0, 0), 1, Huge)>>
    \o Unpadded("BlockFragment")
WriteHeaders(flags) ==
    endWrite(1, flags, 1,
        (IF 4 \in flags THEN <<LenOf(1, "padSize", "pad", 0)>> ELSE <<>>)
        \o (IF 6 \in flags THEN Word31("Exclusive", "DepHi", "DepLo")
                                \o <<U(1, "Weight")>> ELSE <<>>)
        \o <<Body("BlockFragment", {1, 3})>>
        \o (IF 4 \in flags THEN <<Body("pad", Pads)>> ELSE <<>>))

parsePriorityFrame ==
    <<StreamN, Test(Left, 5, 5)>> \o Word31("Exclusive", "DepHi", "DepLo")
    \o <<U(1, "Weight")>>
WritePriority ==
    endWrite(2, {}, 1, Word31("Exclusive", "DepHi", "DepLo")
                       \o <<U(1, "Weight")>>)

parseRSTStreamFrame == <<Test(Left, 4, 4), StreamN, U(4, "ErrCode")>>
WriteRSTStream == endWrite(3, {}, 1, <<U(4, "ErrCode")>>)

parseContinuationFrame == <<StreamN, Rest("BlockFragment")>>
WriteContinuation == endWrite(9, {3}, 1, <<Body("BlockFragment", Few)>>)

parsePushPromise ==
    <<StreamN>> \o PadSize \o <<Need(4)>> \o Masked31("PromiseHi", "PromiseLo")
    \o <<Test(Diff({"#left"}, {"padSize"}, 0, 0), 0, Huge)>>
    \o Unpadded("BlockFragment")
WritePushPromise ==
    endWrite(5, {3, 4}, 1,
        <<LenOf(1, "padSize", "pad", 0)>> \o Masked31("PromiseHi", "PromiseLo")
        \o <<Body("BlockFragment", Few), Body("pad", Pads)>>)

HttpMessages ==
    [h2Data |-> Stream(WriteDataPadded({}), ReadFrame(0, parseDataFrame)),
     h2DataPadded |-> Stream(WriteDataPadded(Pads),
                             ReadFrame(0, parseDataFrame)),
     h2Settings |-> Stream(WriteSettings, ReadFrame(4, parseSettingsFrame)),
     h2SettingsAck |-> Stream(WriteSettingsAck,
                              ReadFrame(4, parseSettingsFrame)),
     h2Ping |-> Stream(WritePing, ReadFrame(6, parsePingFrame)),
     h2GoAway |-> Stream(WriteGoAway, ReadFrame(7, parseGoAwayFrame)),
     h2WindowUpdate |-> Stream(WriteWindowUpdate,
                               ReadFrame(8, parseWindowUpdateFrame)),
     h2Headers |-> Stream(WriteHeaders({1, 3}),
                          ReadFrame(1, parseHeadersFrame)),
     h2HeadersPadded |-> Stream(WriteHeaders({3, 4, 6}),
                                ReadFrame(1, parseHeadersFrame)),
     h2Priority |-> Stream(WritePriority, ReadFrame(2, parsePriorityFrame)),
     h2RSTStream |-> Stream(WriteRSTStream, ReadFrame(3, parseRSTStreamFrame)),
     h2Continuation |-> Stream(WriteContinuation,
                               ReadFrame(9, parseContinuationFrame)),
     h2PushPromise |-> Stream(WritePushPromise,
                              ReadFrame(5, parsePushPromise))]
=============================================================================
