----------------------------- MODULE SshFormats -----------------------------
(***************************************************************************)
(* The messages of lib/ssh: each is a struct, and Marshal and Unmarshal    *)
(* walk over its fields by their kinds (messages.go).                      *)
(***************************************************************************)
EXTENDS WireItems, SequencesExt

(* The kinds of fields: a bool, numbers, 16 bytes, a string or a byte      *)
(* slice, a list of names, a big integer, the rest of the packet.          *)
boolean(name) == <<"bool", name>>
uint32(name) == <<"uint32", name>>
uint64(name) == <<"uint64", name>>
array(name) == <<"array", name>>
string(name) == <<"string", name>>
nameList(name) == <<"nameList", name>>
bigInt(name) == <<"bigInt", name>>
restOf(name) == <<"rest", name>>
Lengths(kind) == IF kind = "nameList" THEN {5} ELSE IF kind = "bigInt" THEN {1, 4}
                 ELSE {0, 3}            \* bound

marshalField(f) ==
    CASE f[1] = "bool" -> <<Lit(1, f[2], 1)>>
      [] f[1] = "uint32" -> <<U(4, f[2])>>
      [] f[1] = "uint64" -> <<U(8, f[2])>>
      [] f[1] = "array" -> <<Blob(f[2], 16)>>
      [] f[1] = "rest" -> <<Body(f[2], Lengths(f[1]))>>
      [] OTHER -> <<LenOf(4, "length", f[2], 0), Body(f[2], Lengths(f[1]))>>
parseString(name) ==
    <<Need(4), U(4, "length"),
      Test(Diff({"#left"}, {"length"}, 0, 0), 0, Huge), Take(name, V("length"))>>
unmarshalField(f) ==
    CASE f[1] = "bool" -> <<U(1, f[2])>>
      [] f[1] = "uint32" -> <<U(4, f[2])>>
      [] f[1] = "uint64" -> <<U(8, f[2])>>
      [] f[1] = "array" -> <<Take(f[2], N(16))>>
      [] f[1] = "rest" -> <<Rest(f[2])>>
      [] OTHER -> parseString(f[2])

Fields(struct, Code(_)) ==
    FlattenSeq([i \in DOMAIN struct |-> Code(struct[i])])
marshalStruct(type, struct) ==
    <<Lit(1, "type", type)>> \o Fields(struct, marshalField)
Unmarshal(type, struct) ==
    <<Need(1), U(1, "type"), Is("type", type)>>
    \o Fields(struct, unmarshalField) \o <<Test(Left, 0, 0)>>
Message(type, struct) == Stream(marshalStruct(type, struct),
                                Unmarshal(type, struct))
(* A public key or a certificate has its algorithm's name in front.        *)
Untyped(struct) == Stream(Fields(struct, marshalField),
                          Fields(struct, unmarshalField) \o <<Test(Left, 0, 0)>>)

KexInitMsg ==
    Message(20, <<array("Cookie"), nameList("KexAlgos"),
                  nameList("ServerHostKeyAlgos"), nameList("CiphersClientServer"),
                  nameList("CiphersServerClient"), nameList("MACsClientServer"),
                  nameList("MACsServerClient"), nameList("CompressionClientServer"),
                  nameList("CompressionServerClient"),
                  nameList("LanguagesClientServer"),
                  nameList("LanguagesServerClient"), boolean("FirstKexFollows"),
                  uint32("Reserved")>>)
SshMessages ==
    [sshDisconnect |-> Message(1, <<uint32("Reason"), string("Message"),
                                    string("Language")>>),
     sshKexInit |-> KexInitMsg,
     sshKexDHInit |-> Message(30, <<bigInt("X")>>),
     sshKexECDHReply |-> Message(31, <<string("HostKey"),
                                       string("EphemeralPubKey"),
                                       string("Signature")>>),
     sshKexDHReply |-> Message(31, <<string("HostKey"), bigInt("Y"),
                                     string("Signature")>>),
     sshServiceRequest |-> Message(5, <<string("Service")>>),
     sshUserAuthRequest |-> Message(50, <<string("User"), string("Service"),
                                          string("Method"), restOf("Payload")>>),
     sshUserAuthFailure |-> Message(51, <<nameList("Methods"),
                                          boolean("PartialSuccess")>>),
     sshUserAuthBanner |-> Message(53, <<string("Message"),
                                         string("Language")>>),
     sshUserAuthInfoRequest |->
        Message(60, <<string("User"), string("Instruction"),
                      string("DeprecatedLanguage"), uint32("NumPrompts"),
                      restOf("Prompts")>>),
     sshUserAuthPubKeyOk |-> Message(60, <<string("Algo"), string("PubKey")>>),
     sshChannelOpen |-> Message(90, <<string("ChanType"), uint32("PeersId"),
                                      uint32("PeersWindow"),
                                      uint32("MaxPacketSize"),
                                      restOf("TypeSpecificData")>>),
     sshChannelData |-> Message(94, <<uint32("PeersId"), uint32("Length"),
                                      restOf("Rest")>>),
     sshChannelOpenConfirm |->
        Message(91, <<uint32("PeersId"), uint32("MyId"), uint32("MyWindow"),
                      uint32("MaxPacketSize"), restOf("TypeSpecificData")>>),
     sshChannelOpenFailure |->
        Message(92, <<uint32("PeersId"), uint32("Reason"), string("Message"),
                      string("Language")>>),
     sshChannelRequest |-> Message(98, <<uint32("PeersId"), string("Request"),
                                         boolean("WantReply"),
                                         restOf("RequestSpecificData")>>),
     sshChannelClose |-> Message(97, <<uint32("PeersId")>>),
     sshGlobalRequest |-> Message(80, <<string("Type"), boolean("WantReply"),
                                        restOf("Data")>>),
     sshRequestSuccess |-> Message(81, <<restOf("Data")>>),
     sshWindowAdjust |-> Message(93, <<uint32("PeersId"),
                                       uint32("AdditionalBytes")>>)]
=============================================================================
