-------------------------- MODULE MCSshConnection ---------------------------
(* Authentication with each combination of methods and an idle             *)
(* multiplexer after it; and, once let in without a method, the            *)
(* multiplexers in scenarios that each stress one part.                    *)
EXTENDS SshConnection, TLC

M(x, n) == [method |-> x, max |-> n]
NoAuth == [Auth |-> <<>>, keys |-> <<>>, log |-> FALSE, dont |-> FALSE,
           offers |-> {}, open |-> TRUE, banner |-> FALSE, forger |-> FALSE]
AllMethods == [NoAuth EXCEPT !.open = FALSE, !.offers = Methods, !.keys = <<"k1", "k2">>,
                 !.Auth = <<M("publickey", 1), M("password", 2), M("keyboard-interactive", 1)>>]
AuthCases ==
    {AllMethods,
     [AllMethods EXCEPT !.banner = TRUE, !.keys = <<"k1">>],
     [AllMethods EXCEPT !.Auth = <<M("publickey", 2)>>],
     [AllMethods EXCEPT !.Auth = <<M("publickey", 2)>>, !.keys = <<"k1">>, !.forger = TRUE],
     [AllMethods EXCEPT !.Auth = <<M("password", 0)>>],
     [AllMethods EXCEPT !.offers = {"password"}],
     [AllMethods EXCEPT !.offers = {"keyboard-interactive", "publickey"}, !.open = TRUE],
     [AllMethods EXCEPT !.log = TRUE],
     [AllMethods EXCEPT !.log = TRUE, !.dont = TRUE]}

Data(c, s) == ("client" :> c) @@ ("server" :> s)
Idle == [opens |-> 0, data |-> Data(0, 0), asks |-> 0, globals |-> 0, closes |-> {},
         hangup |-> FALSE, rogue |-> <<>>]
R(type, id, from, n) == <<[type |-> type, id |-> id, from |-> from, n |-> n]>>
MuxCases ==
    {[Idle EXCEPT !.opens = 1, !.data = Data(3, 0), !.hangup = TRUE],
     [Idle EXCEPT !.opens = 2, !.closes = End],
     [Idle EXCEPT !.opens = 1, !.data = Data(2, 1), !.closes = End],
     [Idle EXCEPT !.opens = 1, !.asks = 2, !.closes = {"client"}, !.hangup = TRUE],
     [Idle EXCEPT !.opens = 1, !.asks = 1, !.globals = 2, !.hangup = TRUE],
     [Idle EXCEPT !.opens = 1, !.data = Data(2, 0), !.rogue = R("adjust", 1, 0, WindowMod - 1)],
     [Idle EXCEPT !.opens = 1, !.rogue = R("data", 1, 0, WindowSize + 1)],
     [Idle EXCEPT !.opens = 2, !.rogue = R("confirm", 1, 1, 1)],
     [Idle EXCEPT !.opens = 2, !.rogue = R("close", 1, 0, 0) \o R("close", 1, 0, 0)],
     [Idle EXCEPT !.opens = 2, !.globals = 1, !.rogue = R("globalReply", 0, 0, 0) \o R("globalReply", 0, 0, 0)],
     [Idle EXCEPT !.opens = 1, !.rogue = R("oddOpen", 0, 1, 0)],
     [Idle EXCEPT !.opens = 1, !.asks = 1, !.rogue = R("reply", 1, 0, 0) \o R("eof", 3, 0, 0)]}

AllAuthConfigs == AuthCases \cup {NoAuth}
AllScenarios == MuxCases \cup {Idle}
AllCases == (AuthCases \X {Idle}) \cup ({NoAuth} \X MuxCases)
=============================================================================
