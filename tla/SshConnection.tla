--------------------------- MODULE SshConnection ----------------------------
(* An SSH connection above its transport: user authentication, and once    *)
(* both ends have returned from it the multiplexers (NewClientConn,        *)
(* serverHandshake). A client that skipped or only logged authentication   *)
(* starts its multiplexer too, facing a server that still authenticates.   *)
EXTENDS SshAuth, SshMux

CONSTANT Cases  \* the pairs of AuthConfigs and Scenarios considered

VARIABLE phase

vars == <<phase, acfg, cl, sv, toServer, toClient, plan, wire, mx, ch, rogue>>

Init == phase = "auth" /\ AuthInit /\ MuxInit /\ <<acfg, plan>> \in Cases

Authenticate == phase = "auth" /\ AuthNext /\ UNCHANGED <<phase, muxVars>>

newMux ==
    /\ phase = "auth"
    /\ \/ cl.out = "ok" /\ sv.out = "ok" /\ phase' = "mux"
       \/ cl.out \in {"skipped", "logged"} /\ phase' = "alone"
    /\ UNCHANGED <<authVars, muxVars>>

(* The first packet of a multiplexer that is alone: the server takes it    *)
(* for a request, cannot parse it, and closes the connection.              *)
StrayPacket ==
    /\ phase = "alone" /\ sv.pc \in {"service", "loop"} /\ toServer = <<>>
    /\ sv' = [sv EXCEPT !.pc = "done", !.out = "failed"]
    /\ UNCHANGED <<phase, acfg, cl, toServer, toClient, muxVars>>

Multiplex == phase = "mux" /\ MuxNext /\ UNCHANGED <<phase, authVars>>

Next == Authenticate \/ newMux \/ StrayPacket \/ Multiplex

Spec == Init /\ [][Next]_vars
FairSpec == Spec /\ WF_vars(Next)
(* The two ends agree on who is authenticated and by what: the client is   *)
(* let in only by a method on offer, with a key that was proven by a valid *)
(* signature and accepted, as decided the first time, and never asks again *)
(* for what was refused (serverAuthenticate, clientAuthenticate).          *)
AuthSound ==
    AuthTypeOK /\ AuthAgrees /\ KeysAreProven /\ DecisionsStand
    /\ UntriedMethodsOnly

(* Between two ends of this library neither flow control nor the closing   *)
(* of a channel loses or invents a byte, and whatever crosses on the wire  *)
(* no packet is for a channel that is gone (channel.go, common.go).        *)
FlowIsExact == WindowAccounts /\ StreamIntact /\ NoStrayPacket

(* Whatever the peer sends, an end's list of channels and the channels'    *)
(* own state stay in step: none is closed twice, none cut off, and no      *)
(* window wraps or outgrows its size (mux.onePacket, chanList, window).    *)
ChannelsSound == MuxTypeOK /\ ListMatches /\ SurvivesPeer

(* Authentication ends, and the end of a connection lets go of everybody   *)
(* who waits for it (mux.loop).                                            *)
ConnectionEnds == AuthEnds /\ EndLetsGo
=============================================================================
