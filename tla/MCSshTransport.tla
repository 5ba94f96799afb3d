--------------------------- MODULE MCSshTransport ---------------------------
(* Two ends that agree, each kind of key exchange, and one reason to fail  *)
(* at a time.                                                              *)
EXTENDS SshTransport, TLC

Both(x) == [s \in Side |-> x]
Plain == [offer |-> Both(<<"curve25519", "dh">>), bits |-> Both(1), honest |-> Both(TRUE),
          hostKeyKnown |-> TRUE, hello |-> FALSE, timed |-> FALSE,
          data |-> Both(0)]

Pairs ==
    {[Plain EXCEPT !.data = ("client" :> 2) @@ ("server" :> 1)],
     [Plain EXCEPT !.timed = TRUE, !.data = ("client" :> 1) @@ ("server" :> 0)],
     [Plain EXCEPT !.hello = TRUE],
     [Plain EXCEPT !.hostKeyKnown = FALSE],
     [Plain EXCEPT !.honest = ("client" :> FALSE) @@ ("server" :> TRUE)],
     [Plain EXCEPT !.honest = ("client" :> TRUE) @@ ("server" :> FALSE)],
     [Plain EXCEPT !.offer = ("client" :> <<"ecdh", "dh">>) @@ ("server" :> <<"dh">>)],
     [Plain EXCEPT !.offer = ("client" :> <<"ecdh">>) @@ ("server" :> <<"dh">>)],
     [Plain EXCEPT !.offer = Both(<<"ecdh">>)],
     [Plain EXCEPT !.offer = Both(<<"gex">>)],
     [Plain EXCEPT !.offer = Both(<<"gex">>), !.bits = ("client" :> 1) @@ ("server" :> 2)]}
=============================================================================
