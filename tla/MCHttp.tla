------------------------------- MODULE MCHttp -------------------------------
(* The HTTP clients under the surroundings that make each case happen.     *)
EXTENDS Http

(* One GET over a connection that is kept, and two over HTTP/2.            *)
Quiet ==
    [users |-> {1}, method |-> "GET", hosts |-> <<"a", "a", "a">>, keepAlive |-> TRUE,
     perHost |-> 2, maxIdle |-> 0, idleTimeout |-> FALSE, timeout |-> FALSE, redirects |-> 0,
     cancels |-> FALSE, closesIdle |-> FALSE, forms |-> {"nobody"}, hangsUp |-> 0]
Calm ==
    [up |-> <<0, 0>>, down |-> <<0, 0>>, getBody |-> FALSE, cancelled |-> {}, closed |-> {},
     max |-> 9, windows |-> <<2>>, status |-> {"ok"}, frills |-> FALSE, events |-> {}]

(* One caller: redirects, a deadline, odd responses, hang-ups.             *)
Alone ==
    {[Quiet EXCEPT !.redirects = 2, !.hosts = <<"a", "b", "a">>, !.forms = {"302", "body"}],
     [Quiet EXCEPT !.timeout = TRUE, !.redirects = 1, !.forms = {"302", "closing"}],
     [Quiet EXCEPT !.timeout = TRUE, !.redirects = 1, !.method = "POST", !.forms = {"307"}],
     [Quiet EXCEPT !.timeout = TRUE, !.method = "POST", !.hangsUp = 1],
     [Quiet EXCEPT !.redirects = 1, !.method = "POST", !.hangsUp = 1, !.forms = {"307"}],
     [Quiet EXCEPT !.timeout = TRUE, !.forms = {"302 lost", "short", "bad"}],
     [Quiet EXCEPT !.redirects = 1, !.method = "POST with body", !.hangsUp = 1,
                   !.forms = {"307", "nobody"}],
     [Quiet EXCEPT !.redirects = 1, !.hangsUp = 1, !.forms = {"302", "nobody"}]}
(* Two callers on one Transport.                                           *)
Shared ==
    LET Two == [Quiet EXCEPT !.users = {1, 2}] IN
    {[Two EXCEPT !.method = "POST", !.hangsUp = 1],
     [Two EXCEPT !.cancels = TRUE],
     [Two EXCEPT !.closesIdle = TRUE, !.perHost = 1],
     [Two EXCEPT !.idleTimeout = TRUE, !.maxIdle = 1],
     [Two EXCEPT !.keepAlive = FALSE, !.forms = {"body"}],
     [Two EXCEPT !.forms = {"body"}]}
TheSettings == {Quiet} \cup Alone \cup Shared

(* Two requests over HTTP/2: their bodies, windows that shrink and grow,   *)
(* padding and trailers, cancellation, and what a server may do at any     *)
(* moment.                                                                 *)
ThePlays ==
    {Calm,
     [Calm EXCEPT !.up = <<3, 0>>, !.windows = <<2, 1>>],
     [Calm EXCEPT !.up = <<2, 1>>],
     [Calm EXCEPT !.down = <<3, 0>>, !.frills = TRUE],
     [Calm EXCEPT !.down = <<2, 1>>],
     [Calm EXCEPT !.up = <<2, 0>>, !.cancelled = {1}],
     [Calm EXCEPT !.down = <<2, 0>>, !.cancelled = {1}],
     [Calm EXCEPT !.down = <<3, 1>>, !.closed = {1}],
     [Calm EXCEPT !.up = <<1, 0>>, !.events = {"goaway"}, !.getBody = TRUE],
     [Calm EXCEPT !.up = <<1, 0>>, !.down = <<1, 0>>, !.events = {"rst", "garble"}],
     [Calm EXCEPT !.up = <<1, 0>>, !.events = {"hangup"}],
     [Calm EXCEPT !.events = {"ping", "unreachable"}],
     [Calm EXCEPT !.down = <<1, 0>>, !.events = {"idle"}],
     [Calm EXCEPT !.up = <<2, 0>>, !.status = {"ok", "refused"}],
     [Calm EXCEPT !.down = <<0, 1>>, !.status = {"100", "ok", "bad"}],
     [Calm EXCEPT !.up = <<1, 0>>, !.max = 2, !.windows = <<2, 3>>],
     [Calm EXCEPT !.up = <<2, 0>>, !.max = 3, !.windows = <<1, 3>>]}

TheCases ==
    {<<"http/1.1", s, Calm>> : s \in Alone \cup Shared} \cup {<<"h2", Quiet, p>> : p \in ThePlays}
=============================================================================
