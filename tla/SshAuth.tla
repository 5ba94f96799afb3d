------------------------------ MODULE SshAuth -------------------------------
(* User authentication of lib/ssh over an encrypted transport that keeps   *)
(* order: clientAuthenticate with its methods on one end,                  *)
(* serverAuthenticate on the other. What a user's callback answers (a      *)
(* password check, a key lookup, a challenge) is a choice at each call; a  *)
(* server of another make may send banners, a client of another make may   *)
(* sign as it likes, with keys it does not have too.                       *)
EXTENDS Naturals, Sequences, FiniteSets, SequencesExt

CONSTANTS
    AuthConfigs,       \* pairs of ClientConfig and ServerConfig, see AuthConfig
    MaxCachedPubKeys   \* maxCachedPubKeys (16)

VARIABLES
    acfg,      \* the two configurations
    cl,        \* locals of clientAuthenticate
    sv,        \* locals of serverAuthenticate
    toServer,  \* packets on their way
    toClient

authVars == <<acfg, cl, sv, toServer, toClient>>

Methods == {"password", "publickey", "keyboard-interactive"}
Keys == {"k1", "k2"}
NoKey == "noKey"
Nobody == [method |-> "", key |-> NoKey]

(* What a publickey request has for a signature: none (a query); one by    *)
(* the key over this session and request; one that is not (forged, or of   *)
(* another session); one in a format that isAcceptableAlgo does not know;  *)
(* one that cannot be parsed. The key's own algorithm may be odd as well.  *)
NoSig == "noSig"
SigKinds == {"valid", "forged", "oddFormat", "garbled", "oddAlgo"}

(* Auth: the client's methods in order with their maxTries (1 when not     *)
(* retryable, 0 without limit); keys: its signers; log, dont: ConnLog is   *)
(* set, DontAuthenticate; offers: the callbacks the server has; open:      *)
(* NoClientAuth; banner: the server is of another make and sends one;      *)
(* forger: the client is of another make and signs as it likes.            *)
AuthConfig ==
    [Auth : Seq([method : Methods, max : Nat]), keys : Seq(Keys),
     log : BOOLEAN, dont : BOOLEAN,
     offers : SUBSET Methods, open : BOOLEAN, banner : BOOLEAN, forger : BOOLEAN]

(* serverHandshake refuses a configuration without any method.             *)
ASSUME AuthAssumption ==
    /\ MaxCachedPubKeys \in Nat
    /\ \A c \in AuthConfigs : c \in AuthConfig /\ (c.open \/ c.offers # {})

AuthInit ==
    /\ acfg \in AuthConfigs
    /\ cl = [pc |-> "start", i |-> 0, tried |-> {}, methods |-> {}, keys |-> <<>>,
             valid |-> <<>>, signed |-> {}, round |-> 0, calls |-> [x \in Methods |-> 0], out |-> ""]
    /\ sv = [pc |-> "service", cache |-> {}, said |-> {}, perms |-> Nobody,
             granted |-> Nobody, out |-> ""]
    /\ toServer = <<>> /\ toClient = <<>>

Request(method, key, sig) == [type |-> "request", method |-> method, key |-> key, sig |-> sig]
Packet(type) == [type |-> type]
Failure(methods) == [type |-> "failure", methods |-> methods]
PubKeyOk(key) == [type |-> "pkok", key |-> key]

-----------------------------------------------------------------------------
(* The client.                                                             *)

Method == IF cl.i = 0 THEN "none" ELSE acfg.Auth[cl.i].method

ToServer(m) == toServer' = Append(toServer, m)
Ends(out) == cl' = [cl EXCEPT !.pc = "done", !.out = out]

(* The scanner's runs have a ConnLog: unless user authentication is being  *)
(* collected the client stops here, not authenticated and without error.   *)
clientAuthenticate ==
    /\ cl.pc = "start"
    /\ IF acfg.log /\ ~acfg.dont
       THEN Ends("skipped") /\ UNCHANGED toServer
       ELSE /\ cl' = [cl EXCEPT !.pc = "accept"]
            /\ ToServer(Packet("service"))
    /\ UNCHANGED <<acfg, sv, toClient>>

ServiceAccepted ==
    /\ cl.pc = "accept" /\ toClient # <<>>
    /\ toClient' = Tail(toClient)
    /\ IF Head(toClient).type = "accept" THEN cl' = [cl EXCEPT !.pc = "try"]
                                         ELSE Ends("failed")
    /\ UNCHANGED <<acfg, sv, toServer>>

(* The rounds of retryableAuthMethod; not counted when without limit.      *)
Round == IF cl.i # 0 /\ acfg.Auth[cl.i].max = 0 THEN 0 ELSE cl.round + 1

(* The start of one method's auth(). A callback that fails ends it all.    *)
TryMethod ==
    /\ cl.pc = "try"
    /\ \/ /\ Method # "publickey"
          /\ ToServer(Request(Method, NoKey, NoSig))
          /\ cl' = [cl EXCEPT !.pc = "reply", !.round = Round]
       \/ /\ Method = "publickey"
          /\ cl' = [cl EXCEPT !.pc = "query", !.keys = acfg.keys, !.valid = <<>>, !.round = Round]
          /\ UNCHANGED toServer
       \/ /\ Method \in {"password", "publickey"}
          /\ Ends("failed")
          /\ UNCHANGED toServer
    /\ UNCHANGED <<acfg, sv, toClient>>

(* findNext: the first method of the configuration that was not tried and  *)
(* that the server offers. Without a list the last one stands.             *)
Untried(tried, methods) ==
    {i \in DOMAIN acfg.Auth : /\ acfg.Auth[i].method \notin tried
                              /\ acfg.Auth[i].method \in methods}

(* The end of a method that did not succeed: again, if it is retryable, or *)
(* the next one.                                                           *)
MethodFailed(c, methods) ==
    LET again == c.i # 0 /\ (acfg.Auth[c.i].max = 0 \/ c.round < acfg.Auth[c.i].max)
        tried == c.tried \cup {Method}
        known == IF methods = {} THEN c.methods ELSE methods
        next == Untried(tried, known)
        limited == c.i # 0 /\ acfg.Auth[c.i].max # 0
        counted == IF limited THEN [c EXCEPT !.calls[Method] = @ + 1] ELSE c
    IN  cl' = IF again THEN [counted EXCEPT !.pc = "try"]
              ELSE IF acfg.dont THEN [c EXCEPT !.pc = "done", !.out = "logged"]
              ELSE IF next = {} THEN [counted EXCEPT !.pc = "done", !.out = "failed"]
              ELSE [counted EXCEPT !.pc = "try", !.tried = tried, !.methods = known, !.round = 0,
                              !.i = CHOOSE i \in next : \A j \in next : i <= j]

(* publicKeyCallback.auth first asks for each key whether it would do.     *)
QueryKey ==
    /\ cl.pc = "query"
    /\ IF cl.keys # <<>>
       THEN /\ ToServer(Request("publickey", Head(cl.keys), NoSig))
            /\ cl' = [cl EXCEPT !.pc = "ack"]
       ELSE /\ UNCHANGED toServer
            /\ IF cl.valid # <<>> THEN cl' = [cl EXCEPT !.pc = "sign"]
                                  ELSE MethodFailed(cl, {})
    /\ UNCHANGED <<acfg, sv, toClient>>

(* confirmKeyAck: banners are skipped without the callback.                *)
confirmKeyAck ==
    /\ cl.pc = "ack" /\ toClient # <<>>
    /\ toClient' = Tail(toClient)
    /\ LET m == Head(toClient)
           mine == m.type = "pkok" /\ m.key = Head(cl.keys)
       IN  \/ /\ m.type = "banner"
              /\ UNCHANGED cl
           \/ /\ m.type \in {"pkok", "failure"}
              /\ cl' = [cl EXCEPT !.pc = "query", !.keys = Tail(@),
                          !.valid = IF mine THEN Append(@, Head(cl.keys)) ELSE @]
           \/ /\ m.type \notin {"banner", "pkok", "failure"}
              /\ Ends("failed")
    /\ UNCHANGED <<acfg, sv, toServer>>

(* The signatures a client can make: of this library, a valid one with the *)
(* key the server said would do; of another make, any for any key, valid   *)
(* ones with its own keys only.                                            *)
Signature(key, sig) ==
    IF acfg.forger
    THEN key \in Keys /\ sig \in SigKinds /\ (sig = "valid" => key \in ToSet(acfg.keys))
    ELSE key = Head(cl.valid) /\ sig = "valid"

(* The second stage of publicKeyCallback.auth, a key at a time; a Signer   *)
(* may fail. The field signed remembers whose valid signatures there are.  *)
SignWithKey ==
    /\ cl.pc = "sign"
    /\ \/ \E key \in Keys, sig \in SigKinds :
             /\ Signature(key, sig)
             /\ ToServer(Request("publickey", key, sig))
             /\ cl' = [cl EXCEPT !.pc = "reply", !.valid = Tail(@),
                         !.signed = IF sig = "valid" THEN @ \cup {key} ELSE @]
       \/ Ends("failed") /\ UNCHANGED toServer
    /\ UNCHANGED <<acfg, sv, toClient>>

(* handleAuthResponse, and the loop of the keyboard-interactive method.    *)
(* The banner callback and the challenge callback may fail.                *)
handleAuthResponse ==
    /\ cl.pc = "reply" /\ toClient # <<>>
    /\ toClient' = Tail(toClient)
    /\ LET m == Head(toClient) IN
       \/ /\ m.type = "banner"
          /\ UNCHANGED cl \/ Ends("failed")
          /\ UNCHANGED toServer
       \/ /\ m.type = "success"
          /\ Ends("ok")
          /\ UNCHANGED toServer
       \/ /\ m.type = "failure"
          /\ IF cl.valid # <<>> THEN cl' = [cl EXCEPT !.pc = "sign"]
                                ELSE MethodFailed(cl, m.methods)
          /\ UNCHANGED toServer
       \/ /\ m.type = "info" /\ Method = "keyboard-interactive"
          /\ \/ ToServer(Packet("answer")) /\ UNCHANGED cl
             \/ Ends("failed") /\ UNCHANGED toServer
       \/ /\ \/ m.type \notin {"banner", "success", "failure", "info"}
             \/ m.type = "info" /\ Method # "keyboard-interactive"
          /\ Ends("failed")
          /\ UNCHANGED toServer
    /\ UNCHANGED <<acfg, sv>>

(* The server closed the connection.                                       *)
ClientEOF ==
    /\ cl.pc \in {"accept", "ack", "reply"} /\ toClient = <<>> /\ sv.out = "failed"
    /\ Ends("failed")
    /\ UNCHANGED <<acfg, sv, toServer, toClient>>

-----------------------------------------------------------------------------
(* The server.                                                             *)

ToClient(ms) == toClient' = toClient \o ms

ServiceRequest ==
    /\ sv.pc = "service" /\ toServer # <<>>
    /\ toServer' = Tail(toServer)
    /\ sv' = [sv EXCEPT !.pc = "loop"]
    /\ ToClient(<<Packet("accept")>>)
    /\ UNCHANGED <<acfg, cl>>

(* The end of a round of userAuthLoop: success, or the list of what may    *)
(* still be tried; without any the server gives up.                        *)
Banner == IF acfg.banner THEN <<Packet("banner")>> ELSE <<>>

Answer(s, ok, method, key) ==
    IF ok
    THEN /\ sv' = [s EXCEPT !.pc = "done", !.out = "ok",
                            !.granted = [method |-> method, key |-> key]]
         /\ ToClient(Banner \o <<Packet("success")>>)
    ELSE IF acfg.offers = {}
    THEN /\ sv' = [s EXCEPT !.pc = "done", !.out = "failed"]
         /\ UNCHANGED toClient
    ELSE /\ sv' = [s EXCEPT !.pc = "loop"]
         /\ ToClient(Banner \o <<Failure(acfg.offers)>>)

(* perms = nil at the top of every round.                                  *)
Fresh == [sv EXCEPT !.perms = Nobody]
Allowed(method, key) == [method |-> method, key |-> key]

ServeNone ==
    /\ sv.pc = "loop" /\ toServer # <<>> /\ Head(toServer).method = "none"
    /\ toServer' = Tail(toServer)
    /\ Answer(Fresh, acfg.open, "none", NoKey)
    /\ UNCHANGED <<acfg, cl>>

ServePassword ==
    /\ sv.pc = "loop" /\ toServer # <<>> /\ Head(toServer).method = "password"
    /\ toServer' = Tail(toServer)
    /\ \E ok \in BOOLEAN :
          /\ ok => "password" \in acfg.offers
          /\ Answer([Fresh EXCEPT !.perms = IF ok THEN Allowed("password", NoKey) ELSE @],
                    ok, "password", NoKey)
    /\ UNCHANGED <<acfg, cl>>

(* The callback may prompt, once here, before it decides (Challenge).      *)
ServeKeyboard ==
    /\ sv.pc = "loop" /\ toServer # <<>> /\ Head(toServer).method = "keyboard-interactive"
    /\ toServer' = Tail(toServer)
    /\ \/ /\ "keyboard-interactive" \in acfg.offers
          /\ sv' = [Fresh EXCEPT !.pc = "challenge"]
          /\ ToClient(<<Packet("info")>>)
       \/ \E ok \in BOOLEAN :
             /\ ok => "keyboard-interactive" \in acfg.offers
             /\ Answer([Fresh EXCEPT
                          !.perms = IF ok THEN Allowed("keyboard-interactive", NoKey) ELSE @],
                       ok, "keyboard-interactive", NoKey)
    /\ UNCHANGED <<acfg, cl>>

ServeAnswer ==
    /\ sv.pc = "challenge" /\ toServer # <<>>
    /\ toServer' = Tail(toServer)
    /\ \E ok \in BOOLEAN :
          /\ ok => Head(toServer).type = "answer"
          /\ Answer([sv EXCEPT !.perms = IF ok THEN Allowed("keyboard-interactive", NoKey) ELSE @],
                    ok, "keyboard-interactive", NoKey)
    /\ UNCHANGED <<acfg, cl>>

(* pubKeyCache: the first decision about a key is kept while there is room. *)
Cached(key) == {e \in sv.cache : e.key = key}
AddToCache(e) == IF Cardinality(sv.cache) < MaxCachedPubKeys THEN sv.cache \cup {e} ELSE sv.cache

(* pubKey.Verify over this session's identifier and this request.          *)
NeverVerified(m) == m.sig \in {"valid", "forged"}
Verified(m) == m.sig = "valid"

(* serverAuthenticate returns an error, and the connection is closed.      *)
Refuse(s) == sv' = [s EXCEPT !.pc = "done", !.out = "failed"] /\ UNCHANGED toClient

(* A key is looked up once. A query is answered; a signature whose format  *)
(* is not known is one more failure, one that does not verify ends the     *)
(* connection, and a good one is accepted if the decision was favourable.  *)
ServePublicKey ==
    /\ sv.pc = "loop" /\ toServer # <<>> /\ Head(toServer).method = "publickey"
    /\ toServer' = Tail(toServer)
    /\ LET m == Head(toServer)
           hit == Cached(m.key)
       IN
       IF "publickey" \notin acfg.offers \/ m.sig = "oddAlgo"
       THEN Answer(Fresh, FALSE, "publickey", NoKey)
       ELSE \E e \in IF hit # {} THEN hit ELSE {[key |-> m.key, ok |-> b] : b \in BOOLEAN} :
              LET s == [Fresh EXCEPT !.cache = IF hit # {} THEN @ ELSE AddToCache(e),
                                     !.said = @ \cup {e}]
              IN  \/ /\ m.sig = NoSig /\ e.ok
                     /\ sv' = s /\ ToClient(<<PubKeyOk(m.key)>>)
                  \/ /\ (m.sig = NoSig /\ ~e.ok) \/ m.sig = "oddFormat"
                     /\ Answer(s, FALSE, "publickey", m.key)
                  \/ /\ m.sig \notin {NoSig, "oddFormat"} /\ ~Verified(m)
                     /\ Refuse(s)
                  \/ /\ Verified(m)
                     /\ Answer([s EXCEPT !.perms = Allowed("publickey", m.key)],
                               e.ok, "publickey", m.key)
    /\ UNCHANGED <<acfg, cl>>

(* The client closed the connection. A client that stopped without error   *)
(* (out is skipped or logged) leaves the server waiting.                   *)
ServerEOF ==
    /\ sv.pc \in {"service", "loop", "challenge"} /\ toServer = <<>> /\ cl.out = "failed"
    /\ sv' = [sv EXCEPT !.pc = "done", !.out = "failed"]
    /\ UNCHANGED <<acfg, cl, toServer, toClient>>

-----------------------------------------------------------------------------
AuthNext ==
    \/ clientAuthenticate \/ ServiceAccepted \/ TryMethod \/ QueryKey \/ confirmKeyAck
    \/ SignWithKey \/ handleAuthResponse \/ ClientEOF
    \/ ServiceRequest \/ ServeNone \/ ServePassword \/ ServeKeyboard \/ ServeAnswer
    \/ ServePublicKey \/ ServerEOF

-----------------------------------------------------------------------------
(* Properties.                                                             *)

AuthTypeOK ==
    /\ cl.i \in 0 .. Len(acfg.Auth) /\ cl.tried \subseteq Methods \cup {"none"}
    /\ cl.out \in {"", "ok", "failed", "skipped", "logged"}
    /\ sv.out \in {"", "ok", "failed"}
    /\ Len(toServer) <= 1 /\ Len(toClient) <= 2

(* A client that believes it is authenticated is one the server let in,    *)
(* with the permissions of the method and key it was let in by and of no   *)
(* earlier attempt (server.go:360 and 474).                                *)
AuthAgrees ==
    /\ cl.out = "ok" => sv.out = "ok"
    /\ sv.out = "ok" => /\ sv.granted.method \in {"none"} \cup acfg.offers
                        /\ sv.granted.method = "none" => acfg.open /\ sv.perms = Nobody
                        /\ sv.granted.method # "none" => sv.perms = sv.granted

(* Nobody is let in by a key whose owner has not signed in this session,   *)
(* whatever a client of another make sends for a signature, or by one that *)
(* the callback refused (server.go:423 to 475).                            *)
KeysAreProven ==
    sv.granted.method = "publickey" =>
      /\ sv.granted.key \in cl.signed
      /\ [key |-> sv.granted.key, ok |-> TRUE] \in sv.said

(* The answer to a signature is the answer to the query before it,         *)
(* whatever the callback would say by then, unless the cache was full      *)
(* (server.go:179 and 423).                                                *)
DecisionsStand ==
    \A d, e \in sv.said : d.key = e.key /\ d.ok # e.ok =>
      /\ Cardinality(sv.cache) = MaxCachedPubKeys
      /\ d.key \notin {c.key : c \in sv.cache}

(* "first attempts the none method then any untried methods suggested by   *)
(* the server" (client_auth.go:34): a method is not tried more often than  *)
(* the retries of its first entry allow, whatever entries of the same      *)
(* method follow, and none that the server does not offer.                 *)
FirstOfItsMethod(i) == \A j \in 1 .. i - 1 : acfg.Auth[j].method # acfg.Auth[i].method
UntriedMethodsOnly ==
    /\ \A x \in Methods : cl.calls[x] # 0 => x \in acfg.offers
    /\ \A i \in DOMAIN acfg.Auth :
         FirstOfItsMethod(i) /\ acfg.Auth[i].max # 0
           => cl.calls[acfg.Auth[i].method] <= acfg.Auth[i].max

(* Authentication ends on both ends, unless a method may be retried        *)
(* without limit or the scanning client stops and leaves the server        *)
(* waiting for its next request.                                           *)
AuthEnds ==
    (\A i \in DOMAIN acfg.Auth : acfg.Auth[i].max # 0)
      => <>(cl.out # "" /\ (sv.out # "" \/ cl.out \in {"skipped", "logged"}))
=============================================================================
