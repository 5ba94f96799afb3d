---------------------------- MODULE SshTransport ----------------------------
(* The SSH transport of lib/ssh: two ends of this library over a byte      *)
(* stream. On each end a reader goroutine (handshakeTransport.readLoop)    *)
(* runs the key exchanges and hands packets to a bounded channel, the main *)
(* goroutine runs the handshake and then the multiplexer's loop, and a     *)
(* user goroutine writes. The three share the mutex mu and its condition.  *)
(* A packet is its type; the keys a packet is encrypted with are named by  *)
(* the exchange hash and the session identifier they are derived from.     *)
EXTENDS Naturals, Sequences, FiniteSets

CONSTANTS
    Configs,         \* the pairs of ends considered, see Config
    RekeyThreshold,  \* Config.RekeyThreshold, in packets
    IncomingCap,     \* capacity of handshakeTransport.incoming (16)
    WireCap,         \* packets the sockets hold in one direction
    MaxData          \* the most packets after which an end starts no write

VARIABLES
    cfg,    \* the two Configs and what the peers' values are worth
    sock,   \* the socket of an end and what it sent that is not read yet
    tr,     \* transport: the cipher of each direction and the pending ones
    ht,     \* handshakeTransport
    kex,    \* the reader's locals: the exchange under way, the packet in hand
    pc,     \* where each goroutine is
    why,    \* how readLoop of an end ended, "" while it has not
    sent,   \* packets written above the transport
    got     \* packets the main goroutine took, after NEWKEYS

vars == <<cfg, sock, tr, ht, kex, pc, why, sent, got>>

Side == {"client", "server"}
Thread == {"reader", "main", "writer"}
NoOne == "nobody"
NoHash == <<>>
NoKey == <<>>

(* The lists each end puts in its KEXINIT, its group exchange limits,      *)
(* whether its public values are in bounds, whether the client accepts the *)
(* host key, ClientConfig.HelloOnly, whether Dial had a timeout, and after *)
(* how many packets an end starts no further write above the transport.    *)
Config ==
    [offer : [Side -> Seq({"dh", "ecdh", "curve25519", "gex"})],
     bits : [Side -> Nat], honest : [Side -> BOOLEAN],
     hostKeyKnown : BOOLEAN, hello : BOOLEAN, timed : BOOLEAN,
     data : [Side -> 0 .. MaxData]]

ASSUME TransportBounds ==
    /\ RekeyThreshold \in Nat /\ MaxData \in Nat
    /\ \A c \in Configs : c \in Config
    /\ IncomingCap \in Nat \ {0} /\ WireCap \in Nat \ {0}

Peer(s) == IF s = "client" THEN "server" ELSE "client"

-----------------------------------------------------------------------------
(* The key exchange methods: what each end writes and reads, in order. A   *)
(* step is [op, type]; "try" is a write whose error is dropped.            *)

Write(type) == [op |-> "write", type |-> type]
Try(type) == [op |-> "try", type |-> type]
Read(type) == [op |-> "read", type |-> type]

dhClient == <<Write("dhInit"), Read("dhReply")>>
dhServer == <<Read("dhInit"), Try("dhReply")>>
ecdhClient == <<Write("ecdhInit"), Read("ecdhReply")>>
ecdhServer == <<Read("ecdhInit"), Write("ecdhReply")>>
curve25519Client == <<Write("ecdhInit"), Read("ecdhReply")>>
curve25519Server == <<Read("ecdhInit"), Write("ecdhReply")>>
gexClient == <<Write("gexRequest"), Read("gexGroup"),
               Write("gexInit"), Read("gexReply")>>
gexServer == <<Read("gexRequest"), Write("gexGroup"),
               Read("gexInit"), Try("gexReply")>>

kexAlgoMap ==
    [dh |-> [client |-> dhClient, server |-> dhServer],
     ecdh |-> [client |-> ecdhClient, server |-> ecdhServer],
     curve25519 |-> [client |-> curve25519Client, server |-> curve25519Server],
     gex |-> [client |-> gexClient, server |-> gexServer]]

Replies == {"dhReply", "ecdhReply", "gexReply"}

(* After the method the new ciphers are prepared, then NEWKEYS goes out    *)
(* and must come in.                                                       *)
Script(s, alg) ==
    kexAlgoMap[alg][s] \o <<[op |-> "prepare", type |-> ""], Write("newkeys"), Read("newkeys")>>

(* The first of the client's algorithms that the server has, or "". One    *)
(* list stands for the eight that findAgreedAlgorithms goes through.       *)
findCommon(c, s) ==
    LET both == {i \in DOMAIN c : \E j \in DOMAIN s : c[i] = s[j]}
    IN  IF both = {} THEN "" ELSE c[CHOOSE i \in both : \A j \in both : i <= j]

Agreed == findCommon(cfg.offer["client"], cfg.offer["server"])

(* The exchange hash covers both KEXINITs (the magics), the method and,    *)
(* for the group exchange, the limits of the end that computes it.         *)
Hash(s, mine, theirs) ==
    [client |-> IF s = "client" THEN mine ELSE theirs,
     server |-> IF s = "client" THEN theirs ELSE mine,
     bits |-> IF Agreed = "gex" THEN cfg.bits[s] ELSE 0]

(* generateKeys: one key per direction, named by the end that writes.      *)
Key(writer, h, session) == [writer |-> writer, hash |-> h, session |-> session]

-----------------------------------------------------------------------------
Init ==
    /\ cfg \in Configs
    /\ sock = [s \in Side |-> [open |-> TRUE, late |-> FALSE, wire |-> <<>>]]
    /\ tr = [s \in Side |-> [reader |-> NoKey, writer |-> NoKey,
                             pendR |-> NoKey, pendW |-> NoKey, panic |-> FALSE]]
    /\ ht = [s \in Side |->
               [mu |-> NoOne, sentInit |-> 0, inits |-> 0, session |-> NoHash,
                written |-> 0, readn |-> 0, writeErr |-> FALSE,
                incoming |-> <<>>, closed |-> FALSE]]
    /\ kex = [s \in Side |-> [theirs |-> 0, step |-> 0, hash |-> NoHash, hand |-> <<>>]]
    /\ pc = [s \in Side |-> [reader |-> "read", main |-> "start", writer |-> "off"]]
    /\ why = [s \in Side |-> ""]
    /\ sent = [s \in Side |-> 0]
    /\ got = [s \in Side |-> 0]

Goto(s, t, label) == pc' = [pc EXCEPT ![s][t] = label]

-----------------------------------------------------------------------------
(* The socket. Dial puts one deadline on the client's whole connection.    *)

Dead(s) == ~sock[s].open \/ sock[s].late
Inbound(s) == sock[Peer(s)].wire
CanRead(s) == ~Dead(s) /\ Inbound(s) # <<>>
ReadFails(s) == Dead(s) \/ (~sock[Peer(s)].open /\ Inbound(s) = <<>>)
CanWrite(s) == ~Dead(s) /\ Len(sock[s].wire) < WireCap
WriteFails(s) == Dead(s) \/ ~sock[Peer(s)].open
CloseConn(s) == sock' = [sock EXCEPT ![s].open = FALSE]

DeadlineExpires ==
    /\ cfg.timed /\ ~sock["client"].late
    /\ sock' = [sock EXCEPT !["client"].late = TRUE]
    /\ UNCHANGED <<cfg, tr, ht, kex, pc, why, sent, got>>

(* connectionState.writePacket: the packet leaves under the current key,   *)
(* and NEWKEYS switches to the pending one.                                *)
PutPacket(s, type, n) ==
    LET switch == type = "newkeys"
    IN  /\ sock' = [sock EXCEPT ![s].wire =
               Append(@, [type |-> type, key |-> tr[s].writer, n |-> n,
                          hash |-> IF type \in Replies THEN kex[s].hash ELSE NoHash])]
        /\ tr' = IF ~switch THEN tr
                 ELSE [tr EXCEPT ![s].writer = tr[s].pendW, ![s].pendW = NoKey,
                                 ![s].panic = @ \/ tr[s].pendW = NoKey]

(* connectionState.readPacket: a packet under another key fails its MAC;   *)
(* NEWKEYS switches to the pending key, and without one it is bogus.       *)
ReadResult(s) ==
    LET m == Head(Inbound(s))
    IN  IF m.key # tr[s].reader THEN "mac"
        ELSE IF m.type = "newkeys" /\ tr[s].pendR = NoKey THEN "bogus"
        ELSE m.type

TakePacket(s) ==
    /\ sock' = [sock EXCEPT ![Peer(s)].wire = Tail(@)]
    /\ tr' = IF ReadResult(s) # "newkeys" THEN tr
             ELSE [tr EXCEPT ![s].reader = tr[s].pendR, ![s].pendR = NoKey]

Bad == {"mac", "bogus"}

-----------------------------------------------------------------------------
(* sendKexInitLocked, by the goroutine that holds mu: h is what it leaves  *)
(* of the transport, ok whether the packet is out.                         *)

SendKexInit(s, h, ok) ==
    \/ /\ ht[s].sentInit # 0 /\ ok
       /\ h = ht[s]
       /\ UNCHANGED <<sock, tr>>
    \/ /\ ht[s].sentInit = 0 /\ CanWrite(s) /\ ok
       /\ h = [ht[s] EXCEPT !.inits = @ + 1, !.sentInit = ht[s].inits + 1]
       /\ PutPacket(s, "kexinit", ht[s].inits + 1)
    \/ /\ ht[s].sentInit = 0 /\ WriteFails(s) /\ ~ok
       /\ h = ht[s]
       /\ UNCHANGED <<sock, tr>>

Sent(s) == [ht[s] EXCEPT !.inits = @ + 1, !.sentInit = ht[s].inits + 1]
Free(s) == ht[s].mu = NoOne
SetHt(s, h) == ht' = [ht EXCEPT ![s] = h]

-----------------------------------------------------------------------------
(* readLoop and readOnePacket.                                             *)

(* The head of readOnePacket: when enough was read under these keys, new   *)
(* ones are asked for before the next packet is read.                      *)
Top(n) == IF n > RekeyThreshold THEN "reqLock" ELSE "read"

(* An error of readOnePacket: readLoop stores it and closes incoming.      *)
ReaderEnds(s, h, err) ==
    /\ why' = [why EXCEPT ![s] = err]
    /\ SetHt(s, [h EXCEPT !.closed = TRUE])
    /\ Goto(s, "reader", "end")

RequestLock(s) ==
    /\ pc[s].reader = "reqLock" /\ Free(s)
    /\ SetHt(s, [ht[s] EXCEPT !.mu = "reader"])
    /\ Goto(s, "reader", "reqInit")
    /\ UNCHANGED <<cfg, sock, tr, kex, why, sent, got>>

requestKeyChange(s) ==
    /\ pc[s].reader = "reqInit"
    /\ \E ok \in BOOLEAN, h \in {ht[s], Sent(s)} :
          /\ SendKexInit(s, h, ok)
          /\ IF ok THEN /\ SetHt(s, [h EXCEPT !.mu = NoOne])
                        /\ Goto(s, "reader", "read")
                        /\ UNCHANGED why
                   ELSE ReaderEnds(s, [h EXCEPT !.mu = NoOne], "write")
    /\ UNCHANGED <<cfg, kex, sent, got>>

readOnePacket(s) ==
    /\ pc[s].reader = "read" /\ CanRead(s)
    /\ TakePacket(s)
    /\ LET m == Head(Inbound(s))
           counted == [ht[s] EXCEPT !.readn = @ + 1]
       IN
       \/ /\ ReadResult(s) \in Bad
          /\ ReaderEnds(s, ht[s], ReadResult(s))
          /\ UNCHANGED kex
       \/ /\ ReadResult(s) = "kexinit"
          /\ SetHt(s, counted)
          /\ kex' = [kex EXCEPT ![s].theirs = m.n]
          /\ Goto(s, "reader", "kexLock")
          /\ UNCHANGED why
       \/ /\ ReadResult(s) \notin Bad \cup {"kexinit"}
          /\ SetHt(s, counted)
          /\ kex' = [kex EXCEPT ![s].hand = <<[type |-> m.type, n |-> m.n]>>]
          /\ Goto(s, "reader", "deliver")
          /\ UNCHANGED why
    /\ UNCHANGED <<cfg, sent, got>>

ReadError(s) ==
    /\ pc[s].reader = "read" /\ ReadFails(s)
    /\ ReaderEnds(s, ht[s], "eof")
    /\ UNCHANGED <<cfg, sock, tr, kex, sent, got>>

(* Mutant: a packet that does not fit is dropped.                          *)
DeliverOrDrop(s) ==
    /\ pc[s].reader = "deliver"
    /\ SetHt(s, [ht[s] EXCEPT !.incoming =
          IF Len(@) < IncomingCap THEN @ \o kex[s].hand ELSE @])
    /\ kex' = [kex EXCEPT ![s].hand = <<>>]
    /\ Goto(s, "reader", Top(ht[s].readn))
    /\ UNCHANGED <<cfg, sock, tr, why, sent, got>>

(* t.incoming <- p blocks while the channel is full.                       *)
Deliver(s) ==
    /\ pc[s].reader = "deliver"
    /\ Len(ht[s].incoming) < IncomingCap
    /\ SetHt(s, [ht[s] EXCEPT !.incoming = @ \o kex[s].hand])
    /\ kex' = [kex EXCEPT ![s].hand = <<>>]
    /\ Goto(s, "reader", Top(ht[s].readn))
    /\ UNCHANGED <<cfg, sock, tr, why, sent, got>>

(* cond.Broadcast: whoever waits goes for the mutex again.                 *)
Broadcast(s) == [t \in Thread |-> IF pc[s][t] = "wait" THEN "relock" ELSE pc[s][t]]

(* The end of readLoop declares the writing part dead too.                 *)
readLoopEnds(s) ==
    /\ pc[s].reader = "end" /\ Free(s)
    /\ SetHt(s, [ht[s] EXCEPT !.writeErr = TRUE])
    /\ pc' = [pc EXCEPT ![s] = [Broadcast(s) EXCEPT !.reader = "done"]]
    /\ UNCHANGED <<cfg, sock, tr, kex, why, sent, got>>

-----------------------------------------------------------------------------
(* enterKeyExchangeLocked, by the reader, with mu held throughout.         *)

KexLock(s) ==
    /\ pc[s].reader = "kexLock" /\ Free(s)
    /\ SetHt(s, [ht[s] EXCEPT !.mu = "reader"])
    /\ Goto(s, "reader", IF s = "client" /\ cfg.hello THEN "kexDone" ELSE "kexInit")
    /\ UNCHANGED <<cfg, sock, tr, kex, why, sent, got>>

(* The connection is dropped; the rest of readOnePacket is in KexDone.     *)
KexFails(s, err) ==
    /\ why' = [why EXCEPT ![s] = err]
    /\ Goto(s, "reader", "kexFailed")

(* Our KEXINIT is answered or sent first; then the algorithms are agreed   *)
(* on and the script of the method begins.                                 *)
KexBegin(s) ==
    /\ pc[s].reader = "kexInit"
    /\ \E ok \in BOOLEAN, h \in {ht[s], Sent(s)} :
          /\ SendKexInit(s, h, ok)
          /\ SetHt(s, h)
          /\ kex' = [kex EXCEPT ![s].step = 1, ![s].hash = Hash(s, h.sentInit, kex[s].theirs)]
          /\ IF ~ok THEN KexFails(s, "write")
             ELSE IF Agreed = "" THEN KexFails(s, "algorithms")
             ELSE Goto(s, "reader", "kex") /\ UNCHANGED why
    /\ UNCHANGED <<cfg, sent, got>>

Step(s) == Script(s, Agreed)[kex[s].step]

Advance(s) ==
    /\ kex' = [kex EXCEPT ![s].step = @ + 1]
    /\ Goto(s, "reader", IF kex[s].step = Len(Script(s, Agreed)) THEN "kexDone" ELSE "kex")

KexWrite(s) ==
    /\ pc[s].reader = "kex" /\ Step(s).op \in {"write", "try"} /\ CanWrite(s)
    /\ PutPacket(s, Step(s).type, 0)
    /\ Advance(s)
    /\ UNCHANGED <<cfg, ht, why, sent, got>>

KexWriteError(s) ==
    /\ pc[s].reader = "kex" /\ Step(s).op \in {"write", "try"} /\ WriteFails(s)
    /\ IF Step(s).op = "try" THEN Advance(s) /\ UNCHANGED why
                             ELSE KexFails(s, "write") /\ UNCHANGED kex
    /\ UNCHANGED <<cfg, sock, tr, ht, sent, got>>

(* A value out of bounds is refused by either end; the client checks the   *)
(* reply's signature over its own hash, then the host key.                 *)
Verdict(s, m) ==
    IF ReadResult(s) \in Bad THEN ReadResult(s)
    ELSE IF m.type # Step(s).type THEN "unexpected"
    ELSE IF m.type = "newkeys" THEN ""
    ELSE IF ~cfg.honest[Peer(s)] THEN "value"
    ELSE IF m.type \notin Replies THEN ""
    ELSE IF m.hash # kex[s].hash THEN "signature"
    ELSE IF ~cfg.hostKeyKnown THEN "hostkey"
    ELSE ""

KexRead(s) ==
    /\ pc[s].reader = "kex" /\ Step(s).op = "read" /\ CanRead(s)
    /\ TakePacket(s)
    /\ LET v == Verdict(s, Head(Inbound(s)))
       IN  IF v = "" THEN Advance(s) /\ UNCHANGED why
                     ELSE KexFails(s, v) /\ UNCHANGED kex
    /\ UNCHANGED <<cfg, ht, sent, got>>

KexReadError(s) ==
    /\ pc[s].reader = "kex" /\ Step(s).op = "read" /\ ReadFails(s)
    /\ KexFails(s, "eof")
    /\ UNCHANGED <<cfg, sock, tr, ht, kex, sent, got>>

(* Mutant: both directions use the same key tags.                          *)
KexPrepareSameTags(s) ==
    /\ pc[s].reader = "kex" /\ Step(s).op = "prepare"
    /\ LET id == IF ht[s].session = NoHash THEN kex[s].hash ELSE ht[s].session
       IN  /\ SetHt(s, [ht[s] EXCEPT !.session = id])
           /\ tr' = [tr EXCEPT ![s].pendR = Key(s, kex[s].hash, id),
                               ![s].pendW = Key(s, kex[s].hash, id)]
    /\ Advance(s)
    /\ UNCHANGED <<cfg, sock, why, sent, got>>

(* The first hash becomes the session identifier, for good, and            *)
(* prepareKeyChange leaves a cipher for each direction.                    *)
KexPrepare(s) ==
    /\ pc[s].reader = "kex" /\ Step(s).op = "prepare"
    /\ LET id == IF ht[s].session = NoHash THEN kex[s].hash ELSE ht[s].session
       IN  /\ SetHt(s, [ht[s] EXCEPT !.session = id])
           /\ tr' = [tr EXCEPT ![s].pendR = Key(Peer(s), kex[s].hash, id),
                               ![s].pendW = Key(s, kex[s].hash, id)]
    /\ Advance(s)
    /\ UNCHANGED <<cfg, sock, why, sent, got>>

(* Mutant: the end of an exchange wakes nobody.                            *)
KexDoneQuietly(s) ==
    /\ pc[s].reader = "kexDone"
    /\ LET first == ht[s].session = NoHash \/ kex[s].hash = ht[s].session
       IN  /\ SetHt(s, [ht[s] EXCEPT !.sentInit = 0, !.written = 0, !.mu = NoOne, !.readn = 0])
           /\ kex' = [kex EXCEPT ![s] = [theirs |-> 0, step |-> 0, hash |-> NoHash,
                        hand |-> IF first THEN <<[type |-> "newkeys", n |-> 0]>> ELSE <<>>]]
           /\ Goto(s, "reader", IF first THEN "deliver" ELSE Top(0))
    /\ UNCHANGED <<cfg, sock, tr, why, sent, got>>

(* Writers are unblocked and mu released. A first exchange is reported to  *)
(* the main goroutine as NEWKEYS, a later one is hidden. With HelloOnly    *)
(* there was no exchange and every KEXINIT looks like the first.           *)
KexDone(s) ==
    /\ pc[s].reader = "kexDone"
    /\ LET first == ht[s].session = NoHash \/ kex[s].hash = ht[s].session
       IN  /\ SetHt(s, [ht[s] EXCEPT !.sentInit = 0, !.written = 0, !.mu = NoOne, !.readn = 0])
           /\ kex' = [kex EXCEPT ![s] = [theirs |-> 0, step |-> 0, hash |-> NoHash,
                        hand |-> IF first THEN <<[type |-> "newkeys", n |-> 0]>> ELSE <<>>]]
           /\ pc' = [pc EXCEPT ![s] = [Broadcast(s) EXCEPT
                        !.reader = IF first THEN "deliver" ELSE Top(0)]]
    /\ UNCHANGED <<cfg, sock, tr, why, sent, got>>

(* An error of the exchange drops the connection.                          *)
KexFailed(s) ==
    /\ pc[s].reader = "kexFailed"
    /\ CloseConn(s)
    /\ SetHt(s, [ht[s] EXCEPT !.writeErr = TRUE, !.sentInit = 0, !.written = 0,
                              !.mu = NoOne, !.closed = TRUE])
    /\ pc' = [pc EXCEPT ![s] = [Broadcast(s) EXCEPT !.reader = "end"]]
    /\ UNCHANGED <<cfg, tr, kex, why, sent, got>>

-----------------------------------------------------------------------------
(* The main goroutine: clientHandshake or serverHandshake up to the first  *)
(* key exchange, then the loop that consumes packets (authentication and   *)
(* afterwards mux.loop), which may answer what it reads.                   *)

(* requestInitialKeyChange; with HelloOnly the client skips it, and its    *)
(* one user, modules/ssh.go:121, drops the Client: nobody writes on it but *)
(* the loop that answers.                                                  *)
MainStart(s) ==
    /\ pc[s].main = "start"
    /\ IF s = "client" /\ cfg.hello
       THEN Goto(s, "main", "loop") /\ UNCHANGED ht
       ELSE /\ Free(s)
            /\ SetHt(s, [ht[s] EXCEPT !.mu = "main"])
            /\ Goto(s, "main", "firstInit")
    /\ UNCHANGED <<cfg, sock, tr, kex, why, sent, got>>

(* Nothing is sent when the reader has completed the exchange already.     *)
sendKexInit(s) ==
    /\ pc[s].main = "firstInit"
    /\ \E ok \in BOOLEAN, h \in {ht[s], Sent(s)} :
          /\ IF ht[s].session = NoHash THEN SendKexInit(s, h, ok)
             ELSE h = ht[s] /\ ok /\ UNCHANGED <<sock, tr>>
          /\ SetHt(s, [h EXCEPT !.mu = NoOne])
          /\ Goto(s, "main", IF ok THEN "newkeys" ELSE "close")
    /\ UNCHANGED <<cfg, kex, why, sent, got>>

(* The packet that says that the keys are in use; then the user may write. *)
MainKeyed(s) ==
    /\ pc[s].main = "newkeys"
    /\ \/ /\ ht[s].incoming # <<>>
          /\ SetHt(s, [ht[s] EXCEPT !.incoming = Tail(@)])
          /\ pc' = IF Head(ht[s].incoming).type = "newkeys"
                   THEN [pc EXCEPT ![s].main = "loop", ![s].writer = IF @ = "off" THEN "idle" ELSE @]
                   ELSE [pc EXCEPT ![s].main = "close"]
       \/ /\ ht[s].incoming = <<>> /\ ht[s].closed
          /\ Goto(s, "main", "close")
          /\ UNCHANGED ht
    /\ UNCHANGED <<cfg, sock, tr, kex, why, sent, got>>

(* One packet: it is answered, or not, or it ends the loop (a failed       *)
(* authentication, a packet the loop does not expect).                     *)
MainLoop(s) ==
    /\ pc[s].main = "loop" /\ ht[s].incoming # <<>>
    /\ SetHt(s, [ht[s] EXCEPT !.incoming = Tail(@)])
    /\ IF Head(ht[s].incoming).type = "newkeys"
       THEN Goto(s, "main", "close") /\ UNCHANGED got
       ELSE /\ got' = [got EXCEPT ![s] = @ + 1]
            /\ \E next \in {"loop", "close"} \cup (IF sent[s] < cfg.data[s] THEN {"lock"} ELSE {}) :
                  Goto(s, "main", next)
    /\ UNCHANGED <<cfg, sock, tr, kex, why, sent>>

MainLoopEnds(s) ==
    /\ pc[s].main = "loop" /\ ht[s].incoming = <<>> /\ ht[s].closed
    /\ Goto(s, "main", "close")
    /\ UNCHANGED <<cfg, sock, tr, ht, kex, why, sent, got>>

(* NewClientConn and NewServerConn close the connection on an error, the   *)
(* multiplexer's loop whenever it ends.                                    *)
MainClose(s) ==
    /\ pc[s].main = "close"
    /\ CloseConn(s)
    /\ Goto(s, "main", "done")
    /\ UNCHANGED <<cfg, tr, ht, kex, why, sent, got>>

-----------------------------------------------------------------------------
(* handshakeTransport.writePacket, by the main goroutine or a user's.      *)

UserWrites(s) ==
    /\ pc[s].writer = "idle" /\ sent[s] < cfg.data[s]
    /\ Goto(s, "writer", "lock")
    /\ UNCHANGED <<cfg, sock, tr, ht, kex, why, sent, got>>

Idle(t) == IF t = "main" THEN "loop" ELSE "idle"

(* The wait loop and what follows it, with h the transport under mu.       *)
WaitForKex(s, t, h) ==
    LET waits == h.sentInit # 0 /\ ~h.writeErr
    IN  /\ SetHt(s, IF waits \/ h.writeErr THEN [h EXCEPT !.mu = NoOne]
                     ELSE [h EXCEPT !.mu = t, !.written = @ + 1])
        /\ Goto(s, t, IF waits THEN "wait"
                      ELSE IF ~h.writeErr THEN "put"
                      ELSE IF t = "main" THEN "close" ELSE "failed")

WriteLock(s, t) ==
    /\ pc[s][t] \in {"lock", "relock"} /\ Free(s)
    /\ IF pc[s][t] = "lock" /\ ht[s].written > RekeyThreshold
       THEN SetHt(s, [ht[s] EXCEPT !.mu = t]) /\ Goto(s, t, "rekey")
       ELSE WaitForKex(s, t, ht[s])
    /\ UNCHANGED <<cfg, sock, tr, kex, why, sent, got>>

(* The error of sendKexInitLocked is dropped here.                         *)
WriteRekey(s, t) ==
    /\ pc[s][t] = "rekey"
    /\ \E ok \in BOOLEAN, h \in {ht[s], Sent(s)} :
          SendKexInit(s, h, ok) /\ WaitForKex(s, t, h)
    /\ UNCHANGED <<cfg, kex, why, sent, got>>

WritePut(s, t) ==
    /\ pc[s][t] = "put"
    /\ \/ /\ CanWrite(s)
          /\ sent' = [sent EXCEPT ![s] = @ + 1]
          /\ PutPacket(s, "data", sent[s] + 1)
          /\ Goto(s, t, Idle(t))
       \/ /\ WriteFails(s)
          /\ Goto(s, t, IF t = "main" THEN "close" ELSE "failed")
          /\ UNCHANGED <<sock, tr, sent>>
    /\ SetHt(s, [ht[s] EXCEPT !.mu = NoOne])
    /\ UNCHANGED <<cfg, kex, why, got>>

-----------------------------------------------------------------------------
ReaderStep(s) ==
    \/ RequestLock(s) \/ requestKeyChange(s) \/ readOnePacket(s) \/ ReadError(s)
    \/ Deliver(s) \/ readLoopEnds(s) \/ KexLock(s) \/ KexBegin(s) \/ KexWrite(s)
    \/ KexWriteError(s) \/ KexRead(s) \/ KexReadError(s) \/ KexPrepare(s)
    \/ KexDone(s) \/ KexFailed(s)

MainStep(s) ==
    \/ MainStart(s) \/ sendKexInit(s) \/ MainKeyed(s) \/ MainLoop(s)
    \/ MainLoopEnds(s) \/ MainClose(s)

WriteStep(s, t) == WriteLock(s, t) \/ WriteRekey(s, t) \/ WritePut(s, t)

Next ==
    \/ \E s \in Side :
          \/ ReaderStep(s) \/ MainStep(s) \/ UserWrites(s)
          \/ \E t \in {"main", "writer"} : WriteStep(s, t)
    \/ DeadlineExpires

Spec == Init /\ [][Next]_vars

(* As long as some goroutine can run, one does. What is written is         *)
(* bounded, so no step can be repeated for ever and nothing is assumed of  *)
(* the order in which goroutines run or obtain the mutex.                  *)
FairSpec == Spec /\ WF_vars(Next)

-----------------------------------------------------------------------------
(* Properties.                                                             *)

Writing == {"lock", "relock", "wait", "rekey", "put"}
Labels == [reader : {"reqLock", "reqInit", "read", "deliver", "end", "done", "kexLock",
                     "kexInit", "kex", "kexDone", "kexFailed"},
           main : {"start", "firstInit", "newkeys", "loop", "close", "done"} \cup Writing,
           writer : {"off", "idle", "failed"} \cup Writing]

(* The types of the two ends' state, the bounds of the channel and of the  *)
(* sockets, and mu held exactly by a goroutine inside its critical section *)
(* (sync.Mutex, handshake.go:68).                                          *)
TypeOK ==
    \A s \in Side :
      /\ pc[s] \in Labels
      /\ Len(sock[s].wire) <= WireCap /\ Len(ht[s].incoming) <= IncomingCap
      /\ ht[s].sentInit \in {0, ht[s].inits} /\ ht[s].readn \in Nat /\ ht[s].written \in Nat
      /\ Len(kex[s].hand) <= 1 /\ (kex[s].hand # <<>>) = (pc[s].reader = "deliver")
      /\ LET inside == {t \in Thread : pc[s][t] \in
                {"reqInit", "kexInit", "kex", "kexDone", "kexFailed", "firstInit", "rekey", "put"}}
         IN  inside = {ht[s].mu} \ {NoOne}

(* Whatever the goroutines' order and whoever starts a key exchange, the   *)
(* next packet of a direction is always encrypted with the key its reader  *)
(* holds: the two switches on NEWKEYS never come apart (transport.go:92).  *)
KeysInStep ==
    \A s \in Side : Inbound(s) # <<>> => Head(Inbound(s)).key = tr[s].reader

(* Between two ends of this library an exchange only fails for a reason of *)
(* its own: no bogus NEWKEYS, no unexpected packet inside an exchange, no  *)
(* missing key material. A signature is wrong only in a group exchange of  *)
(* ends with different limits, which each end hashes as its own            *)
(* (kex_gex.go:167 and 254).                                               *)
ErrorsAreHonest ==
    \A s \in Side :
      /\ why[s] \in {"", "eof", "write", "algorithms", "value", "hostkey", "signature"}
      /\ why[s] = "signature" => /\ Agreed = "gex"
                                 /\ cfg.bits["client"] # cfg.bits["server"]
      /\ ~tr[s].panic

(* Both ends have the same session identifier, and the keys of every later *)
(* exchange are derived from it (handshake.go:432).                        *)
SessionsAgree ==
    LET ids == {ht[s].session : s \in Side} \ {NoHash}
        keys == UNION {{tr[s].reader, tr[s].writer, tr[s].pendR, tr[s].pendW} : s \in Side}
    IN  /\ Cardinality(ids) <= 1
        /\ \A k \in keys \ {NoKey} : k.session \in ids

(* "the authentication process is guaranteed to happen over an encrypted   *)
(* transport" (handshake.go:210): what is written above the transport is   *)
(* never in the clear.                                                     *)
DataIsEncrypted ==
    \A s \in Side : \A i \in DOMAIN sock[s].wire :
      sock[s].wire[i].type = "data" => sock[s].wire[i].key # NoKey

(* The packets of q that were written above the transport are those from   *)
(* lo + 1 to hi, in order and once each.                                   *)
Carries(q, lo, hi) ==
    LET data == {i \in DOMAIN q : q[i].type = "data"}
    IN  /\ lo <= hi /\ \A i \in data : q[i].n \in lo + 1 .. hi
        /\ \A x \in lo + 1 .. hi : \E i \in data : q[i].n = x
        /\ \A i, j \in data : i < j => q[i].n < q[j].n

(* Packets reach the main goroutine once each and in the order they were   *)
(* written, key exchanges in between or not: what is in the channel, in    *)
(* the reader's hand and on the wire is what was sent and not taken.       *)
NothingLost ==
    \A s \in Side : \E a, b \in got[s] .. sent[Peer(s)] :
      /\ Carries(ht[s].incoming, got[s], a)
      /\ Carries(kex[s].hand, a, b)
      /\ Carries(Inbound(s), b, sent[Peer(s)])

(* Nobody waits on the condition once readLoop has ended (handshake.go:146 *)
(* to 152): a failed exchange or a read error wakes every writer.          *)
NobodyWaitsForTheDead ==
    \A s \in Side : pc[s].reader = "done" => \A t \in Thread : pc[s][t] # "wait"

(* The reader cannot deliver and so cannot read the packets of the         *)
(* exchange its own main goroutine, the channel's only consumer, is        *)
(* waiting for, or that would drain the socket the peer blocks on.         *)
LoopBlocked(s) ==
    /\ pc[s].reader = "deliver" /\ Len(ht[s].incoming) = IncomingCap
    /\ pc[s].main \in Writing

(* The main goroutine is gone and nobody takes what the reader delivers.   *)
ReaderLeaked(s) ==
    /\ pc[s].reader = "deliver" /\ Len(ht[s].incoming) = IncomingCap
    /\ pc[s].main = "done"

(* Each reader has stopped reading to write into a full socket, or waits   *)
(* for a mutex whose holder does, and only the other reader could drain it. *)
ReadersBlocked ==
    \A s \in Side : /\ pc[s].reader \in {"reqLock", "reqInit", "kexLock", "kexInit", "kex", "end"}
                    /\ Len(sock[s].wire) = WireCap

Blocked == ReadersBlocked \/ \E s \in Side : LoopBlocked(s) \/ ReaderLeaked(s)

AtRest(s) == /\ pc[s].reader \in {"read", "done"}
             /\ pc[s].main \in {"loop", "done"}
             /\ pc[s].writer \in {"off", "idle", "failed"}

(* Every writePacket returns and every key exchange that is asked for      *)
(* ends: once nothing more is written both ends come to rest, unless a     *)
(* loop blocks itself behind a full channel (handshake.go:143 against      *)
(* 317), a loop ended with the channel full, or both readers block in a    *)
(* write of a key exchange (handshake.go:157). There is no other hang.     *)
WritesReturn == <>[](Blocked \/ \A s \in Side : AtRest(s))

(* Dial's deadline (client.go:227) ends whatever the client was doing: its *)
(* reader stops, or hangs as a leaked one.                                 *)
DeadlineEnds ==
    cfg.timed ~> (pc["client"].reader = "done" \/ ReaderLeaked("client"))

(* Over any number of key exchanges, started by either end or by both at   *)
(* once, the ends use the same keys in the same places: the key of a       *)
(* packet is the one its reader holds, keys belong to the one session, and *)
(* no data goes in the clear.                                              *)
KeysAgree == TypeOK /\ KeysInStep /\ SessionsAgree /\ DataIsEncrypted

(* What a goroutine writes is delivered once and in order or its writer is *)
(* told: nothing is lost across a key exchange, no end fails for a reason  *)
(* that is not its own, and nobody waits for a loop that is over.          *)
PacketsDelivered == NothingLost /\ ErrorsAreHonest /\ NobodyWaitsForTheDead

(* Every call of the transport returns: writes when the exchange they wait *)
(* for ends, a handshake when its deadline passes.                         *)
TransportReturns == WritesReturn /\ DeadlineEnds
=============================================================================
