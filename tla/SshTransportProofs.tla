------------------------- MODULE SshTransportProofs -------------------------
(***************************************************************************)
(* Theorems about the SSH transport: for every pair of configurations, any *)
(* sizes of the channel and the sockets, any threshold and any number of   *)
(* key exchanges.                                                          *)
(*                                                                         *)
(* The invariant is a predicate on the state of one end, with that state   *)
(* as parameters (t, h, k, p, o and w for tr, ht, kex, pc, sock and why of *)
(* the end), and one on what is on the wire between a writer and a reader. *)
(***************************************************************************)
EXTENDS SshTransport, FiniteSetTheorems, SequenceTheorems, WellFoundedInduction, TLAPS

(* Exchanges are numbered by the KEXINITs of either end, and a key by the  *)
(* exchange it comes from: its epoch. Epoch 0 is in the clear.             *)
Epoch(key) == IF key = NoKey THEN 0 ELSE key.hash.client
HashOf(s, e) == Hash(s, e, e)
KeyOf(writer, s, e) == IF e = 0 THEN NoKey ELSE Key(writer, HashOf(s, e), HashOf(s, 1))
WEpoch(t) == Epoch(t.writer)
REpoch(t) == Epoch(t.reader)

(* A group exchange of ends with different limits: their hashes differ.    *)
Mismatch == Agreed = "gex" /\ cfg.bits["client"] # cfg.bits["server"]

(* The packets of an exchange from one end: KEXINIT, one or two messages   *)
(* of the method, NEWKEYS. The rank of a packet is its place among them.   *)
Rounds == IF Agreed = "gex" THEN 2 ELSE 1
Last == 2 * Rounds + 3
Methods(s) ==
    IF Agreed = "dh" THEN IF s = "client" THEN {"dhInit"} ELSE {"dhReply"}
    ELSE IF Agreed = "gex" THEN IF s = "client" THEN {"gexRequest", "gexInit"}
                                                ELSE {"gexGroup", "gexReply"}
    ELSE IF s = "client" THEN {"ecdhInit"} ELSE {"ecdhReply"}
Types(s) == {"data", "kexinit", "newkeys"} \cup Methods(s)
AllTypes == {"data", "kexinit", "newkeys", "dhInit", "ecdhInit", "gexRequest", "gexInit",
             "gexGroup"} \cup Replies
Rank(type) ==
    IF type = "data" THEN 0
    ELSE IF type = "kexinit" THEN 1
    ELSE IF type = "newkeys" THEN Rounds + 2
    ELSE IF type \in {"gexInit", "gexReply"} THEN 3 ELSE 2

(* The rank of the packet written, or read, last in the exchange that an   *)
(* end is in; 0 outside of one and after NEWKEYS.                          *)
Halves(n) == IF n <= 1 THEN 0 ELSE IF n <= 3 \/ Rounds = 1 THEN 1 ELSE 2
WrittenBy(s, n) ==
    IF n = Last THEN 0 ELSE 1 + Halves(IF s = "client" THEN n ELSE n - 1)
ReadBy(s, n) == 1 + Halves(IF s = "client" THEN n - 1 ELSE n)
WriteRank(s, h, k, p) ==
    IF p.reader = "kex" THEN WrittenBy(s, k.step)
    ELSE IF p.reader = "kexDone" \/ h.sentInit = 0 THEN 0 ELSE 1
ReadRank(s, k, p) ==
    IF p.reader = "kex" THEN ReadBy(s, k.step)
    ELSE IF p.reader \in {"kexLock", "kexInit"} THEN 1 ELSE 0

(* An end that still reads, and one whose writes are still in order.       *)
Ended == {"kexFailed", "end", "done"}
Reads(p, o) == o.open /\ p.reader \notin Ended /\ ~cfg.hello
Writes(p, o) == o.open /\ ~o.late /\ p.reader # "kexFailed"

-----------------------------------------------------------------------------
(* What is on the wire leads from where the reader is to where the writer  *)
(* is, in epochs always and in ranks while both are alive.                 *)
EpochAfter(m) == IF m.type = "newkeys" THEN Epoch(m.key) + 1 ELSE Epoch(m.key)
RankBefore(type) == IF type = "data" THEN 0 ELSE Rank(type) - 1
RankAfter(type) == IF type = "newkeys" THEN 0 ELSE Rank(type)

EpochsLead(q, from, to) ==
    /\ q = <<>> => from = to
    /\ q # <<>> => Epoch(q[1].key) = from /\ EpochAfter(q[Len(q)]) = to
    /\ \A i \in 1 .. Len(q) - 1 : EpochAfter(q[i]) = Epoch(q[i + 1].key)
RanksFrom(q, from) ==
    /\ q # <<>> => RankBefore(q[1].type) = from
    /\ \A i \in 1 .. Len(q) - 1 : RankAfter(q[i].type) = RankBefore(q[i + 1].type)
RanksTo(q, from, to) == IF q = <<>> THEN from = to ELSE RankAfter(q[Len(q)].type) = to

PacketOK(s, m) ==
    LET e == Epoch(m.key) IN
    /\ m.key = KeyOf(s, s, e)
    /\ m.type \in Types(s)
    /\ m.type = "kexinit" => m.n = e + 1
    /\ m.type = "data" => e # 0
    /\ m.type \in Replies => m.hash = HashOf(s, e + 1)
    /\ cfg.hello => m.type = "kexinit" /\ s = "server"
    /\ Mismatch /\ s = "client" => m.type # "newkeys"

(* q is what end s wrote; re, reads and rr are the epoch of its reader,    *)
(* whether it still reads and its rank, and we, writes and wr the writer's. *)
WireOK(s, q, re, reads, rr, we, writes, wr) ==
    /\ \A i \in 1 .. Len(q) : PacketOK(s, q[i])
    /\ EpochsLead(q, re, we)
    /\ reads => RanksFrom(q, rr) /\ (writes => RanksTo(q, rr, wr))

-----------------------------------------------------------------------------
Hashes == [client : Nat, server : Nat, bits : Nat]
Keys == [writer : Side, hash : Hashes, session : Hashes]
Packets == [type : AllTypes, key : Keys \cup {NoKey}, n : Nat,
            hash : Hashes \cup {NoHash}]
Delivered == [type : AllTypes, n : Nat]

Sockets == [open : BOOLEAN, late : BOOLEAN, wire : Seq(Packets)]
Ciphers == [reader : Keys \cup {NoKey}, writer : Keys \cup {NoKey},
            pendR : Keys \cup {NoKey}, pendW : Keys \cup {NoKey}, panic : BOOLEAN]
Handshakes == [mu : Thread \cup {NoOne}, sentInit : Nat, inits : Nat,
               session : Hashes \cup {NoHash}, written : Nat, readn : Nat,
               writeErr : BOOLEAN, incoming : Seq(Delivered), closed : BOOLEAN]
Exchanges == [theirs : Nat, step : Nat, hash : Hashes \cup {NoHash}, hand : Seq(Delivered)]

Inside == {"reqInit", "kexInit", "kex", "kexDone", "kexFailed", "firstInit", "rekey", "put"}

(* mu, the queues and the condition.                                       *)
LockOK(h, k, p, o) ==
    /\ p.reader \in Inside <=> h.mu = "reader"
    /\ p.main \in Inside <=> h.mu = "main"
    /\ p.writer \in Inside <=> h.mu = "writer"
    /\ Len(o.wire) <= WireCap /\ Len(h.incoming) <= IncomingCap
    /\ h.sentInit \in {0, h.inits}
    /\ Len(k.hand) <= 1 /\ (k.hand # <<>> <=> p.reader = "deliver")
    /\ p.main = "put" \/ p.writer = "put" => h.sentInit = 0
    /\ p.main = "wait" \/ p.writer = "wait" => ~h.writeErr
    /\ p.reader = "done" => h.writeErr

(* How an end may fail.                                                    *)
FailsOK(t, w) ==
    /\ w \in {"", "eof", "write", "algorithms", "value", "hostkey", "signature"}
    /\ w = "signature" => Mismatch
    /\ ~t.panic

(* The keys of an end.                                                     *)
KeysOK(s, t, h) ==
    /\ t.reader = KeyOf(Peer(s), s, REpoch(t)) /\ t.writer = KeyOf(s, s, WEpoch(t))
    /\ t.pendR \in {NoKey, KeyOf(Peer(s), s, REpoch(t) + 1)}
    /\ t.pendW \in {NoKey, KeyOf(s, s, WEpoch(t) + 1)}
    /\ h.session \in {NoHash, HashOf(s, 1)}
    /\ h.session = NoHash =>
         REpoch(t) = 0 /\ WEpoch(t) = 0 /\ t.pendR = NoKey /\ t.pendW = NoKey
    /\ Mismatch => REpoch(t) = 0
    /\ Mismatch /\ s = "client" => h.session = NoHash

(* Where the keys are at each place of an exchange.                        *)
ExchangeOK(s, t, h, k, p) ==
    /\ Agreed # "" /\ k.step \in 1 .. Last /\ h.sentInit # 0
    /\ k.hash = HashOf(s, REpoch(t) + 1)
    /\ WEpoch(t) = IF k.step = Last THEN REpoch(t) + 1 ELSE REpoch(t)
    /\ k.step >= Last - 1 => t.pendR # NoKey
    /\ k.step = Last - 1 => t.pendW # NoKey
    /\ Mismatch /\ s = "client" => k.step <= 2 * Rounds
PlaceOK(s, t, h, k, p, o) ==
    /\ p.reader \notin {"kex"} \cup Ended => WEpoch(t) = REpoch(t)
    /\ p.reader \notin Ended \/ Writes(p, o) =>
         h.inits = WEpoch(t) + (IF WriteRank(s, h, k, p) = 0 THEN 0 ELSE 1)
    /\ p.reader \in {"kexLock", "kexInit"} /\ ~cfg.hello => k.theirs = REpoch(t) + 1
    /\ p.reader = "kexDone" /\ ~cfg.hello => REpoch(t) # 0
    /\ p.reader = "kex" => ExchangeOK(s, t, h, k, p)

(* Nothing is written above the transport before the first exchange.       *)
MainOK(t, h, k, p) ==
    \/ cfg.hello
    \/ WEpoch(t) # 0
    \/ /\ h.incoming = <<>> /\ k.hand = <<>> /\ p.writer = "off"
       /\ p.main \in {"start", "firstInit", "newkeys", "close", "done"}

(* With HelloOnly the client only reads the server's KEXINIT.              *)
HelloOK(s, t, h, k, p, o) ==
    cfg.hello =>
      /\ WEpoch(t) = 0 /\ REpoch(t) = 0 /\ p.writer = "off" /\ h.session = NoHash
      /\ s = "client" => /\ o.wire = <<>> /\ h.sentInit = 0
                         /\ \A i \in 1 .. Len(h.incoming) : h.incoming[i].type = "newkeys"
                         /\ \A i \in 1 .. Len(k.hand) : k.hand[i].type = "newkeys"
                         /\ p.reader = "deliver" => h.readn = 0
                         /\ p.main \in {"start", "loop", "close", "done"}
                         /\ p.reader \in {"read", "kexLock", "kexDone", "deliver", "end", "done"}
      /\ s = "server" => /\ h.incoming = <<>>
                         /\ p.main \in {"start", "firstInit", "newkeys", "close", "done"}
                         /\ p.reader \in {"read", "end", "done"}

EndTyped(t, h, k, p, o) ==
    t \in Ciphers /\ h \in Handshakes /\ k \in Exchanges /\ p \in Labels /\ o \in Sockets
EndOK(s, t, h, k, p, o, w) ==
    /\ EndTyped(t, h, k, p, o) /\ LockOK(h, k, p, o) /\ FailsOK(t, w) /\ KeysOK(s, t, h)
    /\ PlaceOK(s, t, h, k, p, o) /\ MainOK(t, h, k, p) /\ HelloOK(s, t, h, k, p, o)

End(s) == EndOK(s, tr[s], ht[s], kex[s], pc[s], sock[s], why[s])
Wire(s) ==
    WireOK(s, sock[s].wire, REpoch(tr[Peer(s)]), Reads(pc[Peer(s)], sock[Peer(s)]),
           ReadRank(Peer(s), kex[Peer(s)], pc[Peer(s)]),
           WEpoch(tr[s]), Writes(pc[s], sock[s]), WriteRank(s, ht[s], kex[s], pc[s]))

Maps ==
    /\ DOMAIN sock = Side /\ DOMAIN tr = Side /\ DOMAIN ht = Side /\ DOMAIN kex = Side
    /\ DOMAIN pc = Side /\ DOMAIN why = Side /\ sent \in [Side -> Nat]
Inv == cfg \in Configs /\ Maps /\ \A s \in Side : End(s) /\ Wire(s)

-----------------------------------------------------------------------------
(* The ends, numbers, hashes and keys.                                     *)
LEMMA Sides ==
    ASSUME NEW s \in Side
    PROVE  /\ Peer(s) \in Side /\ Peer(s) # s /\ Peer(Peer(s)) = s
           /\ \A t \in Side : t = s \/ t = Peer(s)
BY DEF Side, Peer

LEMMA HashIsReal ==
    ASSUME NEW a, NEW b, NEW c
    PROVE  [client |-> a, server |-> b, bits |-> c] # NoHash
BY DEF NoHash

LEMMA KeyIsReal ==
    ASSUME NEW w, NEW h, NEW i
    PROVE  Key(w, h, i) # NoKey
BY DEF NoKey, Key

LEMMA Configured ==
    ASSUME cfg \in Configs
    PROVE  /\ \A s \in Side : /\ cfg.bits[s] \in Nat /\ cfg.honest[s] \in BOOLEAN
                              /\ cfg.data[s] \in Nat
           /\ cfg.hello \in BOOLEAN /\ cfg.timed \in BOOLEAN /\ cfg.hostKeyKnown \in BOOLEAN
BY TransportBounds DEF Config

LEMMA Hashed ==
    ASSUME cfg \in Configs, NEW s \in Side, NEW e \in Nat
    PROVE  /\ HashOf(s, e) \in Hashes /\ HashOf(s, e) # NoHash
           /\ HashOf(s, e).client = e
           /\ \A f \in Nat : HashOf(s, e) = HashOf(s, f) => e = f
           /\ ~Mismatch => HashOf(s, e) = HashOf(Peer(s), e)
           /\ Mismatch => HashOf(s, e) # HashOf(Peer(s), e)
<1>1. cfg.bits["client"] \in Nat /\ cfg.bits["server"] \in Nat
  BY Configured DEF Side
<1>2. HashOf(s, e) = [client |-> e, server |-> e,
                      bits |-> IF Agreed = "gex" THEN cfg.bits[s] ELSE 0]
  BY DEF HashOf, Hash
<1>3. HashOf(Peer(s), e) = [client |-> e, server |-> e,
                            bits |-> IF Agreed = "gex" THEN cfg.bits[Peer(s)] ELSE 0]
  BY DEF HashOf, Hash
<1>4. HashOf(s, e) # NoHash
  BY <1>2, HashIsReal
<1>5. HashOf(s, e) \in Hashes /\ HashOf(s, e).client = e
  BY <1>1, <1>2 DEF Hashes, Side
<1>6. \A f \in Nat : HashOf(s, e) = HashOf(s, f) => e = f
  BY <1>2 DEF HashOf, Hash
<1>7. /\ ~Mismatch => HashOf(s, e) = HashOf(Peer(s), e)
      /\ Mismatch => HashOf(s, e) # HashOf(Peer(s), e)
  BY <1>1, <1>2, <1>3 DEF Mismatch, Side, Peer
<1> QED BY <1>4, <1>5, <1>6, <1>7

LEMMA Keyed ==
    ASSUME cfg \in Configs, NEW w \in Side, NEW s \in Side, NEW e \in Nat
    PROVE  /\ KeyOf(w, s, e) \in Keys \cup {NoKey} /\ Epoch(KeyOf(w, s, e)) = e
           /\ KeyOf(w, s, e) = NoKey <=> e = 0
           /\ e # 0 => /\ KeyOf(w, s, e) = Key(w, HashOf(s, e), HashOf(s, 1))
                       /\ KeyOf(w, s, e).session = HashOf(s, 1)
           /\ ~Mismatch \/ e = 0 => KeyOf(w, s, e) = KeyOf(w, Peer(s), e)
<1>1. CASE e = 0
  BY <1>1 DEF KeyOf, Epoch
<1>2. CASE e # 0
  <2>1. KeyOf(w, s, e) = Key(w, HashOf(s, e), HashOf(s, 1)) /\ KeyOf(w, s, e) # NoKey
    BY <1>2, KeyIsReal DEF KeyOf
  <2>2. /\ HashOf(s, e) \in Hashes /\ HashOf(s, 1) \in Hashes /\ HashOf(s, e).client = e
        /\ ~Mismatch => HashOf(s, e) = HashOf(Peer(s), e) /\ HashOf(s, 1) = HashOf(Peer(s), 1)
    BY Hashed
  <2>3. /\ KeyOf(w, s, e) \in Keys /\ KeyOf(w, s, e).hash.client = e
        /\ KeyOf(w, s, e).session = HashOf(s, 1)
    BY <2>1, <2>2 DEF Keys, Key
  <2>4. ~Mismatch => KeyOf(w, s, e) = KeyOf(w, Peer(s), e)
    BY <1>2, <2>2 DEF KeyOf
  <2>5. Epoch(KeyOf(w, s, e)) = e
    BY <2>1, <2>3 DEF Epoch
  <2> QED BY <1>2, <2>1, <2>3, <2>4, <2>5
<1> QED BY <1>1, <1>2

LEMMA EpochIsNat ==
    ASSUME NEW k \in Keys \cup {NoKey}
    PROVE  Epoch(k) \in Nat
BY KeyIsReal DEF Epoch, Keys, Hashes

-----------------------------------------------------------------------------
(* Chains of packets.                                                      *)
LEMMA Appended ==
    ASSUME NEW S, NEW q \in Seq(S), NEW m \in S
    PROVE  /\ Append(q, m) \in Seq(S) /\ Append(q, m) # <<>>
           /\ Len(Append(q, m)) = Len(q) + 1 /\ Append(q, m)[Len(q) + 1] = m
           /\ \A i \in 1 .. Len(q) : Append(q, m)[i] = q[i]
           /\ DOMAIN Append(q, m) = 1 .. Len(q) + 1 /\ DOMAIN q = 1 .. Len(q)
           /\ Len(q) \in Nat /\ (q = <<>> <=> Len(q) = 0)
OBVIOUS

LEMMA Dropped ==
    ASSUME NEW S, NEW q \in Seq(S), q # <<>>
    PROVE  /\ Tail(q) \in Seq(S) /\ Head(q) = q[1] /\ q[1] \in S
           /\ Len(Tail(q)) = Len(q) - 1 /\ Len(q) \in Nat \ {0}
           /\ DOMAIN Tail(q) = 1 .. Len(q) - 1 /\ DOMAIN q = 1 .. Len(q)
           /\ \A i \in 1 .. Len(q) - 1 : Tail(q)[i] = q[i + 1]
           /\ Tail(q) = <<>> <=> Len(q) = 1
<1>1. /\ Tail(q) \in Seq(S) /\ Len(Tail(q)) = Len(q) - 1
      /\ \A i \in 1 .. Len(Tail(q)) : Tail(q)[i] = q[i + 1]
  BY HeadTailProperties
<1> QED BY <1>1

LEMMA EpochsAppend ==
    ASSUME NEW q \in Seq(Packets), NEW m \in Packets, NEW from, NEW to,
           EpochsLead(q, from, to), Epoch(m.key) = to
    PROVE  EpochsLead(Append(q, m), from, EpochAfter(m))
<1> DEFINE r == Append(q, m)
<1>1. /\ r # <<>> /\ Len(r) = Len(q) + 1 /\ r[Len(q) + 1] = m /\ Len(q) \in Nat
      /\ \A i \in 1 .. Len(q) : r[i] = q[i]
      /\ q = <<>> <=> Len(q) = 0
  BY Appended
<1> HIDE DEF r
<1>2. Epoch(r[1].key) = from /\ EpochAfter(r[Len(r)]) = EpochAfter(m)
  BY <1>1 DEF EpochsLead
<1>3. ASSUME NEW i \in 1 .. Len(r) - 1 PROVE EpochAfter(r[i]) = Epoch(r[i + 1].key)
  <2>1. CASE i = Len(q)
    BY <1>1, <2>1 DEF EpochsLead
  <2>2. CASE i # Len(q)
    <3>1. i \in 1 .. Len(q) - 1 /\ r[i] = q[i] /\ r[i + 1] = q[i + 1]
      BY <1>1, <2>2
    <3> QED BY <3>1 DEF EpochsLead
  <2> QED BY <2>1, <2>2
<1>4. EpochsLead(r, from, EpochAfter(m))
  BY <1>1, <1>2, <1>3 DEF EpochsLead
<1> QED BY <1>4 DEF r

LEMMA EpochsTail ==
    ASSUME NEW q \in Seq(Packets), q # <<>>, NEW from, NEW to, EpochsLead(q, from, to)
    PROVE  Epoch(Head(q).key) = from /\ EpochsLead(Tail(q), EpochAfter(Head(q)), to)
<1> DEFINE r == Tail(q)
<1>1. /\ Head(q) = q[1] /\ Len(r) = Len(q) - 1 /\ Len(q) \in Nat \ {0}
      /\ \A i \in 1 .. Len(q) - 1 : r[i] = q[i + 1]
      /\ r = <<>> <=> Len(q) = 1
  BY Dropped
<1> HIDE DEF r
<1>2. CASE Len(q) = 1
  <2>1. r = <<>> /\ Len(r) - 1 = -1
    BY <1>1, <1>2
  <2>2. EpochAfter(Head(q)) = to
    BY <1>1, <1>2 DEF EpochsLead
  <2>3. EpochsLead(r, EpochAfter(Head(q)), to)
    BY <2>1, <2>2 DEF EpochsLead
  <2> QED BY <1>1, <2>3 DEF EpochsLead, r
<1>3. CASE Len(q) # 1
  <2>1. r # <<>> /\ r[1] = q[2] /\ r[Len(r)] = q[Len(q)] /\ 1 \in 1 .. Len(q) - 1
    BY <1>1, <1>3
  <2>2. EpochAfter(q[1]) = Epoch(q[1 + 1].key)
    BY <2>1 DEF EpochsLead
  <2>3. Epoch(r[1].key) = EpochAfter(Head(q)) /\ EpochAfter(r[Len(r)]) = to
    BY <1>1, <2>1, <2>2 DEF EpochsLead
  <2>4. ASSUME NEW i \in 1 .. Len(r) - 1 PROVE EpochAfter(r[i]) = Epoch(r[i + 1].key)
    <3>1. i + 1 \in 1 .. Len(q) - 1 /\ r[i] = q[i + 1] /\ r[i + 1] = q[(i + 1) + 1]
      BY <1>1
    <3> QED BY <3>1 DEF EpochsLead
  <2>5. EpochsLead(r, EpochAfter(Head(q)), to)
    BY <2>1, <2>3, <2>4 DEF EpochsLead
  <2> QED BY <1>1, <2>5 DEF EpochsLead, r
<1> QED BY <1>2, <1>3

LEMMA RanksAppend ==
    ASSUME NEW q \in Seq(Packets), NEW m \in Packets, NEW from, NEW to,
           RanksFrom(q, from), RanksTo(q, from, to), RankBefore(m.type) = to
    PROVE  RanksFrom(Append(q, m), from) /\ RanksTo(Append(q, m), from, RankAfter(m.type))
<1> DEFINE r == Append(q, m)
<1>1. /\ r # <<>> /\ Len(r) = Len(q) + 1 /\ r[Len(q) + 1] = m /\ Len(q) \in Nat
      /\ \A i \in 1 .. Len(q) : r[i] = q[i]
      /\ q = <<>> <=> Len(q) = 0
  BY Appended
<1> HIDE DEF r
<1>2. RankBefore(r[1].type) = from /\ RanksTo(r, from, RankAfter(m.type))
  BY <1>1 DEF RanksFrom, RanksTo
<1>3. ASSUME NEW i \in 1 .. Len(r) - 1 PROVE RankAfter(r[i].type) = RankBefore(r[i + 1].type)
  <2>1. CASE i = Len(q)
    BY <1>1, <2>1 DEF RanksTo
  <2>2. CASE i # Len(q)
    <3>1. i \in 1 .. Len(q) - 1 /\ r[i] = q[i] /\ r[i + 1] = q[i + 1]
      BY <1>1, <2>2
    <3> QED BY <3>1 DEF RanksFrom
  <2> QED BY <2>1, <2>2
<1>4. RanksFrom(r, from)
  BY <1>1, <1>2, <1>3 DEF RanksFrom
<1> QED BY <1>2, <1>4 DEF r

LEMMA RanksTail ==
    ASSUME NEW q \in Seq(Packets), q # <<>>, NEW from, RanksFrom(q, from)
    PROVE  /\ RankBefore(Head(q).type) = from /\ RanksFrom(Tail(q), RankAfter(Head(q).type))
           /\ \A to : RanksTo(q, from, to) => RanksTo(Tail(q), RankAfter(Head(q).type), to)
<1> DEFINE r == Tail(q)
<1>1. /\ Head(q) = q[1] /\ Len(r) = Len(q) - 1 /\ Len(q) \in Nat \ {0}
      /\ \A i \in 1 .. Len(q) - 1 : r[i] = q[i + 1]
      /\ r = <<>> <=> Len(q) = 1
  BY Dropped
<1> HIDE DEF r
<1>2. RankBefore(Head(q).type) = from
  BY <1>1 DEF RanksFrom
<1>3. \A to : RanksTo(q, from, to) => RanksTo(r, RankAfter(Head(q).type), to)
  <2>1. CASE Len(q) = 1
    BY <1>1, <2>1 DEF RanksTo
  <2>2. CASE Len(q) # 1
    <3>1. r # <<>> /\ r[Len(r)] = q[Len(q)]
      BY <1>1, <2>2
    <3> QED BY <3>1 DEF RanksTo
  <2> QED BY <2>1, <2>2
<1>4. r # <<>> => RankBefore(r[1].type) = RankAfter(Head(q).type)
  <2> SUFFICES ASSUME r # <<>> PROVE RankBefore(r[1].type) = RankAfter(Head(q).type)
    OBVIOUS
  <2>1. 1 \in 1 .. Len(q) - 1 /\ r[1] = q[1 + 1]
    BY <1>1
  <2> QED BY <1>1, <2>1 DEF RanksFrom
<1>5. ASSUME NEW i \in 1 .. Len(r) - 1 PROVE RankAfter(r[i].type) = RankBefore(r[i + 1].type)
  <2>1. i + 1 \in 1 .. Len(q) - 1 /\ r[i] = q[i + 1] /\ r[i + 1] = q[(i + 1) + 1]
    BY <1>1
  <2> QED BY <2>1 DEF RanksFrom
<1>6. RanksFrom(r, RankAfter(Head(q).type))
  BY <1>4, <1>5 DEF RanksFrom
<1> QED BY <1>2, <1>3, <1>6 DEF r

-----------------------------------------------------------------------------
(* The scripts of the methods.                                             *)
Algorithms == {"dh", "ecdh", "curve25519", "gex"}

LEMMA LeastExists ==
    ASSUME NEW n \in Nat, NEW T, T \subseteq 1 .. n, T # {}
    PROVE  \E i \in T : \A j \in T : i <= j
<1>1. T \subseteq Nat
  OBVIOUS
<1>2. PICK i \in T : \A j \in T : ~(<<j, i>> \in OpToRel(<, Nat))
  BY <1>1, WFMin, NatLessThanWellFounded, Zenon
<1>3. ASSUME NEW j \in T PROVE i <= j
  <2>1. i \in Nat /\ j \in Nat
    BY <1>1
  <2>2. ~(j < i)
    BY <1>2, <2>1 DEF OpToRel
  <2> QED BY <2>1, <2>2
<1> QED BY <1>3

LEMMA AgreedIs == ASSUME cfg \in Configs PROVE Agreed \in Algorithms \cup {""}
<1>1. cfg.offer \in [Side -> Seq(Algorithms)]
  BY TransportBounds DEF Config, Algorithms
<1>2. PICK c \in Seq(Algorithms), d \in Seq(Algorithms) :
        c = cfg.offer["client"] /\ d = cfg.offer["server"]
  BY <1>1 DEF Side
<1>3. Agreed = findCommon(c, d)
  BY <1>2 DEF Agreed
<1>4. DEFINE both == {i \in DOMAIN c : \E j \in DOMAIN d : c[i] = d[j]}
<1>5. CASE both = {}
  BY <1>3, <1>5 DEF findCommon
<1>6. CASE both # {}
  <2>1. both \subseteq 1 .. Len(c) /\ Len(c) \in Nat /\ \A i \in both : c[i] \in Algorithms
    OBVIOUS
  <2>2. \E i \in both : \A j \in both : i <= j
    BY <1>6, <2>1, LeastExists
  <2>3. PICK k : k = CHOOSE i \in both : \A j \in both : i <= j
    OBVIOUS
  <2>4. k \in both
    BY <2>2, <2>3
  <2>5. Agreed = c[k]
    BY <1>3, <1>6, <2>3 DEF findCommon
  <2> QED BY <2>1, <2>4, <2>5
<1> QED BY <1>5, <1>6

LEMMA ShortScript ==
    ASSUME NEW a, NEW b, NEW x, NEW y, NEW z, NEW q, q = <<a, b>> \o <<x, y, z>>
    PROVE  Len(q) = 5 /\ q[1] = a /\ q[2] = b /\ q[3] = x /\ q[4] = y /\ q[5] = z
<1>1. <<a, b>> \in Seq({a, b, x, y, z}) /\ <<x, y, z>> \in Seq({a, b, x, y, z})
  OBVIOUS
<1> QED BY <1>1, ConcatProperties

LEMMA LongScript ==
    ASSUME NEW a, NEW b, NEW c, NEW d, NEW x, NEW y, NEW z, NEW q,
           q = <<a, b, c, d>> \o <<x, y, z>>
    PROVE  /\ Len(q) = 7 /\ q[1] = a /\ q[2] = b /\ q[3] = c /\ q[4] = d
           /\ q[5] = x /\ q[6] = y /\ q[7] = z
<1>1. <<a, b, c, d>> \in Seq({a, b, c, d, x, y, z}) /\ <<x, y, z>> \in Seq({a, b, c, d, x, y, z})
  OBVIOUS
<1> QED BY <1>1, ConcatProperties

(* What a step of a script writes or reads, and how the ranks of the end   *)
(* move with it.                                                           *)
PrepareOK(s, n) ==
    n = Last - 2 /\ ReadBy(s, n + 1) = ReadBy(s, n) /\ WrittenBy(s, n + 1) = WrittenBy(s, n)
WriteOK(s, n, type) ==
    /\ n # Last /\ n # Last - 2 /\ type \in Methods(s) \cup {"newkeys"}
    /\ type = "newkeys" <=> n = Last - 1
    /\ s = "client" => n # 2 * Rounds
    /\ WrittenBy(s, n) # 0 /\ RankBefore(type) = WrittenBy(s, n)
    /\ type # "newkeys" => WrittenBy(s, n + 1) # 0
    /\ RankAfter(type) = WrittenBy(s, n + 1) /\ ReadBy(s, n + 1) = ReadBy(s, n)
ReadOK(s, n, type) ==
    /\ n # Last - 1 /\ n # Last - 2 /\ type \in Methods(Peer(s)) \cup {"newkeys"}
    /\ type = "newkeys" <=> n = Last
    /\ s = "client" /\ n = 2 * Rounds => type \in Replies
    /\ n # Last => /\ RankAfter(type) = ReadBy(s, n + 1)
                   /\ WrittenBy(s, n + 1) = WrittenBy(s, n)
    /\ \A x \in Types(Peer(s)) : RankBefore(x) = ReadBy(s, n) => x = type
StepOK(s, n, st) ==
    \/ st.op = "prepare" /\ PrepareOK(s, n)
    \/ st.op = "write" /\ WriteOK(s, n, st.type)
    \/ st.op = "try" /\ WriteOK(s, n, st.type) /\ st.type # "newkeys"
    \/ st.op = "read" /\ ReadOK(s, n, st.type)

LEMMA StepKinds ==
    ASSUME NEW s, NEW n, NEW type
    PROVE  /\ WriteOK(s, n, type) => StepOK(s, n, Write(type))
           /\ WriteOK(s, n, type) /\ type # "newkeys" => StepOK(s, n, Try(type))
           /\ ReadOK(s, n, type) => StepOK(s, n, Read(type))
           /\ PrepareOK(s, n) => StepOK(s, n, [op |-> "prepare", type |-> ""])
BY DEF StepOK, Write, Try, Read

LEMMA ShortSteps ==
    ASSUME cfg \in Configs, Agreed \in {"dh", "ecdh", "curve25519"},
           NEW s \in Side, NEW n \in 1 .. 5
    PROVE  Len(Script(s, Agreed)) = 5 /\ StepOK(s, n, Script(s, Agreed)[n])
<1>1. PICK a, b, c : /\ a = IF Agreed = "dh" THEN "dhInit" ELSE "ecdhInit"
                     /\ b = IF Agreed = "dh" THEN "dhReply" ELSE "ecdhReply"
                     /\ c = IF Agreed = "dh" THEN Try(b) ELSE Write(b)
  OBVIOUS
<1>2. /\ kexAlgoMap[Agreed]["client"] = <<Write(a), Read(b)>>
      /\ kexAlgoMap[Agreed]["server"] = <<Read(a), c>>
  BY <1>1 DEF kexAlgoMap, dhClient, dhServer, ecdhClient, ecdhServer, curve25519Client,
              curve25519Server
<1>3. Rounds = 1 /\ Last = 5
  BY DEF Rounds, Last
<1>4. /\ Methods("client") = {a} /\ Methods("server") = {b} /\ b \in Replies
      /\ a \notin {"data", "kexinit", "newkeys", "gexInit", "gexReply"}
      /\ b \notin {"data", "kexinit", "newkeys", "gexInit", "gexReply"}
  BY <1>1 DEF Methods, Replies
<1>5. /\ RankBefore(a) = 1 /\ RankBefore(b) = 1 /\ RankBefore("newkeys") = 2
      /\ RankBefore("kexinit") = 0 /\ RankBefore("data") = 0
      /\ RankAfter(a) = 2 /\ RankAfter(b) = 2 /\ RankAfter("newkeys") = 0
  BY <1>3, <1>4 DEF Rank, RankBefore, RankAfter
<1>6. CASE s = "client"
  <2> DEFINE x == [op |-> "prepare", type |-> ""]
             y == Write("newkeys")
             z == Read("newkeys")
  <2>1. PICK q : q = Script(s, Agreed)
    OBVIOUS
  <2>2. q = <<Write(a), Read(b)>> \o <<x, y, z>>
    BY <1>2, <1>6, <2>1 DEF Script
  <2> HIDE DEF x, y, z
  <2>3. /\ Len(q) = 5 /\ q[1] = Write(a) /\ q[2] = Read(b) /\ q[3] = x /\ q[4] = y
        /\ q[5] = z
    BY <2>2, ShortScript
  <2>4. /\ WrittenBy(s, 1) = 1 /\ WrittenBy(s, 2) = 2 /\ WrittenBy(s, 3) = 2
        /\ WrittenBy(s, 4) = 2 /\ WrittenBy(s, 5) = 0
        /\ ReadBy(s, 1) = 1 /\ ReadBy(s, 2) = 1 /\ ReadBy(s, 3) = 2 /\ ReadBy(s, 4) = 2
        /\ ReadBy(s, 5) = 2
    BY <1>3, <1>6 DEF WrittenBy, ReadBy, Halves
  <2>5. WriteOK(s, 1, a)
    BY <1>3, <1>4, <1>5, <1>6, <2>4 DEF WriteOK, Types, Peer
  <2>6. ReadOK(s, 2, b)
    BY <1>3, <1>4, <1>5, <1>6, <2>4 DEF ReadOK, Types, Peer
  <2>7. PrepareOK(s, 3)
    BY <1>3, <2>4 DEF PrepareOK
  <2>8. WriteOK(s, 4, "newkeys")
    BY <1>3, <1>4, <1>5, <1>6, <2>4 DEF WriteOK, Types, Peer
  <2>9. ReadOK(s, 5, "newkeys")
    BY <1>3, <1>4, <1>5, <1>6, <2>4 DEF ReadOK, Types, Peer
  <2>10. StepOK(s, 1, q[1])
    BY <2>3, <2>5, StepKinds DEF x, y, z
  <2>11. StepOK(s, 2, q[2])
    BY <2>3, <2>6, StepKinds DEF x, y, z
  <2>12. StepOK(s, 3, q[3])
    BY <2>3, <2>7, StepKinds DEF x, y, z
  <2>13. StepOK(s, 4, q[4])
    BY <2>3, <2>8, StepKinds DEF x, y, z
  <2>14. StepOK(s, 5, q[5])
    BY <2>3, <2>9, StepKinds DEF x, y, z
  <2> QED BY <2>1, <2>3, <2>10, <2>11, <2>12, <2>13, <2>14
<1>7. CASE s = "server"
  <2> DEFINE x == [op |-> "prepare", type |-> ""]
             y == Write("newkeys")
             z == Read("newkeys")
  <2>1. PICK q : q = Script(s, Agreed)
    OBVIOUS
  <2>2. q = <<Read(a), c>> \o <<x, y, z>>
    BY <1>2, <1>7, <2>1 DEF Script
  <2> HIDE DEF x, y, z
  <2>3. /\ Len(q) = 5 /\ q[1] = Read(a) /\ q[2] = c /\ q[3] = x /\ q[4] = y /\ q[5] = z
    BY <2>2, ShortScript
  <2>4. /\ WrittenBy(s, 1) = 1 /\ WrittenBy(s, 2) = 1 /\ WrittenBy(s, 3) = 2
        /\ WrittenBy(s, 4) = 2 /\ WrittenBy(s, 5) = 0
        /\ ReadBy(s, 1) = 1 /\ ReadBy(s, 2) = 2 /\ ReadBy(s, 3) = 2 /\ ReadBy(s, 4) = 2
        /\ ReadBy(s, 5) = 2
    BY <1>3, <1>7 DEF WrittenBy, ReadBy, Halves
  <2>5. ReadOK(s, 1, a)
    BY <1>3, <1>4, <1>5, <1>7, <2>4 DEF ReadOK, Types, Peer
  <2>6. WriteOK(s, 2, b)
    BY <1>3, <1>4, <1>5, <1>7, <2>4 DEF WriteOK, Types, Peer
  <2>7. PrepareOK(s, 3)
    BY <1>3, <2>4 DEF PrepareOK
  <2>8. WriteOK(s, 4, "newkeys")
    BY <1>3, <1>4, <1>5, <1>7, <2>4 DEF WriteOK, Types, Peer
  <2>9. ReadOK(s, 5, "newkeys")
    BY <1>3, <1>4, <1>5, <1>7, <2>4 DEF ReadOK, Types, Peer
  <2>10. StepOK(s, 1, q[1])
    BY <2>3, <2>5, StepKinds DEF x, y, z
  <2>11. StepOK(s, 2, q[2])
    <3>1. StepOK(s, 2, Try(b)) /\ StepOK(s, 2, Write(b))
      BY <1>4, <2>6, StepKinds
    <3> QED BY <1>1, <2>3, <3>1
  <2>12. StepOK(s, 3, q[3])
    BY <2>3, <2>7, StepKinds DEF x, y, z
  <2>13. StepOK(s, 4, q[4])
    BY <2>3, <2>8, StepKinds DEF x, y, z
  <2>14. StepOK(s, 5, q[5])
    BY <2>3, <2>9, StepKinds DEF x, y, z
  <2> QED BY <2>1, <2>3, <2>10, <2>11, <2>12, <2>13, <2>14
<1> QED BY <1>6, <1>7 DEF Side

LEMMA LongSteps ==
    ASSUME cfg \in Configs, Agreed = "gex", NEW s \in Side, NEW n \in 1 .. 7
    PROVE  Len(Script(s, Agreed)) = 7 /\ StepOK(s, n, Script(s, Agreed)[n])
<1>2. /\ kexAlgoMap[Agreed]["client"] = <<Write("gexRequest"), Read("gexGroup"),
                                          Write("gexInit"), Read("gexReply")>>
      /\ kexAlgoMap[Agreed]["server"] = <<Read("gexRequest"), Write("gexGroup"),
                                          Read("gexInit"), Try("gexReply")>>
  BY DEF kexAlgoMap, gexClient, gexServer
<1>3. Rounds = 2 /\ Last = 7
  BY DEF Rounds, Last
<1>4. /\ Methods("client") = {"gexRequest", "gexInit"}
      /\ Methods("server") = {"gexGroup", "gexReply"}
      /\ "gexReply" \in Replies /\ "gexReply" # "newkeys"
  BY DEF Methods, Replies
<1>5. /\ RankBefore("gexRequest") = 1 /\ RankBefore("gexGroup") = 1
      /\ RankBefore("gexInit") = 2 /\ RankBefore("gexReply") = 2
      /\ RankBefore("newkeys") = 3 /\ RankBefore("kexinit") = 0 /\ RankBefore("data") = 0
      /\ RankAfter("gexRequest") = 2 /\ RankAfter("gexGroup") = 2
      /\ RankAfter("gexInit") = 3 /\ RankAfter("gexReply") = 3 /\ RankAfter("newkeys") = 0
  BY <1>3 DEF Rank, RankBefore, RankAfter
<1>6. CASE s = "client"
  <2> DEFINE x == [op |-> "prepare", type |-> ""]
             y == Write("newkeys")
             z == Read("newkeys")
  <2>1. PICK q : q = Script(s, Agreed)
    OBVIOUS
  <2>2. q = <<Write("gexRequest"), Read("gexGroup"), Write("gexInit"), Read("gexReply")>>
            \o <<x, y, z>>
    BY <1>2, <1>6, <2>1 DEF Script
  <2> HIDE DEF x, y, z
  <2>3. /\ Len(q) = 7 /\ q[1] = Write("gexRequest") /\ q[2] = Read("gexGroup")
        /\ q[3] = Write("gexInit") /\ q[4] = Read("gexReply") /\ q[5] = x /\ q[6] = y
        /\ q[7] = z
    BY <2>2, LongScript
  <2>4. /\ WrittenBy(s, 1) = 1 /\ WrittenBy(s, 2) = 2 /\ WrittenBy(s, 3) = 2
        /\ WrittenBy(s, 4) = 3 /\ WrittenBy(s, 5) = 3 /\ WrittenBy(s, 6) = 3
        /\ WrittenBy(s, 7) = 0
        /\ ReadBy(s, 1) = 1 /\ ReadBy(s, 2) = 1 /\ ReadBy(s, 3) = 2 /\ ReadBy(s, 4) = 2
        /\ ReadBy(s, 5) = 3 /\ ReadBy(s, 6) = 3 /\ ReadBy(s, 7) = 3
    BY <1>3, <1>6 DEF WrittenBy, ReadBy, Halves
  <2>5. WriteOK(s, 1, "gexRequest")
    BY <1>3, <1>4, <1>5, <1>6, <2>4 DEF WriteOK, Types, Peer
  <2>6. ReadOK(s, 2, "gexGroup")
    BY <1>3, <1>4, <1>5, <1>6, <2>4 DEF ReadOK, Types, Peer
  <2>7. WriteOK(s, 3, "gexInit")
    BY <1>3, <1>4, <1>5, <1>6, <2>4 DEF WriteOK, Types, Peer
  <2>8. ReadOK(s, 4, "gexReply")
    BY <1>3, <1>4, <1>5, <1>6, <2>4 DEF ReadOK, Types, Peer
  <2>9. PrepareOK(s, 5)
    BY <1>3, <2>4 DEF PrepareOK
  <2>10. WriteOK(s, 6, "newkeys")
    BY <1>3, <1>4, <1>5, <1>6, <2>4 DEF WriteOK, Types, Peer
  <2>11. ReadOK(s, 7, "newkeys")
    BY <1>3, <1>4, <1>5, <1>6, <2>4 DEF ReadOK, Types, Peer
  <2>12. StepOK(s, 1, q[1])
    BY <2>3, <2>5, StepKinds DEF x, y, z
  <2>13. StepOK(s, 2, q[2])
    BY <2>3, <2>6, StepKinds DEF x, y, z
  <2>14. StepOK(s, 3, q[3])
    BY <2>3, <2>7, StepKinds DEF x, y, z
  <2>15. StepOK(s, 4, q[4])
    BY <2>3, <2>8, StepKinds DEF x, y, z
  <2>16. StepOK(s, 5, q[5])
    BY <2>3, <2>9, StepKinds DEF x, y, z
  <2>17. StepOK(s, 6, q[6])
    BY <2>3, <2>10, StepKinds DEF x, y, z
  <2>18. StepOK(s, 7, q[7])
    BY <2>3, <2>11, StepKinds DEF x, y, z
  <2> QED BY <2>1, <2>3, <2>12, <2>13, <2>14, <2>15, <2>16, <2>17, <2>18
<1>7. CASE s = "server"
  <2> DEFINE x == [op |-> "prepare", type |-> ""]
             y == Write("newkeys")
             z == Read("newkeys")
  <2>1. PICK q : q = Script(s, Agreed)
    OBVIOUS
  <2>2. q = <<Read("gexRequest"), Write("gexGroup"), Read("gexInit"), Try("gexReply")>>
            \o <<x, y, z>>
    BY <1>2, <1>7, <2>1 DEF Script
  <2> HIDE DEF x, y, z
  <2>3. /\ Len(q) = 7 /\ q[1] = Read("gexRequest") /\ q[2] = Write("gexGroup")
        /\ q[3] = Read("gexInit") /\ q[4] = Try("gexReply") /\ q[5] = x /\ q[6] = y
        /\ q[7] = z
    BY <2>2, LongScript
  <2>4. /\ WrittenBy(s, 1) = 1 /\ WrittenBy(s, 2) = 1 /\ WrittenBy(s, 3) = 2
        /\ WrittenBy(s, 4) = 2 /\ WrittenBy(s, 5) = 3 /\ WrittenBy(s, 6) = 3
        /\ WrittenBy(s, 7) = 0
        /\ ReadBy(s, 1) = 1 /\ ReadBy(s, 2) = 2 /\ ReadBy(s, 3) = 2 /\ ReadBy(s, 4) = 3
        /\ ReadBy(s, 5) = 3 /\ ReadBy(s, 6) = 3 /\ ReadBy(s, 7) = 3
    BY <1>3, <1>7 DEF WrittenBy, ReadBy, Halves
  <2>5. ReadOK(s, 1, "gexRequest")
    BY <1>3, <1>4, <1>5, <1>7, <2>4 DEF ReadOK, Types, Peer
  <2>6. WriteOK(s, 2, "gexGroup")
    BY <1>3, <1>4, <1>5, <1>7, <2>4 DEF WriteOK, Types, Peer
  <2>7. ReadOK(s, 3, "gexInit")
    BY <1>3, <1>4, <1>5, <1>7, <2>4 DEF ReadOK, Types, Peer
  <2>8. WriteOK(s, 4, "gexReply")
    BY <1>3, <1>4, <1>5, <1>7, <2>4 DEF WriteOK, Types, Peer
  <2>9. PrepareOK(s, 5)
    BY <1>3, <2>4 DEF PrepareOK
  <2>10. WriteOK(s, 6, "newkeys")
    BY <1>3, <1>4, <1>5, <1>7, <2>4 DEF WriteOK, Types, Peer
  <2>11. ReadOK(s, 7, "newkeys")
    BY <1>3, <1>4, <1>5, <1>7, <2>4 DEF ReadOK, Types, Peer
  <2>12. StepOK(s, 1, q[1])
    BY <2>3, <2>5, StepKinds DEF x, y, z
  <2>13. StepOK(s, 2, q[2])
    BY <2>3, <2>6, StepKinds DEF x, y, z
  <2>14. StepOK(s, 3, q[3])
    BY <2>3, <2>7, StepKinds DEF x, y, z
  <2>15. StepOK(s, 4, q[4])
    BY <1>4, <2>3, <2>8, StepKinds DEF x, y, z
  <2>16. StepOK(s, 5, q[5])
    BY <2>3, <2>9, StepKinds DEF x, y, z
  <2>17. StepOK(s, 6, q[6])
    BY <2>3, <2>10, StepKinds DEF x, y, z
  <2>18. StepOK(s, 7, q[7])
    BY <2>3, <2>11, StepKinds DEF x, y, z
  <2> QED BY <2>1, <2>3, <2>12, <2>13, <2>14, <2>15, <2>16, <2>17, <2>18
<1> QED BY <1>6, <1>7 DEF Side

LEMMA LastIs ==
    /\ Agreed = "gex" => Rounds = 2 /\ Last = 7
    /\ Agreed # "gex" => Rounds = 1 /\ Last = 5
<1>1. /\ Agreed = "gex" => Rounds = 2
      /\ Agreed # "gex" => Rounds = 1
  BY DEF Rounds
<1> QED BY <1>1 DEF Last

LEMMA Steps ==
    ASSUME cfg \in Configs, Agreed # "", NEW s \in Side, NEW n \in 1 .. Last
    PROVE  Len(Script(s, Agreed)) = Last /\ StepOK(s, n, Script(s, Agreed)[n])
<1>1. Agreed \in Algorithms
  BY AgreedIs
<1>2. CASE Agreed = "gex"
  BY <1>2, LastIs, LongSteps
<1>3. CASE Agreed # "gex"
  <2>1. Agreed \in {"dh", "ecdh", "curve25519"}
    BY <1>1, <1>3 DEF Algorithms
  <2> QED BY <1>3, <2>1, LastIs, ShortSteps
<1> QED BY <1>2, <1>3
-----------------------------------------------------------------------------
(* How a step changes what is on the wire: one packet more, one less.      *)
LEMMA Put ==
    ASSUME NEW s, NEW q \in Seq(Packets), NEW re, NEW reads, NEW rr, NEW we, NEW writes, NEW wr,
           WireOK(s, q, re, reads, rr, we, writes, wr),
           NEW m \in Packets, PacketOK(s, m), Epoch(m.key) = we,
           reads => writes /\ RankBefore(m.type) = wr,
           NEW we2, we2 = EpochAfter(m), NEW writes2, NEW wr2,
           reads /\ writes2 => wr2 = RankAfter(m.type)
    PROVE  WireOK(s, Append(q, m), re, reads, rr, we2, writes2, wr2)
<1> DEFINE r == Append(q, m)
<1>1. /\ Len(r) = Len(q) + 1 /\ r[Len(q) + 1] = m /\ Len(q) \in Nat
      /\ \A i \in 1 .. Len(q) : r[i] = q[i]
  BY Appended
<1>2. (\A i \in 1 .. Len(q) : PacketOK(s, q[i])) /\ EpochsLead(q, re, we)
  BY Zenon DEF WireOK
<1>3. EpochsLead(r, re, we2)
  BY <1>2, EpochsAppend
<1>4. ASSUME reads
      PROVE  RanksFrom(r, rr) /\ (writes2 => RanksTo(r, rr, wr2))
  <2>1. RanksFrom(q, rr) /\ RanksTo(q, rr, wr) /\ RankBefore(m.type) = wr
    BY <1>4, Zenon DEF WireOK
  <2>2. RanksFrom(r, rr) /\ RanksTo(r, rr, RankAfter(m.type))
    BY <2>1, RanksAppend
  <2>3. writes2 => wr2 = RankAfter(m.type)
    BY <1>4
  <2> QED BY <2>2, <2>3, Zenon
<1> HIDE DEF r
<1>5. ASSUME NEW i \in 1 .. Len(r) PROVE PacketOK(s, r[i])
  <2>1. CASE i = Len(q) + 1
    BY <1>1, <2>1
  <2>2. CASE i # Len(q) + 1
    <3>1. i \in 1 .. Len(q) /\ r[i] = q[i]
      BY <1>1, <2>2
    <3> QED BY <1>2, <3>1
  <2> QED BY <2>1, <2>2
<1>6. WireOK(s, r, re, reads, rr, we2, writes2, wr2)
  BY <1>3, <1>4, <1>5, Zenon DEF WireOK
<1> QED BY <1>6 DEF r

LEMMA Take ==
    ASSUME NEW s, NEW q \in Seq(Packets), q # <<>>,
           NEW re, NEW reads, NEW rr, NEW we, NEW writes, NEW wr,
           WireOK(s, q, re, reads, rr, we, writes, wr),
           NEW reads2, NEW rr2, reads2 => reads /\ rr2 = RankAfter(Head(q).type)
    PROVE  WireOK(s, Tail(q), EpochAfter(Head(q)), reads2, rr2, we, writes, wr)
<1> DEFINE r == Tail(q)
<1>1. /\ Len(r) = Len(q) - 1 /\ Len(q) \in Nat \ {0}
      /\ \A i \in 1 .. Len(q) - 1 : r[i] = q[i + 1]
  BY Dropped
<1>2. (\A i \in 1 .. Len(q) : PacketOK(s, q[i])) /\ EpochsLead(q, re, we)
  BY Zenon DEF WireOK
<1>3. EpochsLead(r, EpochAfter(Head(q)), we)
  BY <1>2, EpochsTail
<1>4. ASSUME reads2
      PROVE  RanksFrom(r, rr2) /\ (writes => RanksTo(r, rr2, wr))
  <2>1. RanksFrom(q, rr) /\ (writes => RanksTo(q, rr, wr)) /\ rr2 = RankAfter(Head(q).type)
    BY <1>4, Zenon DEF WireOK
  <2>2. RanksFrom(r, rr2) /\ \A to : RanksTo(q, rr, to) => RanksTo(r, rr2, to)
    BY <2>1, RanksTail
  <2> QED BY <2>1, <2>2, Zenon
<1> HIDE DEF r
<1>5. ASSUME NEW i \in 1 .. Len(r) PROVE PacketOK(s, r[i])
  <2>1. i + 1 \in 1 .. Len(q) /\ r[i] = q[i + 1]
    BY <1>1
  <2> QED BY <1>2, <2>1
<1>6. WireOK(s, r, EpochAfter(Head(q)), reads2, rr2, we, writes, wr)
  BY <1>3, <1>4, <1>5, Zenon DEF WireOK
<1> QED BY <1>6 DEF r

(* What the reader finds at the head of the wire.                          *)
LEMMA First ==
    ASSUME NEW s, NEW q \in Seq(Packets), q # <<>>,
           NEW re, NEW reads, NEW rr, NEW we, NEW writes, NEW wr,
           WireOK(s, q, re, reads, rr, we, writes, wr)
    PROVE  /\ Head(q) \in Packets /\ PacketOK(s, Head(q)) /\ Epoch(Head(q).key) = re
           /\ reads => RankBefore(Head(q).type) = rr
<1>1. Head(q) = q[1] /\ q[1] \in Packets /\ 1 \in 1 .. Len(q)
  BY Dropped
<1>2. PacketOK(s, q[1]) /\ EpochsLead(q, re, we) /\ (reads => RanksFrom(q, rr))
  BY <1>1, Zenon DEF WireOK
<1>3. Epoch(Head(q).key) = re
  BY <1>2, EpochsTail
<1>4. reads => RankBefore(Head(q).type) = rr
  BY <1>2, RanksTail, Zenon
<1> QED BY <1>1, <1>2, <1>3, <1>4

-----------------------------------------------------------------------------
(* The invariants depend on the configuration, which never changes, and on *)
(* their parameters.                                                       *)
LEMMA SameTerms ==
    ASSUME cfg' = cfg
    PROVE  /\ Agreed' = Agreed /\ Mismatch' = Mismatch /\ Rounds' = Rounds /\ Last' = Last
           /\ \A s, e : HashOf(s, e)' = HashOf(s, e)
           /\ \A w, s, e : KeyOf(w, s, e)' = KeyOf(w, s, e)
           /\ \A s : Types(s)' = Types(s)
           /\ \A s, n : WrittenBy(s, n)' = WrittenBy(s, n) /\ ReadBy(s, n)' = ReadBy(s, n)
           /\ \A type : RankBefore(type)' = RankBefore(type) /\ RankAfter(type)' = RankAfter(type)
<1>1. Agreed' = Agreed /\ Mismatch' = Mismatch
  BY DEF Agreed, Mismatch
<1>2. Rounds' = Rounds /\ Last' = Last
  BY <1>1 DEF Rounds, Last
<1>3. \A s, e : HashOf(s, e)' = HashOf(s, e)
  BY <1>1 DEF HashOf, Hash
<1>4. \A w, s, e : KeyOf(w, s, e)' = KeyOf(w, s, e)
  BY <1>3 DEF KeyOf
<1>5. \A s : Types(s)' = Types(s)
  BY <1>1 DEF Types, Methods
<1>6. \A s, n : WrittenBy(s, n)' = WrittenBy(s, n) /\ ReadBy(s, n)' = ReadBy(s, n)
  BY <1>2 DEF WrittenBy, ReadBy, Halves
<1>7. \A type : RankBefore(type)' = RankBefore(type) /\ RankAfter(type)' = RankAfter(type)
  BY <1>2 DEF RankBefore, RankAfter, Rank
<1> QED BY <1>1, <1>2, <1>3, <1>4, <1>5, <1>6, <1>7

LEMMA SameEnd ==
    ASSUME cfg' = cfg, NEW s, NEW t, NEW h, NEW k, NEW p, NEW o, NEW w, EndOK(s, t, h, k, p, o, w)
    PROVE  EndOK(s, t, h, k, p, o, w)'
<1>1. FailsOK(t, w)'
  BY SameTerms DEF EndOK, FailsOK
<1>2. KeysOK(s, t, h)'
  BY SameTerms DEF EndOK, KeysOK
<1>3. PlaceOK(s, t, h, k, p, o)'
  <2>1. WriteRank(s, h, k, p)' = WriteRank(s, h, k, p)
    BY SameTerms DEF WriteRank
  <2>2. ExchangeOK(s, t, h, k, p) => ExchangeOK(s, t, h, k, p)'
    <3> SUFFICES ASSUME ExchangeOK(s, t, h, k, p) PROVE ExchangeOK(s, t, h, k, p)'
      OBVIOUS
    <3>1. Agreed' = Agreed /\ Mismatch' = Mismatch /\ Rounds' = Rounds /\ Last' = Last
      BY SameTerms
    <3>2. HashOf(s, REpoch(t) + 1)' = HashOf(s, REpoch(t) + 1)
      BY SameTerms
    <3> QED BY <3>1, <3>2, Zenon DEF ExchangeOK
  <2> QED BY <2>1, <2>2 DEF EndOK, PlaceOK
<1>4. MainOK(t, h, k, p)' /\ HelloOK(s, t, h, k, p, o)'
  BY DEF EndOK, MainOK, HelloOK
<1> QED BY <1>1, <1>2, <1>3, <1>4 DEF EndOK

LEMMA SameWire ==
    ASSUME cfg' = cfg, NEW s, NEW q, NEW re, NEW reads, NEW rr, NEW we, NEW writes, NEW wr,
           WireOK(s, q, re, reads, rr, we, writes, wr)
    PROVE  WireOK(s, q, re, reads, rr, we, writes, wr)'
<1>1. \A i \in 1 .. Len(q) : PacketOK(s, q[i])'
  <2>1. ASSUME NEW m, PacketOK(s, m) PROVE PacketOK(s, m)'
    BY <2>1, SameTerms DEF PacketOK
  <2> QED BY <2>1 DEF WireOK
<1>2. ASSUME NEW a PROVE /\ RanksFrom(q, a) => RanksFrom(q, a)'
                         /\ \A b : RanksTo(q, a, b) => RanksTo(q, a, b)'
  <2>1. RanksFrom(q, a) => RanksFrom(q, a)'
    BY SameTerms, Zenon DEF RanksFrom
  <2>2. \A b : RanksTo(q, a, b) => RanksTo(q, a, b)'
    BY SameTerms DEF RanksTo
  <2> QED BY <2>1, <2>2
<1> QED BY <1>1, <1>2, Zenon DEF WireOK

(* The two ends of the wire after a step of end s.                         *)
Facing(s, q, t, k, p, o) ==
    WireOK(Peer(s), q, REpoch(t), Reads(p, o), ReadRank(s, k, p),
           WEpoch(tr[Peer(s)]), Writes(pc[Peer(s)], sock[Peer(s)]),
           WriteRank(Peer(s), ht[Peer(s)], kex[Peer(s)], pc[Peer(s)]))
Behind(s, q, t, h, k, p, o) ==
    WireOK(s, q, REpoch(tr[Peer(s)]), Reads(pc[Peer(s)], sock[Peer(s)]),
           ReadRank(Peer(s), kex[Peer(s)], pc[Peer(s)]),
           WEpoch(t), Writes(p, o), WriteRank(s, h, k, p))

(* A step of end s, after which its state is t, h, k, p, o and w. Of the   *)
(* other end it can change no more than what is on the wire.               *)
Changes(s, t, h, k, p, o, w) ==
    /\ cfg' = cfg
    /\ DOMAIN tr' = Side /\ tr'[s] = t /\ tr'[Peer(s)] = tr[Peer(s)]
    /\ DOMAIN ht' = Side /\ ht'[s] = h /\ ht'[Peer(s)] = ht[Peer(s)]
    /\ DOMAIN kex' = Side /\ kex'[s] = k /\ kex'[Peer(s)] = kex[Peer(s)]
    /\ DOMAIN pc' = Side /\ pc'[s] = p /\ pc'[Peer(s)] = pc[Peer(s)]
    /\ DOMAIN why' = Side /\ why'[s] = w /\ why'[Peer(s)] = why[Peer(s)]
    /\ DOMAIN sock' = Side /\ sock'[s] = o
    /\ sent' \in [Side -> Nat]

LEMMA Move ==
    ASSUME Inv, NEW s \in Side, NEW t, NEW h, NEW k, NEW p, NEW o, NEW w, NEW q \in Seq(Packets),
           Changes(s, t, h, k, p, o, w), sock'[Peer(s)] = [sock[Peer(s)] EXCEPT !.wire = q],
           \/ q = sock[Peer(s)].wire
           \/ Len(q) <= Len(sock[Peer(s)].wire) /\ sock[Peer(s)].wire # <<>>,
           EndOK(s, t, h, k, p, o, w), Facing(s, q, t, k, p, o), Behind(s, o.wire, t, h, k, p, o)
    PROVE  Inv'
<1> DEFINE d == Peer(s)
<1>0. cfg' = cfg
  BY DEF Changes
<1>1. d \in Side /\ d # s /\ Peer(d) = s /\ \A x \in Side : x = s \/ x = d
  BY Sides
<1>2. PICK t2, h2, k2, p2, o2, w2 : /\ t2 = tr[d] /\ h2 = ht[d] /\ k2 = kex[d] /\ p2 = pc[d]
                                    /\ o2 = sock[d] /\ w2 = why[d]
  OBVIOUS
<1>3. PICK o3 : o3 = [o2 EXCEPT !.wire = q]
  OBVIOUS
<1>4. Maps /\ cfg \in Configs /\ EndOK(d, t2, h2, k2, p2, o2, w2)
  BY <1>1, <1>2, Zenon DEF Inv, End
<1>5. o2 \in Sockets /\ o3 \in Sockets /\ o3.open = o2.open /\ o3.late = o2.late /\ o3.wire = q
  BY <1>3, <1>4 DEF EndOK, EndTyped, Sockets
<1>6. Len(q) <= Len(o2.wire) /\ (o2.wire = <<>> => q = <<>>)
  <2>1. Len(o2.wire) \in Nat
    BY <1>5 DEF Sockets
  <2> QED BY <1>2, <2>1
<1>7. EndOK(d, t2, h2, k2, p2, o3, w2)
  <2>1. EndTyped(t2, h2, k2, p2, o3)
    BY <1>4, <1>5 DEF EndOK, EndTyped
  <2>2. LockOK(h2, k2, p2, o3)
    <3>1. /\ Len(o2.wire) \in Nat /\ Len(o3.wire) \in Nat /\ Len(o3.wire) <= Len(o2.wire)
          /\ WireCap \in Nat
      BY <1>5, <1>6, TransportBounds DEF Sockets
    <3>2. LockOK(h2, k2, p2, o2)
      BY <1>4 DEF EndOK
    <3>3. Len(o3.wire) <= WireCap
      BY <3>1, <3>2 DEF LockOK
    <3> QED BY <3>2, <3>3, Zenon DEF LockOK
  <2>3. PlaceOK(d, t2, h2, k2, p2, o3)
    BY <1>4, <1>5 DEF EndOK, PlaceOK, Writes
  <2>4. HelloOK(d, t2, h2, k2, p2, o3)
    BY <1>4, <1>5, <1>6 DEF EndOK, HelloOK
  <2> QED BY <1>4, <2>1, <2>2, <2>3, <2>4 DEF EndOK
<1>8. /\ tr'[s] = t /\ ht'[s] = h /\ kex'[s] = k /\ pc'[s] = p /\ why'[s] = w /\ sock'[s] = o
      /\ tr'[d] = t2 /\ ht'[d] = h2 /\ kex'[d] = k2 /\ pc'[d] = p2 /\ why'[d] = w2 /\ sock'[d] = o3
      /\ Maps'
  BY <1>1, <1>2, <1>3, <1>4 DEF Maps, Changes
<1>9. End(s)' /\ End(d)'
  <2>1. EndOK(s, t, h, k, p, o, w)' /\ EndOK(d, t2, h2, k2, p2, o3, w2)'
    BY <1>0, <1>7, SameEnd
  <2> QED BY <1>8, <2>1 DEF End
<1>10. Wire(s)' /\ Wire(d)'
  <2>1. /\ Writes(p2, o3) = Writes(p2, o2)
        /\ Reads(p2, o3) = Reads(p2, o2)
    BY <1>5 DEF Writes, Reads
  <2>2. /\ WireOK(s, o.wire, REpoch(t2), Reads(p2, o3), ReadRank(d, k2, p2), WEpoch(t),
                  Writes(p, o), WriteRank(s, h, k, p))
        /\ WireOK(d, q, REpoch(t), Reads(p, o), ReadRank(s, k, p), WEpoch(t2),
                  Writes(p2, o3), WriteRank(d, h2, k2, p2))
    BY <1>2, <2>1 DEF Facing, Behind
  <2>3. PICK a1, a2, a3, a4, b1, b2, b3, b4 :
          /\ a1 = Reads(p2, o3) /\ a2 = ReadRank(d, k2, p2)
          /\ a3 = Writes(p, o) /\ a4 = WriteRank(s, h, k, p)
          /\ b1 = Reads(p, o) /\ b2 = ReadRank(s, k, p)
          /\ b3 = Writes(p2, o3) /\ b4 = WriteRank(d, h2, k2, p2)
    OBVIOUS
  <2>4. /\ WireOK(s, o.wire, REpoch(t2), a1, a2, WEpoch(t), a3, a4)'
        /\ WireOK(d, q, REpoch(t), b1, b2, WEpoch(t2), b3, b4)'
    BY <1>0, <2>2, <2>3, SameWire
  <2>5. /\ a1 = Reads(p2, o3)' /\ a2 = ReadRank(d, k2, p2)'
        /\ a3 = Writes(p, o)' /\ a4 = WriteRank(s, h, k, p)'
        /\ b1 = Reads(p, o)' /\ b2 = ReadRank(s, k, p)'
        /\ b3 = Writes(p2, o3)' /\ b4 = WriteRank(d, h2, k2, p2)'
    BY <1>0, <2>3, SameTerms DEF Reads, Writes, ReadRank, WriteRank
  <2> QED BY <1>1, <1>5, <1>8, <2>4, <2>5 DEF Wire
<1> QED BY <1>0, <1>1, <1>4, <1>8, <1>9, <1>10 DEF Inv

LEMMA QuietFacing ==
    ASSUME NEW s \in Side, Wire(Peer(s)), NEW t, NEW k, NEW p, NEW o,
           REpoch(t) = REpoch(tr[s]),
           Reads(p, o) => /\ Reads(pc[s], sock[s])
                          /\ ReadRank(s, k, p) = ReadRank(s, kex[s], pc[s])
    PROVE  Facing(s, sock[Peer(s)].wire, t, k, p, o)
<1>1. Peer(Peer(s)) = s
  BY Sides
<1> QED BY <1>1, Zenon DEF Wire, Facing, WireOK

LEMMA QuietBehind ==
    ASSUME NEW s \in Side, Wire(s), NEW t, NEW h, NEW k, NEW p, NEW o,
           WEpoch(t) = WEpoch(tr[s]),
           Reads(pc[Peer(s)], sock[Peer(s)]) /\ Writes(p, o) =>
             /\ Writes(pc[s], sock[s])
             /\ WriteRank(s, h, k, p) = WriteRank(s, ht[s], kex[s], pc[s])
    PROVE  Behind(s, sock[s].wire, t, h, k, p, o)
BY Zenon DEF Wire, Behind, WireOK

(* A step that leaves the wire alone.                                      *)
LEMMA Local ==
    ASSUME Inv, NEW s \in Side, NEW t, NEW h, NEW k, NEW p, NEW o, NEW w,
           Changes(s, t, h, k, p, o, w), sock'[Peer(s)] = sock[Peer(s)],
           EndOK(s, t, h, k, p, o, w),
           o.wire = sock[s].wire, REpoch(t) = REpoch(tr[s]), WEpoch(t) = WEpoch(tr[s]),
           Reads(p, o) => /\ Reads(pc[s], sock[s])
                          /\ ReadRank(s, k, p) = ReadRank(s, kex[s], pc[s]),
           Reads(pc[Peer(s)], sock[Peer(s)]) /\ Writes(p, o) =>
             /\ Writes(pc[s], sock[s])
             /\ WriteRank(s, h, k, p) = WriteRank(s, ht[s], kex[s], pc[s])
    PROVE  Inv'
<1> DEFINE q == sock[Peer(s)].wire
<1>1. Peer(s) \in Side /\ Peer(Peer(s)) = s
  BY Sides
<1>2. Wire(s) /\ Wire(Peer(s)) /\ sock[Peer(s)] \in Sockets
  BY <1>1, Zenon DEF Inv, End, EndOK, EndTyped
<1>3. q \in Seq(Packets) /\ sock'[Peer(s)] = [sock[Peer(s)] EXCEPT !.wire = q]
  BY <1>2 DEF Sockets
<1>4. Facing(s, q, t, k, p, o)
  BY <1>2, QuietFacing
<1>5. Behind(s, o.wire, t, h, k, p, o)
  BY <1>2, QuietBehind
<1> QED BY <1>3, <1>4, <1>5, Move

(* A step that writes one packet.                                          *)
LEMMA Sending ==
    ASSUME Inv, NEW s \in Side, NEW t, NEW h, NEW k, NEW p, NEW o, NEW w, NEW m \in Packets,
           Changes(s, t, h, k, p, o, w), sock'[Peer(s)] = sock[Peer(s)],
           EndOK(s, t, h, k, p, o, w),
           PacketOK(s, m), o.wire = Append(sock[s].wire, m),
           Epoch(m.key) = WEpoch(tr[s]), WEpoch(t) = EpochAfter(m), REpoch(t) = REpoch(tr[s]),
           Reads(p, o) => /\ Reads(pc[s], sock[s])
                          /\ ReadRank(s, k, p) = ReadRank(s, kex[s], pc[s]),
           Writes(pc[s], sock[s]), RankBefore(m.type) = WriteRank(s, ht[s], kex[s], pc[s]),
           Writes(p, o) => WriteRank(s, h, k, p) = RankAfter(m.type)
    PROVE  Inv'
<1> DEFINE q == sock[Peer(s)].wire
<1>1. Peer(s) \in Side /\ Peer(Peer(s)) = s
  BY Sides
<1>2. Wire(s) /\ Wire(Peer(s)) /\ sock[Peer(s)] \in Sockets /\ sock[s] \in Sockets
  BY <1>1, Zenon DEF Inv, End, EndOK, EndTyped
<1>3. q \in Seq(Packets) /\ sock'[Peer(s)] = [sock[Peer(s)] EXCEPT !.wire = q]
      /\ sock[s].wire \in Seq(Packets)
  BY <1>2 DEF Sockets
<1>4. Facing(s, q, t, k, p, o)
  BY <1>2, QuietFacing
<1>5. Behind(s, o.wire, t, h, k, p, o)
  <2>1. PICK re, reads, rr, wr, writes2, wr2 :
          /\ re = REpoch(tr[Peer(s)]) /\ reads = Reads(pc[Peer(s)], sock[Peer(s)])
          /\ rr = ReadRank(Peer(s), kex[Peer(s)], pc[Peer(s)])
          /\ wr = WriteRank(s, ht[s], kex[s], pc[s])
          /\ writes2 = Writes(p, o) /\ wr2 = WriteRank(s, h, k, p)
    OBVIOUS
  <2>2. WireOK(s, sock[s].wire, re, reads, rr, WEpoch(tr[s]), Writes(pc[s], sock[s]), wr)
    BY <1>2, <2>1 DEF Wire
  <2>3. /\ reads => Writes(pc[s], sock[s]) /\ RankBefore(m.type) = wr
        /\ reads /\ writes2 => wr2 = RankAfter(m.type)
    BY <2>1, Zenon
  <2>4. WireOK(s, Append(sock[s].wire, m), re, reads, rr, WEpoch(t), writes2, wr2)
    BY <1>3, <2>2, <2>3, Put, Zenon
  <2> QED BY <2>1, <2>4 DEF Behind
<1> QED BY <1>3, <1>4, <1>5, Move

(* A step that takes the first packet of the wire.                         *)
LEMMA Taking ==
    ASSUME Inv, NEW s \in Side, NEW t, NEW h, NEW k, NEW p, NEW o, NEW w, NEW m,
           Changes(s, t, h, k, p, o, w), o = sock[s],
           Inbound(s) # <<>>, m = Head(Inbound(s)),
           sock'[Peer(s)] = [sock[Peer(s)] EXCEPT !.wire = Tail(Inbound(s))],
           EndOK(s, t, h, k, p, o, w),
           REpoch(t) = EpochAfter(m), WEpoch(t) = WEpoch(tr[s]),
           Reads(p, o) => Reads(pc[s], sock[s]) /\ ReadRank(s, k, p) = RankAfter(m.type),
           Reads(pc[Peer(s)], sock[Peer(s)]) /\ Writes(p, o) =>
             /\ Writes(pc[s], sock[s])
             /\ WriteRank(s, h, k, p) = WriteRank(s, ht[s], kex[s], pc[s])
    PROVE  Inv'
<1> DEFINE q == sock[Peer(s)].wire
<1>1. Peer(s) \in Side /\ Peer(Peer(s)) = s
  BY Sides
<1>2. Wire(s) /\ Wire(Peer(s)) /\ sock[Peer(s)] \in Sockets
  BY <1>1, Zenon DEF Inv, End, EndOK, EndTyped
<1>3. q \in Seq(Packets) /\ q # <<>> /\ m = Head(q)
      /\ sock'[Peer(s)] = [sock[Peer(s)] EXCEPT !.wire = Tail(q)]
  BY <1>2 DEF Sockets, Inbound
<1>4. Tail(q) \in Seq(Packets) /\ Len(Tail(q)) <= Len(q)
  BY <1>3, Dropped
<1>5. Facing(s, Tail(q), t, k, p, o)
  <2>1. PICK d, re, reads, rr, reads2, rr2, we, writes, wr :
          /\ d = Peer(s)
          /\ re = REpoch(tr[s]) /\ reads = Reads(pc[s], sock[s]) /\ rr = ReadRank(s, kex[s], pc[s])
          /\ reads2 = Reads(p, o) /\ rr2 = ReadRank(s, k, p) /\ we = WEpoch(tr[Peer(s)])
          /\ writes = Writes(pc[Peer(s)], sock[Peer(s)])
          /\ wr = WriteRank(Peer(s), ht[Peer(s)], kex[Peer(s)], pc[Peer(s)])
    OBVIOUS
  <2>2. WireOK(d, q, re, reads, rr, we, writes, wr)
    BY <1>1, <1>2, <2>1 DEF Wire
  <2>3. reads2 => reads /\ rr2 = RankAfter(Head(q).type)
    BY <1>3, <2>1
  <2> HIDE DEF q
  <2>4. q \in Seq(Packets) /\ q # <<>>
    BY <1>3
  <2>5. WireOK(d, Tail(q), EpochAfter(Head(q)), reads2, rr2, we, writes, wr)
    BY <2>2, <2>3, <2>4, Take, ZenonT(90)
  <2> QED BY <1>3, <2>1, <2>5 DEF Facing
<1>6. Behind(s, o.wire, t, h, k, p, o)
  BY <1>2, QuietBehind
<1> HIDE DEF q
<1>7. q = sock[Peer(s)].wire
  BY DEF q
<1> QED BY <1>3, <1>4, <1>5, <1>6, <1>7, Move

-----------------------------------------------------------------------------
(* The state of an end, by name.                                           *)
LEMMA Parts ==
    ASSUME Inv, NEW s \in Side
    PROVE  /\ cfg \in Configs /\ Maps /\ Peer(s) \in Side /\ Peer(s) # s
           /\ EndOK(s, tr[s], ht[s], kex[s], pc[s], sock[s], why[s])
           /\ tr[s] \in Ciphers /\ ht[s] \in Handshakes /\ kex[s] \in Exchanges
           /\ pc[s] \in Labels /\ sock[s] \in Sockets
           /\ LockOK(ht[s], kex[s], pc[s], sock[s]) /\ FailsOK(tr[s], why[s])
           /\ KeysOK(s, tr[s], ht[s]) /\ PlaceOK(s, tr[s], ht[s], kex[s], pc[s], sock[s])
           /\ MainOK(tr[s], ht[s], kex[s], pc[s])
           /\ HelloOK(s, tr[s], ht[s], kex[s], pc[s], sock[s])
BY Sides, Zenon DEF Inv, End, EndOK, EndTyped

(* The reader's label changes to one of the same part of its loop, or to   *)
(* the end of the loop.                                                    *)
SamePart(old, new) ==
    \/ new = old
    \/ {old, new} \subseteq {"read", "reqLock", "reqInit", "deliver"}
    \/ old = "kexLock" /\ new = "kexInit"
    \/ old \in {"read", "reqInit", "end"} /\ new \in {"end", "done"}

LEMMA PartKept ==
    ASSUME NEW s \in Side, NEW h, NEW k, NEW p, NEW o,
           PlaceOK(s, tr[s], ht[s], kex[s], pc[s], sock[s]), SamePart(pc[s].reader, p.reader),
           h.sentInit = ht[s].sentInit, h.inits = ht[s].inits,
           k.theirs = kex[s].theirs, k.step = kex[s].step, k.hash = kex[s].hash,
           o.open => sock[s].open, ~o.late => ~sock[s].late
    PROVE  /\ PlaceOK(s, tr[s], h, k, p, o)
           /\ Reads(p, o) => Reads(pc[s], sock[s]) /\ ReadRank(s, k, p) = ReadRank(s, kex[s], pc[s])
           /\ Writes(p, o) => /\ Writes(pc[s], sock[s])
                              /\ WriteRank(s, h, k, p) = WriteRank(s, ht[s], kex[s], pc[s])
<1>1. WriteRank(s, h, k, p) = WriteRank(s, ht[s], kex[s], pc[s])
  BY DEF WriteRank, SamePart
<1>2. /\ pc[s].reader \in Ended => p.reader \in Ended
      /\ p.reader = "kexFailed" <=> pc[s].reader = "kexFailed"
      /\ p.reader = "kex" <=> pc[s].reader = "kex"
      /\ p.reader = "kexDone" <=> pc[s].reader = "kexDone"
      /\ p.reader \in {"kexLock", "kexInit"} <=> pc[s].reader \in {"kexLock", "kexInit"}
  BY DEF SamePart, Ended
<1>3. p.reader \notin Ended => ReadRank(s, k, p) = ReadRank(s, kex[s], pc[s])
  BY <1>2 DEF ReadRank
<1>4. Writes(p, o) => Writes(pc[s], sock[s])
  BY <1>2, Zenon DEF Writes
<1>5. Reads(p, o) => Reads(pc[s], sock[s]) /\ p.reader \notin Ended
  BY <1>2, Zenon DEF Reads
<1>6. ExchangeOK(s, tr[s], h, k, p) <=> ExchangeOK(s, tr[s], ht[s], kex[s], pc[s])
  BY DEF ExchangeOK
<1>7. PlaceOK(s, tr[s], h, k, p, o)
  BY <1>1, <1>2, <1>4, <1>6, Zenon DEF PlaceOK
<1> QED BY <1>1, <1>3, <1>4, <1>5, <1>7, Zenon

LEMMA Relabel ==
    ASSUME Inv, NEW s \in Side, NEW h \in Handshakes, NEW k \in Exchanges, NEW p \in Labels,
           NEW o \in Sockets, NEW w,
           Changes(s, tr[s], h, k, p, o, w), sock'[Peer(s)] = sock[Peer(s)],
           SamePart(pc[s].reader, p.reader),
           h.session = ht[s].session, h.sentInit = ht[s].sentInit, h.inits = ht[s].inits,
           k.theirs = kex[s].theirs, k.step = kex[s].step, k.hash = kex[s].hash,
           o.wire = sock[s].wire, o.open => sock[s].open, ~o.late => ~sock[s].late,
           LockOK(h, k, p, o), FailsOK(tr[s], w), MainOK(tr[s], h, k, p),
           HelloOK(s, tr[s], h, k, p, o)
    PROVE  Inv'
<1>1. /\ tr[s] \in Ciphers /\ KeysOK(s, tr[s], ht[s])
      /\ PlaceOK(s, tr[s], ht[s], kex[s], pc[s], sock[s])
  BY Parts
<1>2. /\ PlaceOK(s, tr[s], h, k, p, o)
      /\ Reads(p, o) => Reads(pc[s], sock[s]) /\ ReadRank(s, k, p) = ReadRank(s, kex[s], pc[s])
      /\ Writes(p, o) => /\ Writes(pc[s], sock[s])
                         /\ WriteRank(s, h, k, p) = WriteRank(s, ht[s], kex[s], pc[s])
  BY <1>1, PartKept, Zenon
<1>3. KeysOK(s, tr[s], h)
  BY <1>1 DEF KeysOK
<1>4. EndOK(s, tr[s], h, k, p, o, w)
  BY <1>1, <1>2, <1>3, Zenon DEF EndOK, EndTyped
<1> QED BY <1>2, <1>4, Local, Zenon

(* The steps that only take or release the mutex, move a label or close.   *)
LEMMA RequestLockKeeps ==
    ASSUME Inv, NEW s \in Side, RequestLock(s)
    PROVE  Inv'
<1>1. /\ pc[s].reader = "reqLock" /\ ht[s].mu = NoOne
  BY DEF RequestLock, Free
<1>2. /\ Maps /\ Peer(s) \in Side /\ Peer(s) # s /\ LockOK(ht[s], kex[s], pc[s], sock[s])
      /\ FailsOK(tr[s], why[s]) /\ MainOK(tr[s], ht[s], kex[s], pc[s])
      /\ HelloOK(s, tr[s], ht[s], kex[s], pc[s], sock[s]) /\ pc[s] \in Labels
      /\ ht[s] \in Handshakes /\ kex[s] \in Exchanges /\ sock[s] \in Sockets
  BY Parts
<1>3. PICK h : h = [ht[s] EXCEPT !.mu = "reader"]
  OBVIOUS
<1>4. /\ h \in Handshakes /\ h.mu = "reader" /\ h.sentInit = ht[s].sentInit
      /\ h.inits = ht[s].inits /\ h.session = ht[s].session /\ h.written = ht[s].written
      /\ h.readn = ht[s].readn /\ h.writeErr = ht[s].writeErr /\ h.incoming = ht[s].incoming
      /\ h.closed = ht[s].closed
  BY <1>1, <1>2, <1>3 DEF Handshakes, Thread, NoOne
<1>5. PICK p : p = [pc[s] EXCEPT !.reader = "reqInit"]
  OBVIOUS
<1>6. /\ p \in Labels /\ p.reader = "reqInit" /\ p.main = pc[s].main
      /\ p.writer = pc[s].writer
  BY <1>1, <1>2, <1>5 DEF Labels, Writing
<1>7. /\ Changes(s, tr[s], h, kex[s], p, sock[s], why[s])
      /\ sock'[Peer(s)] = sock[Peer(s)]
  BY <1>1, <1>2, <1>3, <1>5 DEF RequestLock, Changes, Maps, SetHt, Goto
<1>8. LockOK(h, kex[s], p, sock[s])
  BY <1>1, <1>2, <1>4, <1>6, TransportBounds DEF LockOK, Inside, NoOne
<1>9. MainOK(tr[s], h, kex[s], p)
  BY <1>1, <1>2, <1>4, <1>6 DEF MainOK
<1>10. HelloOK(s, tr[s], h, kex[s], p, sock[s])
  BY <1>1, <1>2, <1>4, <1>6 DEF HelloOK
<1>11. SamePart(pc[s].reader, p.reader)
  BY <1>1, <1>2, <1>4, <1>6 DEF SamePart
<1> QED BY <1>1, <1>2, <1>4, <1>6, <1>7, <1>8, <1>9, <1>10, <1>11, Relabel

LEMMA ReadErrorKeeps ==
    ASSUME Inv, NEW s \in Side, ReadError(s)
    PROVE  Inv'
<1>1. /\ pc[s].reader = "read"
  BY DEF ReadError, Free
<1>2. /\ Maps /\ Peer(s) \in Side /\ Peer(s) # s /\ LockOK(ht[s], kex[s], pc[s], sock[s])
      /\ FailsOK(tr[s], why[s]) /\ MainOK(tr[s], ht[s], kex[s], pc[s])
      /\ HelloOK(s, tr[s], ht[s], kex[s], pc[s], sock[s]) /\ pc[s] \in Labels
      /\ ht[s] \in Handshakes /\ kex[s] \in Exchanges /\ sock[s] \in Sockets
  BY Parts
<1>3. PICK h : h = [ht[s] EXCEPT !.closed = TRUE]
  OBVIOUS
<1>4. /\ h \in Handshakes /\ h.closed = TRUE /\ h.mu = ht[s].mu
      /\ h.sentInit = ht[s].sentInit /\ h.inits = ht[s].inits /\ h.session = ht[s].session
      /\ h.written = ht[s].written /\ h.readn = ht[s].readn /\ h.writeErr = ht[s].writeErr
      /\ h.incoming = ht[s].incoming
  BY <1>1, <1>2, <1>3 DEF Handshakes, Thread, NoOne
<1>5. PICK p : p = [pc[s] EXCEPT !.reader = "end"]
  OBVIOUS
<1>6. /\ p \in Labels /\ p.reader = "end" /\ p.main = pc[s].main /\ p.writer = pc[s].writer
  BY <1>1, <1>2, <1>5 DEF Labels, Writing
<1>7. /\ Changes(s, tr[s], h, kex[s], p, sock[s], "eof")
      /\ sock'[Peer(s)] = sock[Peer(s)]
  BY <1>1, <1>2, <1>3, <1>5 DEF ReadError, Changes, Maps, SetHt, Goto, ReaderEnds
<1>8. LockOK(h, kex[s], p, sock[s])
  BY <1>1, <1>2, <1>4, <1>6, TransportBounds DEF LockOK, Inside, NoOne
<1>9. FailsOK(tr[s], "eof")
  BY <1>1, <1>2, <1>4, <1>6 DEF FailsOK
<1>10. MainOK(tr[s], h, kex[s], p)
  BY <1>1, <1>2, <1>4, <1>6 DEF MainOK
<1>11. HelloOK(s, tr[s], h, kex[s], p, sock[s])
  BY <1>1, <1>2, <1>4, <1>6 DEF HelloOK
<1>12. SamePart(pc[s].reader, p.reader)
  BY <1>1, <1>2, <1>4, <1>6 DEF SamePart
<1> QED BY <1>1, <1>2, <1>4, <1>6, <1>7, <1>8, <1>10, <1>11, <1>12, <1>9, Relabel

LEMMA UserWritesKeeps ==
    ASSUME Inv, NEW s \in Side, UserWrites(s)
    PROVE  Inv'
<1>1. /\ pc[s].writer = "idle"
  BY DEF UserWrites, Free
<1>2. /\ Maps /\ Peer(s) \in Side /\ Peer(s) # s /\ LockOK(ht[s], kex[s], pc[s], sock[s])
      /\ FailsOK(tr[s], why[s]) /\ MainOK(tr[s], ht[s], kex[s], pc[s])
      /\ HelloOK(s, tr[s], ht[s], kex[s], pc[s], sock[s]) /\ pc[s] \in Labels
      /\ ht[s] \in Handshakes /\ kex[s] \in Exchanges /\ sock[s] \in Sockets
  BY Parts
<1>3. PICK p : p = [pc[s] EXCEPT !.writer = "lock"]
  OBVIOUS
<1>4. /\ p \in Labels /\ p.writer = "lock" /\ p.reader = pc[s].reader /\ p.main = pc[s].main
  BY <1>1, <1>2, <1>3 DEF Labels, Writing
<1>5. /\ Changes(s, tr[s], ht[s], kex[s], p, sock[s], why[s])
      /\ sock'[Peer(s)] = sock[Peer(s)]
  BY <1>1, <1>2, <1>3 DEF UserWrites, Changes, Maps, SetHt, Goto
<1>6. LockOK(ht[s], kex[s], p, sock[s])
  BY <1>1, <1>2, <1>4, TransportBounds DEF LockOK, Inside, NoOne
<1>7. MainOK(tr[s], ht[s], kex[s], p)
  BY <1>1, <1>2, <1>4 DEF MainOK
<1>8. HelloOK(s, tr[s], ht[s], kex[s], p, sock[s])
  BY <1>1, <1>2, <1>4 DEF HelloOK
<1>9. SamePart(pc[s].reader, p.reader)
  BY <1>1, <1>2, <1>4 DEF SamePart
<1> QED BY <1>1, <1>2, <1>4, <1>5, <1>6, <1>7, <1>8, <1>9, Relabel

LEMMA MainCloseKeeps ==
    ASSUME Inv, NEW s \in Side, MainClose(s)
    PROVE  Inv'
<1>1. /\ pc[s].main = "close"
  BY DEF MainClose, Free
<1>2. /\ Maps /\ Peer(s) \in Side /\ Peer(s) # s /\ LockOK(ht[s], kex[s], pc[s], sock[s])
      /\ FailsOK(tr[s], why[s]) /\ MainOK(tr[s], ht[s], kex[s], pc[s])
      /\ HelloOK(s, tr[s], ht[s], kex[s], pc[s], sock[s]) /\ pc[s] \in Labels
      /\ ht[s] \in Handshakes /\ kex[s] \in Exchanges /\ sock[s] \in Sockets
  BY Parts
<1>3. PICK p : p = [pc[s] EXCEPT !.main = "done"]
  OBVIOUS
<1>4. /\ p \in Labels /\ p.main = "done" /\ p.reader = pc[s].reader
      /\ p.writer = pc[s].writer
  BY <1>1, <1>2, <1>3 DEF Labels, Writing
<1>5. PICK o : o = [sock[s] EXCEPT !.open = FALSE]
  OBVIOUS
<1>6. /\ o \in Sockets /\ o.open = FALSE /\ o.late = sock[s].late /\ o.wire = sock[s].wire
  BY <1>1, <1>2, <1>5 DEF Sockets
<1>7. /\ Changes(s, tr[s], ht[s], kex[s], p, o, why[s])
      /\ sock'[Peer(s)] = sock[Peer(s)]
  BY <1>1, <1>2, <1>3, <1>5 DEF MainClose, Changes, Maps, SetHt, Goto, CloseConn
<1>8. LockOK(ht[s], kex[s], p, o)
  BY <1>1, <1>2, <1>4, <1>6, TransportBounds DEF LockOK, Inside, NoOne
<1>9. MainOK(tr[s], ht[s], kex[s], p)
  BY <1>1, <1>2, <1>4, <1>6 DEF MainOK
<1>10. HelloOK(s, tr[s], ht[s], kex[s], p, o)
  BY <1>1, <1>2, <1>4, <1>6 DEF HelloOK
<1>11. SamePart(pc[s].reader, p.reader)
  BY <1>1, <1>2, <1>4, <1>6 DEF SamePart
<1> QED BY <1>1, <1>2, <1>4, <1>6, <1>7, <1>8, <1>9, <1>10, <1>11, Relabel

LEMMA MainLoopEndsKeeps ==
    ASSUME Inv, NEW s \in Side, MainLoopEnds(s)
    PROVE  Inv'
<1>1. /\ pc[s].main = "loop"
  BY DEF MainLoopEnds, Free
<1>2. /\ Maps /\ Peer(s) \in Side /\ Peer(s) # s /\ LockOK(ht[s], kex[s], pc[s], sock[s])
      /\ FailsOK(tr[s], why[s]) /\ MainOK(tr[s], ht[s], kex[s], pc[s])
      /\ HelloOK(s, tr[s], ht[s], kex[s], pc[s], sock[s]) /\ pc[s] \in Labels
      /\ ht[s] \in Handshakes /\ kex[s] \in Exchanges /\ sock[s] \in Sockets
  BY Parts
<1>3. PICK p : p = [pc[s] EXCEPT !.main = "close"]
  OBVIOUS
<1>4. /\ p \in Labels /\ p.main = "close" /\ p.reader = pc[s].reader
      /\ p.writer = pc[s].writer
  BY <1>1, <1>2, <1>3 DEF Labels, Writing
<1>5. /\ Changes(s, tr[s], ht[s], kex[s], p, sock[s], why[s])
      /\ sock'[Peer(s)] = sock[Peer(s)]
  BY <1>1, <1>2, <1>3 DEF MainLoopEnds, Changes, Maps, SetHt, Goto
<1>6. LockOK(ht[s], kex[s], p, sock[s])
  BY <1>1, <1>2, <1>4, TransportBounds DEF LockOK, Inside, NoOne
<1>7. MainOK(tr[s], ht[s], kex[s], p)
  BY <1>1, <1>2, <1>4 DEF MainOK
<1>8. HelloOK(s, tr[s], ht[s], kex[s], p, sock[s])
  BY <1>1, <1>2, <1>4 DEF HelloOK
<1>9. SamePart(pc[s].reader, p.reader)
  BY <1>1, <1>2, <1>4 DEF SamePart
<1> QED BY <1>1, <1>2, <1>4, <1>5, <1>6, <1>7, <1>8, <1>9, Relabel

(* What is left of a queue without its first element, and a queue that     *)
(* takes the packet in hand.                                               *)
Rest(r, q) ==
    /\ r \in Seq(Delivered) /\ Len(r) \in Nat /\ Len(q) \in Nat /\ Len(r) <= Len(q)
    /\ Head(q) = q[1] /\ 1 \in 1 .. Len(q)
    /\ \A i \in 1 .. Len(r) : i + 1 \in 1 .. Len(q) /\ r[i] = q[i + 1]

LEMMA Popped ==
    ASSUME NEW q \in Seq(Delivered), q # <<>>
    PROVE  Rest(Tail(q), q)
<1>1. /\ Tail(q) \in Seq(Delivered) /\ Head(q) = q[1]
      /\ Len(Tail(q)) = Len(q) - 1 /\ Len(q) \in Nat \ {0}
      /\ \A i \in 1 .. Len(q) - 1 : Tail(q)[i] = q[i + 1]
  BY Dropped
<1> QED BY <1>1 DEF Rest

Joined(r, q, v) ==
    /\ r \in Seq(Delivered) /\ Len(r) \in Nat /\ Len(q) \in Nat /\ Len(r) <= Len(q) + 1
    /\ \A i \in 1 .. Len(r) : \/ i \in 1 .. Len(q) /\ r[i] = q[i]
                              \/ i - Len(q) \in 1 .. Len(v) /\ r[i] = v[i - Len(q)]

LEMMA Pushed ==
    ASSUME NEW q \in Seq(Delivered), NEW v \in Seq(Delivered), Len(v) <= 1
    PROVE  Joined(q \o v, q, v)
<1>0. PICK r : r = q \o v
  OBVIOUS
<1>1. /\ r \in Seq(Delivered) /\ Len(r) = Len(q) + Len(v)
      /\ Len(q) \in Nat /\ Len(v) \in Nat
      /\ \A i \in 1 .. Len(q) + Len(v) : r[i] = IF i <= Len(q) THEN q[i] ELSE v[i - Len(q)]
  BY <1>0, ConcatProperties
<1>2. ASSUME NEW i \in 1 .. Len(r)
      PROVE  \/ i \in 1 .. Len(q) /\ r[i] = q[i]
             \/ i - Len(q) \in 1 .. Len(v) /\ r[i] = v[i - Len(q)]
  <2>1. CASE i <= Len(q)
    BY <1>1, <2>1
  <2>2. CASE ~(i <= Len(q))
    <3>1. i - Len(q) \in 1 .. Len(v) /\ i \in 1 .. Len(q) + Len(v)
      BY <1>1, <2>2
    <3> QED BY <1>1, <2>2, <3>1
  <2> QED BY <2>1, <2>2
<1> QED BY <1>0, <1>1, <1>2 DEF Joined

LEMMA TopIs ==
    ASSUME NEW n \in Nat
    PROVE  Top(n) \in {"read", "reqLock"} /\ (n = 0 => Top(n) = "read")
BY TransportBounds DEF Top

LEMMA MainStartKeeps ==
    ASSUME Inv, NEW s \in Side, MainStart(s)
    PROVE  Inv'
<1>1. CASE s = "client" /\ cfg.hello
  <2>1. /\ pc[s].main = "start"
    BY <1>1 DEF MainStart, Free
  <2>2. /\ Maps /\ Peer(s) \in Side /\ Peer(s) # s /\ LockOK(ht[s], kex[s], pc[s], sock[s])
        /\ FailsOK(tr[s], why[s]) /\ MainOK(tr[s], ht[s], kex[s], pc[s])
        /\ HelloOK(s, tr[s], ht[s], kex[s], pc[s], sock[s]) /\ pc[s] \in Labels
        /\ ht[s] \in Handshakes /\ kex[s] \in Exchanges /\ sock[s] \in Sockets
    BY Parts
  <2>3. PICK p : p = [pc[s] EXCEPT !.main = "loop"]
    OBVIOUS
  <2>4. /\ p \in Labels /\ p.main = "loop" /\ p.reader = pc[s].reader
        /\ p.writer = pc[s].writer
    BY <2>1, <2>2, <2>3 DEF Labels, Writing
  <2>5. /\ Changes(s, tr[s], ht[s], kex[s], p, sock[s], why[s])
        /\ sock'[Peer(s)] = sock[Peer(s)]
    BY <1>1, <2>1, <2>2, <2>3 DEF MainStart, Changes, Maps, SetHt, Goto
  <2>6. LockOK(ht[s], kex[s], p, sock[s])
    BY <2>1, <2>2, <2>4, TransportBounds DEF LockOK, Inside, NoOne
  <2>7. MainOK(tr[s], ht[s], kex[s], p)
    BY <1>1, <2>1, <2>2, <2>4 DEF MainOK
  <2>8. HelloOK(s, tr[s], ht[s], kex[s], p, sock[s])
    BY <1>1, <2>1, <2>2, <2>4 DEF HelloOK
  <2>9. SamePart(pc[s].reader, p.reader)
    BY <2>1, <2>2, <2>4 DEF SamePart
  <2> QED BY <2>1, <2>2, <2>4, <2>5, <2>6, <2>7, <2>8, <2>9, Relabel
<1>2. CASE ~(s = "client" /\ cfg.hello)
  <2>1. /\ pc[s].main = "start" /\ ht[s].mu = NoOne
    BY <1>2 DEF MainStart, Free
  <2>2. /\ Maps /\ Peer(s) \in Side /\ Peer(s) # s /\ LockOK(ht[s], kex[s], pc[s], sock[s])
        /\ FailsOK(tr[s], why[s]) /\ MainOK(tr[s], ht[s], kex[s], pc[s])
        /\ HelloOK(s, tr[s], ht[s], kex[s], pc[s], sock[s]) /\ pc[s] \in Labels
        /\ ht[s] \in Handshakes /\ kex[s] \in Exchanges /\ sock[s] \in Sockets
    BY Parts
  <2>3. PICK h : h = [ht[s] EXCEPT !.mu = "main"]
    OBVIOUS
  <2>4. /\ h \in Handshakes /\ h.mu = "main" /\ h.sentInit = ht[s].sentInit
        /\ h.inits = ht[s].inits /\ h.session = ht[s].session /\ h.written = ht[s].written
        /\ h.readn = ht[s].readn /\ h.writeErr = ht[s].writeErr
        /\ h.incoming = ht[s].incoming /\ h.closed = ht[s].closed
    BY <2>1, <2>2, <2>3 DEF Handshakes, Thread, NoOne
  <2>5. PICK p : p = [pc[s] EXCEPT !.main = "firstInit"]
    OBVIOUS
  <2>6. /\ p \in Labels /\ p.main = "firstInit" /\ p.reader = pc[s].reader
        /\ p.writer = pc[s].writer
    BY <2>1, <2>2, <2>5 DEF Labels, Writing
  <2>7. /\ Changes(s, tr[s], h, kex[s], p, sock[s], why[s])
        /\ sock'[Peer(s)] = sock[Peer(s)]
    BY <1>2, <2>1, <2>2, <2>3, <2>5 DEF MainStart, Changes, Maps, SetHt, Goto
  <2>8. LockOK(h, kex[s], p, sock[s])
    BY <2>1, <2>2, <2>4, <2>6, TransportBounds DEF LockOK, Inside, NoOne
  <2>9. MainOK(tr[s], h, kex[s], p)
    BY <1>2, <2>1, <2>2, <2>4, <2>6 DEF MainOK
  <2>10. HelloOK(s, tr[s], h, kex[s], p, sock[s])
    BY <1>2, <2>1, <2>2, <2>4, <2>6 DEF HelloOK
  <2>11. SamePart(pc[s].reader, p.reader)
    BY <2>1, <2>2, <2>4, <2>6 DEF SamePart
  <2> QED BY <2>1, <2>2, <2>4, <2>6, <2>7, <2>8, <2>9, <2>10, <2>11, Relabel
<1> QED BY <1>1, <1>2

LEMMA DeliverKeeps ==
    ASSUME Inv, NEW s \in Side, Deliver(s)
    PROVE  Inv'
<1>1. /\ pc[s].reader = "deliver" /\ Len(ht[s].incoming) < IncomingCap
  BY DEF Deliver, Free
<1>2. /\ Maps /\ Peer(s) \in Side /\ Peer(s) # s /\ LockOK(ht[s], kex[s], pc[s], sock[s])
      /\ FailsOK(tr[s], why[s]) /\ MainOK(tr[s], ht[s], kex[s], pc[s])
      /\ HelloOK(s, tr[s], ht[s], kex[s], pc[s], sock[s]) /\ pc[s] \in Labels
      /\ ht[s] \in Handshakes /\ kex[s] \in Exchanges /\ sock[s] \in Sockets
  BY Parts
<1>3. PICK q, v, b : q = ht[s].incoming /\ v = kex[s].hand /\ b = Top(ht[s].readn)
  OBVIOUS
<1>4. PICK r : r = q \o v
  OBVIOUS
<1>5. /\ v \in Seq(Delivered) /\ q \in Seq(Delivered) /\ Len(v) <= 1
  BY <1>2, <1>3 DEF LockOK, Handshakes, Exchanges
<1>6. Joined(r, q, v)
  BY <1>4, <1>5, Pushed
<1>7. b \in {"read", "reqLock"} /\ (ht[s].readn = 0 => b = "read")
  BY <1>2, <1>3, TopIs DEF Handshakes
<1>8. /\ Len(r) <= IncomingCap /\ r \in Seq(Delivered)
      /\ <<>> \in Seq(Delivered) /\ Len(<<>>) = 0
  BY <1>1, <1>3, <1>6, TransportBounds DEF Joined
<1>9. /\ cfg.hello => s = "client"
      /\ cfg.hello => \A i \in 1 .. Len(r) : r[i].type = "newkeys"
  BY <1>1, <1>2, <1>3, <1>6 DEF HelloOK, Side, Joined
<1>10. PICK h : h = [ht[s] EXCEPT !.incoming = r]
  OBVIOUS
<1>11. /\ h \in Handshakes /\ h.incoming = r /\ h.mu = ht[s].mu
      /\ h.sentInit = ht[s].sentInit /\ h.inits = ht[s].inits /\ h.session = ht[s].session
      /\ h.written = ht[s].written /\ h.readn = ht[s].readn /\ h.writeErr = ht[s].writeErr
      /\ h.closed = ht[s].closed
  BY <1>1, <1>2, <1>3, <1>7, <1>8, <1>9, <1>10 DEF Handshakes, Thread, NoOne
<1>12. PICK k : k = [kex[s] EXCEPT !.hand = <<>>]
  OBVIOUS
<1>13. /\ k \in Exchanges /\ k.hand = <<>> /\ k.theirs = kex[s].theirs
      /\ k.step = kex[s].step /\ k.hash = kex[s].hash
  BY <1>1, <1>2, <1>3, <1>7, <1>8, <1>9, <1>12 DEF Exchanges
<1>14. PICK p : p = [pc[s] EXCEPT !.reader = b]
  OBVIOUS
<1>15. /\ p \in Labels /\ p.reader = b /\ p.main = pc[s].main /\ p.writer = pc[s].writer
  BY <1>1, <1>2, <1>3, <1>7, <1>8, <1>9, <1>14 DEF Labels, Writing
<1>16. /\ Changes(s, tr[s], h, k, p, sock[s], why[s])
      /\ sock'[Peer(s)] = sock[Peer(s)]
  BY <1>1, <1>2, <1>3, <1>4, <1>10, <1>12, <1>14 DEF Deliver, Changes, Maps, SetHt, Goto
<1>17. LockOK(h, k, p, sock[s])
  BY <1>1, <1>2, <1>3, <1>7, <1>8, <1>9, <1>11, <1>13, <1>15, TransportBounds
     DEF LockOK, Inside, NoOne
<1>18. MainOK(tr[s], h, k, p)
  BY <1>1, <1>2, <1>3, <1>7, <1>8, <1>9, <1>11, <1>13, <1>15 DEF MainOK, LockOK
<1>19. HelloOK(s, tr[s], h, k, p, sock[s])
  BY <1>1, <1>2, <1>3, <1>7, <1>8, <1>9, <1>11, <1>13, <1>15 DEF HelloOK
<1>20. SamePart(pc[s].reader, p.reader)
  BY <1>1, <1>2, <1>3, <1>7, <1>8, <1>9, <1>11, <1>13, <1>15 DEF SamePart
<1> QED BY <1>1, <1>2, <1>3, <1>7, <1>8, <1>9, <1>11, <1>13, <1>15, <1>16, <1>17, <1>18, <1>19,
           <1>20, Relabel

LEMMA MainKeyedKeeps ==
    ASSUME Inv, NEW s \in Side, MainKeyed(s)
    PROVE  Inv'
<1>1. CASE ht[s].incoming # <<>>
  <2>1. CASE Head(ht[s].incoming).type = "newkeys"
    <3>1. /\ pc[s].main = "newkeys" /\ ht[s].incoming # <<>>
      BY <1>1, <2>1 DEF MainKeyed, Free
    <3>2. /\ Maps /\ Peer(s) \in Side /\ Peer(s) # s /\ LockOK(ht[s], kex[s], pc[s], sock[s])
          /\ FailsOK(tr[s], why[s]) /\ MainOK(tr[s], ht[s], kex[s], pc[s])
          /\ HelloOK(s, tr[s], ht[s], kex[s], pc[s], sock[s]) /\ pc[s] \in Labels
          /\ ht[s] \in Handshakes /\ kex[s] \in Exchanges /\ sock[s] \in Sockets
      BY Parts
    <3>3. Rest(Tail(ht[s].incoming), ht[s].incoming)
      BY <3>1, <3>2, Popped DEF Handshakes
    <3>4. ~cfg.hello
      BY <3>1, <3>2, <3>3 DEF HelloOK, Side
    <3>5. PICK h : h = [ht[s] EXCEPT !.incoming = Tail(ht[s].incoming)]
      OBVIOUS
    <3>6. /\ h \in Handshakes /\ h.incoming = Tail(ht[s].incoming) /\ h.mu = ht[s].mu
          /\ h.sentInit = ht[s].sentInit /\ h.inits = ht[s].inits
          /\ h.session = ht[s].session /\ h.written = ht[s].written /\ h.readn = ht[s].readn
          /\ h.writeErr = ht[s].writeErr /\ h.closed = ht[s].closed
      BY <3>1, <3>2, <3>3, <3>4, <3>5 DEF Handshakes, Thread, NoOne, Rest
    <3>7. PICK p : p = [pc[s] EXCEPT
            !.main = "loop", !.writer = IF pc[s].writer = "off" THEN "idle" ELSE pc[s].writer]
      OBVIOUS
    <3>8. /\ p \in Labels /\ p.main = "loop"
          /\ p.writer = IF pc[s].writer = "off" THEN "idle" ELSE pc[s].writer
          /\ p.reader = pc[s].reader
      BY <3>1, <3>2, <3>3, <3>4, <3>7 DEF Labels, Writing
    <3>9. /\ Changes(s, tr[s], h, kex[s], p, sock[s], why[s])
          /\ sock'[Peer(s)] = sock[Peer(s)]
      BY <1>1, <2>1, <3>1, <3>2, <3>3, <3>4, <3>5, <3>7 DEF MainKeyed, Changes, Maps, SetHt, Goto
    <3>10. LockOK(h, kex[s], p, sock[s])
      BY <3>1, <3>2, <3>3, <3>4, <3>6, <3>8, TransportBounds DEF LockOK, Inside, NoOne, Rest
    <3>11. MainOK(tr[s], h, kex[s], p)
      BY <3>1, <3>2, <3>3, <3>4, <3>6, <3>8 DEF MainOK
    <3>12. HelloOK(s, tr[s], h, kex[s], p, sock[s])
      BY <3>1, <3>2, <3>3, <3>4, <3>6, <3>8 DEF HelloOK, Rest
    <3>13. SamePart(pc[s].reader, p.reader)
      BY <3>1, <3>2, <3>3, <3>4, <3>6, <3>8 DEF SamePart
    <3> QED BY <3>1, <3>2, <3>3, <3>4, <3>6, <3>8, <3>9, <3>10, <3>11, <3>12, <3>13, Relabel
  <2>2. CASE Head(ht[s].incoming).type # "newkeys"
    <3>1. /\ pc[s].main = "newkeys" /\ ht[s].incoming # <<>>
      BY <1>1, <2>2 DEF MainKeyed, Free
    <3>2. /\ Maps /\ Peer(s) \in Side /\ Peer(s) # s /\ LockOK(ht[s], kex[s], pc[s], sock[s])
          /\ FailsOK(tr[s], why[s]) /\ MainOK(tr[s], ht[s], kex[s], pc[s])
          /\ HelloOK(s, tr[s], ht[s], kex[s], pc[s], sock[s]) /\ pc[s] \in Labels
          /\ ht[s] \in Handshakes /\ kex[s] \in Exchanges /\ sock[s] \in Sockets
      BY Parts
    <3>3. Rest(Tail(ht[s].incoming), ht[s].incoming)
      BY <3>1, <3>2, Popped DEF Handshakes
    <3>4. ~cfg.hello
      BY <3>1, <3>2, <3>3 DEF HelloOK, Side
    <3>5. PICK h : h = [ht[s] EXCEPT !.incoming = Tail(ht[s].incoming)]
      OBVIOUS
    <3>6. /\ h \in Handshakes /\ h.incoming = Tail(ht[s].incoming) /\ h.mu = ht[s].mu
          /\ h.sentInit = ht[s].sentInit /\ h.inits = ht[s].inits
          /\ h.session = ht[s].session /\ h.written = ht[s].written /\ h.readn = ht[s].readn
          /\ h.writeErr = ht[s].writeErr /\ h.closed = ht[s].closed
      BY <3>1, <3>2, <3>3, <3>4, <3>5 DEF Handshakes, Thread, NoOne, Rest
    <3>7. PICK p : p = [pc[s] EXCEPT !.main = "close"]
      OBVIOUS
    <3>8. /\ p \in Labels /\ p.main = "close" /\ p.reader = pc[s].reader
          /\ p.writer = pc[s].writer
      BY <3>1, <3>2, <3>3, <3>4, <3>7 DEF Labels, Writing
    <3>9. /\ Changes(s, tr[s], h, kex[s], p, sock[s], why[s])
          /\ sock'[Peer(s)] = sock[Peer(s)]
      BY <1>1, <2>2, <3>1, <3>2, <3>3, <3>4, <3>5, <3>7 DEF MainKeyed, Changes, Maps, SetHt, Goto
    <3>10. LockOK(h, kex[s], p, sock[s])
      BY <3>1, <3>2, <3>3, <3>4, <3>6, <3>8, TransportBounds DEF LockOK, Inside, NoOne, Rest
    <3>11. MainOK(tr[s], h, kex[s], p)
      BY <3>1, <3>2, <3>3, <3>4, <3>6, <3>8 DEF MainOK
    <3>12. HelloOK(s, tr[s], h, kex[s], p, sock[s])
      BY <3>1, <3>2, <3>3, <3>4, <3>6, <3>8 DEF HelloOK, Rest
    <3>13. SamePart(pc[s].reader, p.reader)
      BY <3>1, <3>2, <3>3, <3>4, <3>6, <3>8 DEF SamePart
    <3> QED BY <3>1, <3>2, <3>3, <3>4, <3>6, <3>8, <3>9, <3>10, <3>11, <3>12, <3>13, Relabel
  <2> QED BY <2>1, <2>2
<1>2. CASE ht[s].incoming = <<>>
  <2>1. /\ pc[s].main = "newkeys"
    BY <1>2 DEF MainKeyed, Free
  <2>2. /\ Maps /\ Peer(s) \in Side /\ Peer(s) # s /\ LockOK(ht[s], kex[s], pc[s], sock[s])
        /\ FailsOK(tr[s], why[s]) /\ MainOK(tr[s], ht[s], kex[s], pc[s])
        /\ HelloOK(s, tr[s], ht[s], kex[s], pc[s], sock[s]) /\ pc[s] \in Labels
        /\ ht[s] \in Handshakes /\ kex[s] \in Exchanges /\ sock[s] \in Sockets
    BY Parts
  <2>3. PICK p : p = [pc[s] EXCEPT !.main = "close"]
    OBVIOUS
  <2>4. /\ p \in Labels /\ p.main = "close" /\ p.reader = pc[s].reader
        /\ p.writer = pc[s].writer
    BY <2>1, <2>2, <2>3 DEF Labels, Writing
  <2>5. /\ Changes(s, tr[s], ht[s], kex[s], p, sock[s], why[s])
        /\ sock'[Peer(s)] = sock[Peer(s)]
    BY <1>2, <2>1, <2>2, <2>3 DEF MainKeyed, Changes, Maps, SetHt, Goto
  <2>6. LockOK(ht[s], kex[s], p, sock[s])
    BY <2>1, <2>2, <2>4, TransportBounds DEF LockOK, Inside, NoOne
  <2>7. MainOK(tr[s], ht[s], kex[s], p)
    BY <2>1, <2>2, <2>4 DEF MainOK
  <2>8. HelloOK(s, tr[s], ht[s], kex[s], p, sock[s])
    BY <2>1, <2>2, <2>4 DEF HelloOK
  <2>9. SamePart(pc[s].reader, p.reader)
    BY <2>1, <2>2, <2>4 DEF SamePart
  <2> QED BY <2>1, <2>2, <2>4, <2>5, <2>6, <2>7, <2>8, <2>9, Relabel
<1> QED BY <1>1, <1>2

LEMMA MainLoopKeeps ==
    ASSUME Inv, NEW s \in Side, MainLoop(s)
    PROVE  Inv'
<1>1. CASE Head(ht[s].incoming).type = "newkeys"
  <2>1. /\ pc[s].main = "loop" /\ ht[s].incoming # <<>>
    BY <1>1 DEF MainLoop, Free
  <2>2. /\ Maps /\ Peer(s) \in Side /\ Peer(s) # s /\ LockOK(ht[s], kex[s], pc[s], sock[s])
        /\ FailsOK(tr[s], why[s]) /\ MainOK(tr[s], ht[s], kex[s], pc[s])
        /\ HelloOK(s, tr[s], ht[s], kex[s], pc[s], sock[s]) /\ pc[s] \in Labels
        /\ ht[s] \in Handshakes /\ kex[s] \in Exchanges /\ sock[s] \in Sockets
    BY Parts
  <2>3. Rest(Tail(ht[s].incoming), ht[s].incoming)
    BY <2>1, <2>2, Popped DEF Handshakes
  <2>4. PICK h : h = [ht[s] EXCEPT !.incoming = Tail(ht[s].incoming)]
    OBVIOUS
  <2>5. /\ h \in Handshakes /\ h.incoming = Tail(ht[s].incoming) /\ h.mu = ht[s].mu
        /\ h.sentInit = ht[s].sentInit /\ h.inits = ht[s].inits /\ h.session = ht[s].session
        /\ h.written = ht[s].written /\ h.readn = ht[s].readn /\ h.writeErr = ht[s].writeErr
        /\ h.closed = ht[s].closed
    BY <2>1, <2>2, <2>3, <2>4 DEF Handshakes, Thread, NoOne, Rest
  <2>6. PICK p : p = [pc[s] EXCEPT !.main = "close"]
    OBVIOUS
  <2>7. /\ p \in Labels /\ p.main = "close" /\ p.reader = pc[s].reader
        /\ p.writer = pc[s].writer
    BY <2>1, <2>2, <2>3, <2>6 DEF Labels, Writing
  <2>8. /\ Changes(s, tr[s], h, kex[s], p, sock[s], why[s])
        /\ sock'[Peer(s)] = sock[Peer(s)]
    BY <1>1, <2>1, <2>2, <2>3, <2>4, <2>6 DEF MainLoop, Changes, Maps, SetHt, Goto
  <2>9. LockOK(h, kex[s], p, sock[s])
    BY <2>1, <2>2, <2>3, <2>5, <2>7, TransportBounds DEF LockOK, Inside, NoOne, Rest
  <2>10. MainOK(tr[s], h, kex[s], p)
    BY <2>1, <2>2, <2>3, <2>5, <2>7 DEF MainOK
  <2>11. HelloOK(s, tr[s], h, kex[s], p, sock[s])
    BY <2>1, <2>2, <2>3, <2>5, <2>7 DEF HelloOK, Rest
  <2>12. SamePart(pc[s].reader, p.reader)
    BY <2>1, <2>2, <2>3, <2>5, <2>7 DEF SamePart
  <2> QED BY <2>1, <2>2, <2>3, <2>5, <2>7, <2>8, <2>9, <2>10, <2>11, <2>12, Relabel
<1>2. CASE Head(ht[s].incoming).type # "newkeys"
  <2>0. PICK next \in {"loop", "close", "lock"} : Goto(s, "main", next)
    BY <1>2 DEF MainLoop
  <2>1. /\ pc[s].main = "loop" /\ ht[s].incoming # <<>>
    BY <1>2, <2>0 DEF MainLoop, Free
  <2>2. /\ Maps /\ Peer(s) \in Side /\ Peer(s) # s /\ LockOK(ht[s], kex[s], pc[s], sock[s])
        /\ FailsOK(tr[s], why[s]) /\ MainOK(tr[s], ht[s], kex[s], pc[s])
        /\ HelloOK(s, tr[s], ht[s], kex[s], pc[s], sock[s]) /\ pc[s] \in Labels
        /\ ht[s] \in Handshakes /\ kex[s] \in Exchanges /\ sock[s] \in Sockets
    BY Parts
  <2>3. Rest(Tail(ht[s].incoming), ht[s].incoming)
    BY <2>1, <2>2, Popped DEF Handshakes
  <2>4. PICK h : h = [ht[s] EXCEPT !.incoming = Tail(ht[s].incoming)]
    OBVIOUS
  <2>5. /\ h \in Handshakes /\ h.incoming = Tail(ht[s].incoming) /\ h.mu = ht[s].mu
        /\ h.sentInit = ht[s].sentInit /\ h.inits = ht[s].inits /\ h.session = ht[s].session
        /\ h.written = ht[s].written /\ h.readn = ht[s].readn /\ h.writeErr = ht[s].writeErr
        /\ h.closed = ht[s].closed
    BY <2>1, <2>2, <2>3, <2>4 DEF Handshakes, Thread, NoOne, Rest
  <2>6. PICK p : p = [pc[s] EXCEPT !.main = next]
    OBVIOUS
  <2>7. /\ p \in Labels /\ p.main = next /\ p.reader = pc[s].reader
        /\ p.writer = pc[s].writer
    BY <2>1, <2>2, <2>3, <2>6 DEF Labels, Writing
  <2>8. /\ Changes(s, tr[s], h, kex[s], p, sock[s], why[s])
        /\ sock'[Peer(s)] = sock[Peer(s)]
    BY <1>2, <2>0, <2>1, <2>2, <2>3, <2>4, <2>6 DEF MainLoop, Changes, Maps, SetHt, Goto
  <2>9. LockOK(h, kex[s], p, sock[s])
    BY <1>2, <2>0, <2>1, <2>2, <2>3, <2>5, <2>7, TransportBounds DEF LockOK, Inside, NoOne, Rest
  <2>10. MainOK(tr[s], h, kex[s], p)
    BY <2>1, <2>2, <2>3, <2>5, <2>7 DEF MainOK
  <2>11. HelloOK(s, tr[s], h, kex[s], p, sock[s])
    BY <1>2, <2>0, <2>1, <2>2, <2>3, <2>5, <2>7 DEF HelloOK, Rest
  <2>12. SamePart(pc[s].reader, p.reader)
    BY <2>1, <2>2, <2>3, <2>5, <2>7 DEF SamePart
  <2> QED BY <2>1, <2>2, <2>3, <2>5, <2>7, <2>8, <2>9, <2>10, <2>11, <2>12, Relabel
<1> QED BY <1>1, <1>2

LEMMA Woken ==
    ASSUME NEW s, pc[s] \in Labels, NEW r \in {"read", "reqLock", "deliver", "done", "end"}
    PROVE  [Broadcast(s) EXCEPT !.reader = r] =
             [pc[s] EXCEPT !.reader = r,
                           !.main = IF pc[s].main = "wait" THEN "relock" ELSE pc[s].main,
                           !.writer = IF pc[s].writer = "wait" THEN "relock" ELSE pc[s].writer]
BY DEF Broadcast, Labels, Thread

LEMMA readLoopEndsKeeps ==
    ASSUME Inv, NEW s \in Side, readLoopEnds(s)
    PROVE  Inv'
<1>1. /\ pc[s].reader = "end" /\ ht[s].mu = NoOne
  BY DEF readLoopEnds, Free
<1>2. /\ Maps /\ Peer(s) \in Side /\ Peer(s) # s /\ LockOK(ht[s], kex[s], pc[s], sock[s])
      /\ FailsOK(tr[s], why[s]) /\ MainOK(tr[s], ht[s], kex[s], pc[s])
      /\ HelloOK(s, tr[s], ht[s], kex[s], pc[s], sock[s]) /\ pc[s] \in Labels
      /\ ht[s] \in Handshakes /\ kex[s] \in Exchanges /\ sock[s] \in Sockets
  BY Parts
<1>3. PICK h : h = [ht[s] EXCEPT !.writeErr = TRUE]
  OBVIOUS
<1>4. /\ h \in Handshakes /\ h.writeErr = TRUE /\ h.mu = ht[s].mu
      /\ h.sentInit = ht[s].sentInit /\ h.inits = ht[s].inits /\ h.session = ht[s].session
      /\ h.written = ht[s].written /\ h.readn = ht[s].readn /\ h.incoming = ht[s].incoming
      /\ h.closed = ht[s].closed
  BY <1>1, <1>2, <1>3 DEF Handshakes, Thread, NoOne
<1>5. PICK p : p = [pc[s] EXCEPT
        !.reader = "done",
        !.main = IF pc[s].main = "wait" THEN "relock" ELSE pc[s].main,
        !.writer = IF pc[s].writer = "wait" THEN "relock" ELSE pc[s].writer]
  OBVIOUS
<1>6. /\ p \in Labels /\ p.reader = "done"
      /\ p.main = IF pc[s].main = "wait" THEN "relock" ELSE pc[s].main
      /\ p.writer = IF pc[s].writer = "wait" THEN "relock" ELSE pc[s].writer
  BY <1>1, <1>2, <1>5 DEF Labels, Writing
<1>7. /\ Changes(s, tr[s], h, kex[s], p, sock[s], why[s])
      /\ sock'[Peer(s)] = sock[Peer(s)]
  BY <1>1, <1>2, <1>3, <1>5, Woken DEF readLoopEnds, Changes, Maps, SetHt, Goto
<1>8. LockOK(h, kex[s], p, sock[s])
  BY <1>1, <1>2, <1>4, <1>6, TransportBounds DEF LockOK, Inside, NoOne
<1>9. MainOK(tr[s], h, kex[s], p)
  BY <1>1, <1>2, <1>4, <1>6 DEF MainOK
<1>10. HelloOK(s, tr[s], h, kex[s], p, sock[s])
  BY <1>1, <1>2, <1>4, <1>6 DEF HelloOK
<1>11. SamePart(pc[s].reader, p.reader)
  BY <1>1, <1>2, <1>4, <1>6 DEF SamePart
<1> QED BY <1>1, <1>2, <1>4, <1>6, <1>7, <1>8, <1>9, <1>10, <1>11, Relabel

LEMMA DeadlineKeeps ==
    ASSUME Inv, DeadlineExpires
    PROVE  Inv'
<1>0. PICK s \in Side : s = "client"
  BY DEF Side
<1>1. /\ Maps /\ Peer(s) \in Side /\ Peer(s) # s /\ LockOK(ht[s], kex[s], pc[s], sock[s])
      /\ FailsOK(tr[s], why[s]) /\ MainOK(tr[s], ht[s], kex[s], pc[s])
      /\ HelloOK(s, tr[s], ht[s], kex[s], pc[s], sock[s]) /\ pc[s] \in Labels
      /\ ht[s] \in Handshakes /\ kex[s] \in Exchanges /\ sock[s] \in Sockets
  BY Parts
<1>2. PICK o : o = [sock[s] EXCEPT !.late = TRUE]
  OBVIOUS
<1>3. /\ o \in Sockets /\ o.late = TRUE /\ o.open = sock[s].open /\ o.wire = sock[s].wire
  BY <1>1, <1>2 DEF Sockets
<1>4. /\ Changes(s, tr[s], ht[s], kex[s], pc[s], o, why[s])
      /\ sock'[Peer(s)] = sock[Peer(s)]
  BY <1>0, <1>1, <1>2 DEF DeadlineExpires, Changes, Maps, SetHt, Goto
<1>5. LockOK(ht[s], kex[s], pc[s], o)
  BY <1>1, <1>3, TransportBounds DEF LockOK, Inside, NoOne
<1>6. MainOK(tr[s], ht[s], kex[s], pc[s])
  BY <1>1, <1>3 DEF MainOK
<1>7. HelloOK(s, tr[s], ht[s], kex[s], pc[s], o)
  BY <1>1, <1>3 DEF HelloOK
<1>8. SamePart(pc[s].reader, pc[s].reader)
  BY <1>1, <1>3 DEF SamePart
<1> QED BY <1>1, <1>3, <1>4, <1>5, <1>6, <1>7, <1>8, Relabel

-----------------------------------------------------------------------------
(* writePacket. What a writer t leaves of the transport under mu, from h0, *)
(* when it goes on at label l.                                             *)
Leaves(t, h0, h, l) ==
    /\ h \in Handshakes /\ h.session = h0.session /\ h.sentInit = h0.sentInit
    /\ h.inits = h0.inits /\ h.incoming = h0.incoming /\ h.writeErr = h0.writeErr
    /\ l \in Writing \cup (IF t = "main" THEN {"loop", "close"} ELSE {"idle", "failed"})
    /\ IF l \in Inside THEN h.mu = t ELSE h.mu = NoOne
    /\ l = "put" => h.sentInit = 0
    /\ l = "wait" => ~h.writeErr

LEMMA Waited ==
    ASSUME NEW s \in Side, NEW t \in {"main", "writer"}, NEW h0 \in Handshakes,
           WaitForKex(s, t, h0)
    PROVE  \E h, l : SetHt(s, h) /\ Goto(s, t, l) /\ Leaves(t, h0, h, l)
<1>1. h0.written + 1 \in Nat /\ t \in Thread
  BY DEF Handshakes, Thread
<1>2. CASE h0.writeErr
  <2>1. PICK h, l : h = [h0 EXCEPT !.mu = NoOne] /\ l = IF t = "main" THEN "close" ELSE "failed"
    OBVIOUS
  <2>2. SetHt(s, h) /\ Goto(s, t, l)
    BY <1>2, <2>1 DEF WaitForKex
  <2>3. Leaves(t, h0, h, l)
    BY <2>1 DEF Leaves, Handshakes, Inside, Writing
  <2> QED BY <2>2, <2>3
<1>3. CASE ~h0.writeErr /\ h0.sentInit # 0
  <2>1. PICK h, l : h = [h0 EXCEPT !.mu = NoOne] /\ l = "wait"
    OBVIOUS
  <2>2. SetHt(s, h) /\ Goto(s, t, l)
    BY <1>3, <2>1 DEF WaitForKex
  <2>3. Leaves(t, h0, h, l)
    BY <1>3, <2>1 DEF Leaves, Handshakes, Inside, Writing
  <2> QED BY <2>2, <2>3
<1>4. CASE ~h0.writeErr /\ h0.sentInit = 0
  <2>1. PICK h, l : h = [h0 EXCEPT !.mu = t, !.written = @ + 1] /\ l = "put"
    OBVIOUS
  <2>2. SetHt(s, h) /\ Goto(s, t, l)
    BY <1>4, <2>1 DEF WaitForKex
  <2>3. Leaves(t, h0, h, l)
    BY <1>1, <1>4, <2>1 DEF Leaves, Handshakes, Inside, Writing
  <2> QED BY <2>2, <2>3
<1> QED BY <1>2, <1>3, <1>4

LEMMA WriterEnd ==
    ASSUME Inv, NEW s \in Side, NEW t \in {"main", "writer"}, pc[s][t] \in Writing,
           ht[s].mu \in {t, NoOne}, NEW h0, NEW h, NEW l, Leaves(t, h0, h, l),
           h0.session = ht[s].session, h0.incoming = ht[s].incoming, h0.writeErr = ht[s].writeErr,
           h0.sentInit \in {0, h0.inits}, NEW p, p = [pc[s] EXCEPT ![t] = l]
    PROVE  /\ h \in Handshakes /\ p \in Labels /\ p.reader = pc[s].reader
           /\ LockOK(h, kex[s], p, sock[s]) /\ MainOK(tr[s], h, kex[s], p)
           /\ HelloOK(s, tr[s], h, kex[s], p, sock[s]) /\ ~cfg.hello /\ WEpoch(tr[s]) # 0
           /\ pc[s].reader \notin {"reqInit", "kexInit", "kex", "kexDone", "kexFailed"}
<1>1. /\ LockOK(ht[s], kex[s], pc[s], sock[s]) /\ MainOK(tr[s], ht[s], kex[s], pc[s])
      /\ HelloOK(s, tr[s], ht[s], kex[s], pc[s], sock[s]) /\ pc[s] \in Labels
  BY Parts
<1>2. CASE t = "main"
  <2>1. p \in Labels /\ p.reader = pc[s].reader /\ p.main = l /\ p.writer = pc[s].writer
    BY <1>1, <1>2 DEF Labels, Leaves, Writing
  <2>2. ~cfg.hello /\ WEpoch(tr[s]) # 0
    BY <1>1, <1>2 DEF HelloOK, MainOK, Side, Writing
  <2>3. LockOK(h, kex[s], p, sock[s])
    BY <1>1, <1>2, <2>1 DEF LockOK, Leaves, Inside, NoOne, Writing
  <2>4. MainOK(tr[s], h, kex[s], p) /\ HelloOK(s, tr[s], h, kex[s], p, sock[s])
    BY <2>2 DEF MainOK, HelloOK
  <2>5. pc[s].reader \notin {"reqInit", "kexInit", "kex", "kexDone", "kexFailed"}
    BY <1>1, <1>2 DEF LockOK, Inside, NoOne
  <2> QED BY <2>1, <2>2, <2>3, <2>4, <2>5 DEF Leaves
<1>3. CASE t = "writer"
  <2>1. p \in Labels /\ p.reader = pc[s].reader /\ p.main = pc[s].main /\ p.writer = l
    BY <1>1, <1>3 DEF Labels, Leaves, Writing
  <2>2. ~cfg.hello /\ WEpoch(tr[s]) # 0
    BY <1>1, <1>3 DEF HelloOK, MainOK, Side, Writing
  <2>3. LockOK(h, kex[s], p, sock[s])
    BY <1>1, <1>3, <2>1 DEF LockOK, Leaves, Inside, NoOne, Writing
  <2>4. MainOK(tr[s], h, kex[s], p) /\ HelloOK(s, tr[s], h, kex[s], p, sock[s])
    BY <2>2 DEF MainOK, HelloOK
  <2>5. pc[s].reader \notin {"reqInit", "kexInit", "kex", "kexDone", "kexFailed"}
    BY <1>1, <1>3 DEF LockOK, Inside, NoOne
  <2> QED BY <2>1, <2>2, <2>3, <2>4, <2>5 DEF Leaves
<1> QED BY <1>2, <1>3

(* A writer that puts nothing on the wire.                                 *)
LEMMA WriterMoves ==
    ASSUME Inv, NEW s \in Side, NEW t \in {"main", "writer"}, pc[s][t] \in Writing,
           ht[s].mu \in {t, NoOne}, NEW h, NEW l, Leaves(t, ht[s], h, l),
           SetHt(s, h), Goto(s, t, l), UNCHANGED <<cfg, sock, tr, kex, why, sent>>
    PROVE  Inv'
<1>1. /\ Maps /\ Peer(s) \in Side /\ Peer(s) # s /\ kex[s] \in Exchanges /\ sock[s] \in Sockets
      /\ FailsOK(tr[s], why[s]) /\ ht[s].sentInit \in {0, ht[s].inits}
  BY Parts DEF LockOK
<1>2. PICK p : p = [pc[s] EXCEPT ![t] = l]
  OBVIOUS
<1>3. Changes(s, tr[s], h, kex[s], p, sock[s], why[s]) /\ sock'[Peer(s)] = sock[Peer(s)]
  BY <1>1, <1>2 DEF Changes, Maps, SetHt, Goto
<1>4. /\ h \in Handshakes /\ p \in Labels /\ p.reader = pc[s].reader
      /\ LockOK(h, kex[s], p, sock[s]) /\ MainOK(tr[s], h, kex[s], p)
      /\ HelloOK(s, tr[s], h, kex[s], p, sock[s])
  BY <1>1, <1>2, WriterEnd
<1>5. SamePart(pc[s].reader, p.reader)
  BY <1>4 DEF SamePart
<1>6. h.session = ht[s].session /\ h.sentInit = ht[s].sentInit /\ h.inits = ht[s].inits
  BY DEF Leaves
<1> QED BY <1>1, <1>3, <1>4, <1>5, <1>6, Relabel

LEMMA WriteLockKeeps ==
    ASSUME Inv, NEW s \in Side, NEW t \in {"main", "writer"}, WriteLock(s, t)
    PROVE  Inv'
<1>1. /\ pc[s][t] \in Writing /\ ht[s].mu \in {t, NoOne}
      /\ UNCHANGED <<cfg, sock, tr, kex, why, sent>>
  BY DEF WriteLock, Writing, Free
<1>2. ht[s] \in Handshakes /\ t \in Thread
  BY Parts DEF Thread
<1>3. PICK h, l : SetHt(s, h) /\ Goto(s, t, l) /\ Leaves(t, ht[s], h, l)
  <2>1. CASE pc[s][t] = "lock" /\ ht[s].written > RekeyThreshold
    <3>1. PICK h, l : h = [ht[s] EXCEPT !.mu = t] /\ l = "rekey"
      OBVIOUS
    <3>2. SetHt(s, h) /\ Goto(s, t, l)
      BY <2>1, <3>1 DEF WriteLock
    <3>3. Leaves(t, ht[s], h, l)
      BY <1>2, <3>1 DEF Leaves, Handshakes, Inside, Writing
    <3> QED BY <3>2, <3>3
  <2>2. CASE ~(pc[s][t] = "lock" /\ ht[s].written > RekeyThreshold)
    <3>1. WaitForKex(s, t, ht[s])
      BY <2>2 DEF WriteLock
    <3> QED BY <1>2, <3>1, Waited
  <2> QED BY <2>1, <2>2
<1> QED BY <1>1, <1>3, WriterMoves

-----------------------------------------------------------------------------
(* Writing a packet.                                                       *)
PacketOf(s, type, n) ==
    [type |-> type, key |-> tr[s].writer, n |-> n,
     hash |-> IF type \in Replies THEN kex[s].hash ELSE NoHash]

LEMMA SocketPut ==
    ASSUME NEW s \in Side, sock[s] \in Sockets, NEW m \in Packets, CanWrite(s),
           NEW o, o = [sock[s] EXCEPT !.wire = Append(@, m)]
    PROVE  /\ o \in Sockets /\ o.open = sock[s].open /\ o.late = sock[s].late
           /\ o.wire = Append(sock[s].wire, m) /\ Len(o.wire) <= WireCap
<1>1. /\ Append(sock[s].wire, m) \in Seq(Packets)
      /\ Len(Append(sock[s].wire, m)) = Len(sock[s].wire) + 1
      /\ Len(sock[s].wire) \in Nat
  BY Appended DEF Sockets
<1>2. o \in Sockets /\ o.open = sock[s].open /\ o.late = sock[s].late
      /\ o.wire = Append(sock[s].wire, m)
  BY <1>1 DEF Sockets
<1> QED BY <1>1, <1>2, TransportBounds DEF CanWrite

(* The KEXINIT of an end is numbered by the exchange that it begins.       *)
LEMMA InitPacket ==
    ASSUME Inv, NEW s \in Side, ht[s].sentInit = 0, CanWrite(s), cfg.hello => s = "server",
           pc[s].reader \notin {"kex", "kexDone", "kexFailed"},
           NEW m, m = PacketOf(s, "kexinit", ht[s].inits + 1)
    PROVE  /\ m \in Packets /\ PacketOK(s, m) /\ m.type = "kexinit"
           /\ Epoch(m.key) = WEpoch(tr[s]) /\ EpochAfter(m) = WEpoch(tr[s])
           /\ RankBefore(m.type) = WriteRank(s, ht[s], kex[s], pc[s]) /\ RankAfter(m.type) = 1
           /\ Writes(pc[s], sock[s]) /\ ht[s].inits = WEpoch(tr[s])
<1>1. /\ tr[s] \in Ciphers /\ ht[s] \in Handshakes /\ KeysOK(s, tr[s], ht[s])
      /\ PlaceOK(s, tr[s], ht[s], kex[s], pc[s], sock[s]) /\ cfg \in Configs
  BY Parts
<1>2. /\ m.type = "kexinit" /\ m.key = tr[s].writer /\ m.n = ht[s].inits + 1 /\ m.hash = NoHash
      /\ m \in Packets
  BY <1>1 DEF PacketOf, Packets, Ciphers, Handshakes, AllTypes, Replies
<1>3. WEpoch(tr[s]) \in Nat /\ ht[s].inits \in Nat
  BY <1>1, EpochIsNat DEF WEpoch, Ciphers, Handshakes
<1>4. Writes(pc[s], sock[s]) /\ WriteRank(s, ht[s], kex[s], pc[s]) = 0
  BY DEF CanWrite, Dead, Writes, WriteRank
<1>5. ht[s].inits = WEpoch(tr[s])
  BY <1>1, <1>3, <1>4 DEF PlaceOK
<1>6. Epoch(m.key) = WEpoch(tr[s]) /\ EpochAfter(m) = WEpoch(tr[s])
  BY <1>2 DEF WEpoch, EpochAfter
<1>7. RankBefore(m.type) = 0 /\ RankAfter(m.type) = 1
  BY <1>2 DEF RankBefore, RankAfter, Rank
<1>8. m.key = KeyOf(s, s, Epoch(m.key))
  BY <1>1, <1>2 DEF KeysOK, WEpoch
<1>9. m.type \in Types(s) /\ m.type \notin Replies
  BY <1>2 DEF Types, Replies
<1>10. PacketOK(s, m)
  BY <1>2, <1>5, <1>6, <1>8, <1>9 DEF PacketOK
<1> QED BY <1>2, <1>4, <1>5, <1>6, <1>7, <1>10

LEMMA SendInit ==
    ASSUME Inv, NEW s \in Side, ht[s].sentInit = 0, CanWrite(s), cfg.hello => s = "server",
           pc[s].reader \notin {"kex", "kexDone", "kexFailed"},
           NEW h \in Handshakes, NEW p \in Labels, NEW o,
           o = [sock[s] EXCEPT !.wire = Append(@, PacketOf(s, "kexinit", ht[s].inits + 1))],
           Changes(s, tr[s], h, kex[s], p, o, why[s]), sock'[Peer(s)] = sock[Peer(s)],
           SamePart(pc[s].reader, p.reader), p.reader \notin Ended \/ p.reader = pc[s].reader,
           h.session = ht[s].session, h.sentInit = ht[s].inits + 1, h.inits = ht[s].inits + 1,
           LockOK(h, kex[s], p, sock[s]), MainOK(tr[s], h, kex[s], p),
           HelloOK(s, tr[s], h, kex[s], p, sock[s])
    PROVE  Inv'
<1>1. /\ tr[s] \in Ciphers /\ kex[s] \in Exchanges /\ sock[s] \in Sockets
      /\ KeysOK(s, tr[s], ht[s]) /\ PlaceOK(s, tr[s], ht[s], kex[s], pc[s], sock[s])
      /\ FailsOK(tr[s], why[s]) /\ ht[s] \in Handshakes
  BY Parts
<1>2. PICK m : m = PacketOf(s, "kexinit", ht[s].inits + 1)
  OBVIOUS
<1>3. /\ m \in Packets /\ PacketOK(s, m) /\ m.type = "kexinit"
      /\ Epoch(m.key) = WEpoch(tr[s]) /\ EpochAfter(m) = WEpoch(tr[s])
      /\ RankBefore(m.type) = WriteRank(s, ht[s], kex[s], pc[s]) /\ RankAfter(m.type) = 1
      /\ Writes(pc[s], sock[s]) /\ ht[s].inits = WEpoch(tr[s])
  BY <1>2, InitPacket
<1>4. /\ o \in Sockets /\ o.open = sock[s].open /\ o.late = sock[s].late
      /\ o.wire = Append(sock[s].wire, m) /\ Len(o.wire) <= WireCap
  BY <1>1, <1>2, <1>3, SocketPut
<1>5. /\ pc[s].reader \in Ended => p.reader \in Ended
      /\ p.reader = "kexFailed" <=> pc[s].reader = "kexFailed"
      /\ p.reader \notin {"kex", "kexDone"}
      /\ p.reader \in {"kexLock", "kexInit"} <=> pc[s].reader \in {"kexLock", "kexInit"}
  BY DEF SamePart, Ended
<1>6. ht[s].inits \in Nat /\ h.sentInit # 0 /\ WriteRank(s, h, kex[s], p) = 1
  BY <1>1, <1>5 DEF WriteRank, Handshakes
<1>7. /\ Reads(p, o) => /\ Reads(pc[s], sock[s])
                        /\ ReadRank(s, kex[s], p) = ReadRank(s, kex[s], pc[s])
  BY <1>4, <1>5 DEF Reads, ReadRank
<1>8. KeysOK(s, tr[s], h)
  BY <1>1 DEF KeysOK
<1>9. PlaceOK(s, tr[s], h, kex[s], p, o)
  BY <1>1, <1>3, <1>5, <1>6 DEF PlaceOK, Ended
<1>10. LockOK(h, kex[s], p, o)
  BY <1>4 DEF LockOK
<1>11. HelloOK(s, tr[s], h, kex[s], p, o)
  BY <1>6 DEF HelloOK
<1>12. EndOK(s, tr[s], h, kex[s], p, o, why[s])
  BY <1>1, <1>4, <1>8, <1>9, <1>10, <1>11 DEF EndOK, EndTyped
<1> QED BY <1>3, <1>4, <1>6, <1>7, <1>12, Sending

LEMMA Inited ==
    ASSUME Inv, NEW s \in Side, NEW h, NEW ok, SendKexInit(s, h, ok)
    PROVE  \/ /\ h = ht[s] /\ UNCHANGED <<sock, tr>>
              /\ \/ ok /\ ht[s].sentInit # 0
                 \/ ~ok /\ ht[s].sentInit = 0
           \/ /\ ok /\ ht[s].sentInit = 0 /\ CanWrite(s) /\ h = Sent(s) /\ tr' = tr
              /\ DOMAIN sock' = Side /\ sock'[Peer(s)] = sock[Peer(s)]
              /\ sock'[s] = [sock[s] EXCEPT !.wire =
                               Append(@, PacketOf(s, "kexinit", ht[s].inits + 1))]
<1>1. CASE ht[s].sentInit = 0 /\ CanWrite(s) /\ ok /\ h = Sent(s)
           /\ PutPacket(s, "kexinit", ht[s].inits + 1)
  <2>1. Maps /\ Peer(s) # s /\ Peer(s) \in Side
    BY Parts
  <2>2. PICK n : n = ht[s].inits + 1
    OBVIOUS
  <2>3. /\ tr' = tr /\ DOMAIN sock' = Side /\ sock'[Peer(s)] = sock[Peer(s)]
        /\ sock'[s] = [sock[s] EXCEPT !.wire = Append(@, PacketOf(s, "kexinit", n))]
    BY <1>1, <2>1, <2>2 DEF PutPacket, PacketOf, Maps
  <2> QED BY <1>1, <2>2, <2>3, Zenon
<1>2. CASE ~(ht[s].sentInit = 0 /\ CanWrite(s) /\ ok /\ h = Sent(s)
             /\ PutPacket(s, "kexinit", ht[s].inits + 1))
  BY <1>2 DEF SendKexInit, Sent
<1> QED BY <1>1, <1>2

LEMMA SentIs ==
    ASSUME NEW s, ht[s] \in Handshakes
    PROVE  /\ Sent(s) \in Handshakes /\ Sent(s).sentInit = ht[s].inits + 1
           /\ Sent(s).inits = ht[s].inits + 1 /\ Sent(s).session = ht[s].session
           /\ Sent(s).mu = ht[s].mu /\ Sent(s).incoming = ht[s].incoming
           /\ Sent(s).writeErr = ht[s].writeErr /\ Sent(s).closed = ht[s].closed
           /\ Sent(s).readn = ht[s].readn /\ Sent(s).written = ht[s].written
<1>1. PICK n, h : n = ht[s].inits + 1 /\ h = ht[s]
  OBVIOUS
<1>2. n \in Nat /\ h \in Handshakes
  BY <1>1 DEF Handshakes
<1>3. Sent(s) = [h EXCEPT !.inits = n, !.sentInit = n]
  BY <1>1 DEF Sent
<1> QED BY <1>1, <1>2, <1>3 DEF Handshakes

LEMMA requestKeyChangeKeeps ==
    ASSUME Inv, NEW s \in Side, requestKeyChange(s)
    PROVE  Inv'
<1>1. PICK ok \in BOOLEAN, h0 \in {ht[s], Sent(s)} :
        /\ SendKexInit(s, h0, ok)
        /\ IF ok THEN /\ SetHt(s, [h0 EXCEPT !.mu = NoOne])
                      /\ Goto(s, "reader", "read")
                      /\ UNCHANGED why
                 ELSE ReaderEnds(s, [h0 EXCEPT !.mu = NoOne], "write")
  BY DEF requestKeyChange
<1>2. CASE h0 = ht[s] /\ UNCHANGED <<sock, tr>> /\ ok
  <2>1. /\ pc[s].reader = "reqInit" /\ UNCHANGED <<cfg, kex, sent>>
    BY DEF requestKeyChange
  <2>2. /\ Maps /\ Peer(s) \in Side /\ Peer(s) # s /\ LockOK(ht[s], kex[s], pc[s], sock[s])
        /\ FailsOK(tr[s], why[s]) /\ MainOK(tr[s], ht[s], kex[s], pc[s])
        /\ HelloOK(s, tr[s], ht[s], kex[s], pc[s], sock[s]) /\ pc[s] \in Labels
        /\ ht[s] \in Handshakes /\ kex[s] \in Exchanges /\ sock[s] \in Sockets
    BY Parts
  <2>3. PICK h : h = [ht[s] EXCEPT !.mu = NoOne]
    OBVIOUS
  <2>4. /\ h \in Handshakes /\ h.mu = NoOne /\ h.sentInit = ht[s].sentInit
        /\ h.inits = ht[s].inits /\ h.session = ht[s].session /\ h.written = ht[s].written
        /\ h.readn = ht[s].readn /\ h.writeErr = ht[s].writeErr
        /\ h.incoming = ht[s].incoming /\ h.closed = ht[s].closed
    BY <2>1, <2>2, <2>3 DEF Handshakes, Thread, NoOne
  <2>5. PICK p : p = [pc[s] EXCEPT !.reader = "read"]
    OBVIOUS
  <2>6. /\ p \in Labels /\ p.reader = "read" /\ p.main = pc[s].main
        /\ p.writer = pc[s].writer
    BY <2>1, <2>2, <2>5 DEF Labels, Writing
  <2>7. /\ Changes(s, tr[s], h, kex[s], p, sock[s], why[s])
        /\ sock'[Peer(s)] = sock[Peer(s)]
    BY <1>1, <1>2, <2>1, <2>2, <2>3, <2>5 DEF Changes, Maps, SetHt, Goto
  <2>8. LockOK(h, kex[s], p, sock[s])
    BY <2>1, <2>2, <2>4, <2>6, TransportBounds DEF LockOK, Inside, NoOne
  <2>9. MainOK(tr[s], h, kex[s], p)
    BY <2>1, <2>2, <2>4, <2>6 DEF MainOK
  <2>10. HelloOK(s, tr[s], h, kex[s], p, sock[s])
    BY <2>1, <2>2, <2>4, <2>6 DEF HelloOK
  <2>11. SamePart(pc[s].reader, p.reader)
    BY <2>1, <2>2, <2>4, <2>6 DEF SamePart
  <2> QED BY <2>1, <2>2, <2>4, <2>6, <2>7, <2>8, <2>9, <2>10, <2>11, Relabel
<1>3. CASE h0 = ht[s] /\ UNCHANGED <<sock, tr>> /\ ~ok
  <2>1. /\ pc[s].reader = "reqInit" /\ UNCHANGED <<cfg, kex, sent>>
    BY DEF requestKeyChange
  <2>2. /\ Maps /\ Peer(s) \in Side /\ Peer(s) # s /\ LockOK(ht[s], kex[s], pc[s], sock[s])
        /\ FailsOK(tr[s], why[s]) /\ MainOK(tr[s], ht[s], kex[s], pc[s])
        /\ HelloOK(s, tr[s], ht[s], kex[s], pc[s], sock[s]) /\ pc[s] \in Labels
        /\ ht[s] \in Handshakes /\ kex[s] \in Exchanges /\ sock[s] \in Sockets
    BY Parts
  <2>3. PICK h : h = [ht[s] EXCEPT !.mu = NoOne, !.closed = TRUE]
    OBVIOUS
  <2>4. /\ h \in Handshakes /\ h.mu = NoOne /\ h.closed = TRUE
        /\ h.sentInit = ht[s].sentInit /\ h.inits = ht[s].inits /\ h.session = ht[s].session
        /\ h.written = ht[s].written /\ h.readn = ht[s].readn /\ h.writeErr = ht[s].writeErr
        /\ h.incoming = ht[s].incoming
    BY <2>1, <2>2, <2>3 DEF Handshakes, Thread, NoOne
  <2>5. PICK p : p = [pc[s] EXCEPT !.reader = "end"]
    OBVIOUS
  <2>6. /\ p \in Labels /\ p.reader = "end" /\ p.main = pc[s].main
        /\ p.writer = pc[s].writer
    BY <2>1, <2>2, <2>5 DEF Labels, Writing
  <2>7. /\ Changes(s, tr[s], h, kex[s], p, sock[s], "write")
        /\ sock'[Peer(s)] = sock[Peer(s)]
    BY <1>1, <1>3, <2>1, <2>2, <2>3, <2>5 DEF Changes, Maps, SetHt, Goto, ReaderEnds
  <2>8. LockOK(h, kex[s], p, sock[s])
    BY <2>1, <2>2, <2>4, <2>6, TransportBounds DEF LockOK, Inside, NoOne
  <2>9. FailsOK(tr[s], "write")
    BY <2>1, <2>2, <2>4, <2>6 DEF FailsOK
  <2>10. MainOK(tr[s], h, kex[s], p)
    BY <2>1, <2>2, <2>4, <2>6 DEF MainOK
  <2>11. HelloOK(s, tr[s], h, kex[s], p, sock[s])
    BY <2>1, <2>2, <2>4, <2>6 DEF HelloOK
  <2>12. SamePart(pc[s].reader, p.reader)
    BY <2>1, <2>2, <2>4, <2>6 DEF SamePart
  <2> QED BY <2>1, <2>2, <2>4, <2>6, <2>7, <2>8, <2>10, <2>11, <2>12, <2>9, Relabel
<1>4. CASE ok /\ ht[s].sentInit = 0 /\ CanWrite(s) /\ h0 = Sent(s) /\ tr' = tr
            /\ DOMAIN sock' = Side /\ sock'[Peer(s)] = sock[Peer(s)]
            /\ sock'[s] = [sock[s] EXCEPT !.wire =
                             Append(@, PacketOf(s, "kexinit", ht[s].inits + 1))]
  <2>1. /\ Maps /\ Peer(s) \in Side /\ Peer(s) # s /\ ht[s] \in Handshakes /\ pc[s] \in Labels
        /\ LockOK(ht[s], kex[s], pc[s], sock[s]) /\ MainOK(tr[s], ht[s], kex[s], pc[s])
        /\ HelloOK(s, tr[s], ht[s], kex[s], pc[s], sock[s])
    BY Parts
  <2>2. PICK h, p, o : /\ h = [Sent(s) EXCEPT !.mu = NoOne] /\ p = [pc[s] EXCEPT !.reader = "read"]
                       /\ o = [sock[s] EXCEPT !.wire =
                                 Append(@, PacketOf(s, "kexinit", ht[s].inits + 1))]
    OBVIOUS
  <2>3. /\ h \in Handshakes /\ h.sentInit = ht[s].inits + 1 /\ h.inits = ht[s].inits + 1
        /\ h.session = ht[s].session /\ h.mu = NoOne /\ h.incoming = ht[s].incoming
        /\ h.writeErr = ht[s].writeErr
    BY <2>1, <2>2, SentIs DEF Handshakes
  <2>4. p \in Labels /\ p.reader = "read" /\ p.main = pc[s].main /\ p.writer = pc[s].writer
    BY <2>1, <2>2 DEF Labels
  <2>5. pc[s].reader = "reqInit" /\ UNCHANGED <<cfg, kex, sent>>
    BY DEF requestKeyChange
  <2>6. Changes(s, tr[s], h, kex[s], p, o, why[s])
    BY <1>1, <1>4, <2>1, <2>2, <2>5 DEF Changes, Maps, SetHt, Goto
  <2>7. cfg.hello => s = "server"
    BY <2>1, <2>5 DEF HelloOK, Side
  <2>8. LockOK(h, kex[s], p, sock[s])
    BY <1>4, <2>1, <2>3, <2>4, <2>5 DEF LockOK, Inside, NoOne
  <2>9. MainOK(tr[s], h, kex[s], p)
    BY <2>1, <2>3, <2>4, <2>5 DEF MainOK
  <2>10. HelloOK(s, tr[s], h, kex[s], p, sock[s])
    BY <2>1, <2>3, <2>4, <2>5, <2>7 DEF HelloOK
  <2>11. /\ SamePart(pc[s].reader, p.reader) /\ pc[s].reader \notin {"kex", "kexDone", "kexFailed"}
         /\ p.reader \notin Ended \/ p.reader = pc[s].reader
    BY <2>1, <2>4, <2>5 DEF SamePart, Ended, LockOK, Inside, NoOne
  <2> QED BY <1>4, <2>2, <2>3, <2>4, <2>6, <2>7, <2>8, <2>9, <2>10, <2>11, SendInit
<1> QED BY <1>1, <1>2, <1>3, <1>4, Inited

LEMMA sendKexInitKeeps ==
    ASSUME Inv, NEW s \in Side, sendKexInit(s)
    PROVE  Inv'
<1>1. PICK ok \in BOOLEAN, h0 \in {ht[s], Sent(s)} :
        /\ IF ht[s].session = NoHash THEN SendKexInit(s, h0, ok)
           ELSE h0 = ht[s] /\ ok /\ UNCHANGED <<sock, tr>>
        /\ SetHt(s, [h0 EXCEPT !.mu = NoOne])
        /\ Goto(s, "main", IF ok THEN "newkeys" ELSE "close")
  BY DEF sendKexInit
<1>2. CASE h0 = ht[s] /\ UNCHANGED <<sock, tr>>
  <2>0. PICK l \in {"newkeys", "close"} : Goto(s, "main", l)
    BY <1>1
  <2>1. /\ pc[s].main = "firstInit" /\ UNCHANGED <<cfg, kex, why, sent>>
    BY DEF sendKexInit
  <2>2. /\ Maps /\ Peer(s) \in Side /\ Peer(s) # s /\ LockOK(ht[s], kex[s], pc[s], sock[s])
        /\ FailsOK(tr[s], why[s]) /\ MainOK(tr[s], ht[s], kex[s], pc[s])
        /\ HelloOK(s, tr[s], ht[s], kex[s], pc[s], sock[s]) /\ pc[s] \in Labels
        /\ ht[s] \in Handshakes /\ kex[s] \in Exchanges /\ sock[s] \in Sockets
    BY Parts
  <2>3. PICK h : h = [ht[s] EXCEPT !.mu = NoOne]
    OBVIOUS
  <2>4. /\ h \in Handshakes /\ h.mu = NoOne /\ h.sentInit = ht[s].sentInit
        /\ h.inits = ht[s].inits /\ h.session = ht[s].session /\ h.written = ht[s].written
        /\ h.readn = ht[s].readn /\ h.writeErr = ht[s].writeErr
        /\ h.incoming = ht[s].incoming /\ h.closed = ht[s].closed
    BY <2>0, <2>1, <2>2, <2>3 DEF Handshakes, Thread, NoOne
  <2>5. PICK p : p = [pc[s] EXCEPT !.main = l]
    OBVIOUS
  <2>6. /\ p \in Labels /\ p.main = l /\ p.reader = pc[s].reader /\ p.writer = pc[s].writer
    BY <2>0, <2>1, <2>2, <2>5 DEF Labels, Writing
  <2>7. /\ Changes(s, tr[s], h, kex[s], p, sock[s], why[s])
        /\ sock'[Peer(s)] = sock[Peer(s)]
    BY <1>1, <1>2, <2>0, <2>1, <2>2, <2>3, <2>5 DEF Changes, Maps, SetHt, Goto
  <2>8. LockOK(h, kex[s], p, sock[s])
    BY <2>0, <2>1, <2>2, <2>4, <2>6, TransportBounds DEF LockOK, Inside, NoOne
  <2>9. MainOK(tr[s], h, kex[s], p)
    BY <2>0, <2>1, <2>2, <2>4, <2>6 DEF MainOK
  <2>10. HelloOK(s, tr[s], h, kex[s], p, sock[s])
    BY <2>0, <2>1, <2>2, <2>4, <2>6 DEF HelloOK
  <2>11. SamePart(pc[s].reader, p.reader)
    BY <2>1, <2>2, <2>4, <2>6 DEF SamePart
  <2> QED BY <2>1, <2>2, <2>4, <2>6, <2>7, <2>8, <2>9, <2>10, <2>11, Relabel
<1>3. CASE ok /\ ht[s].sentInit = 0 /\ CanWrite(s) /\ h0 = Sent(s) /\ tr' = tr
            /\ DOMAIN sock' = Side /\ sock'[Peer(s)] = sock[Peer(s)]
            /\ sock'[s] = [sock[s] EXCEPT !.wire =
                             Append(@, PacketOf(s, "kexinit", ht[s].inits + 1))]
  <2>1. /\ Maps /\ Peer(s) \in Side /\ Peer(s) # s /\ ht[s] \in Handshakes /\ pc[s] \in Labels
        /\ LockOK(ht[s], kex[s], pc[s], sock[s]) /\ MainOK(tr[s], ht[s], kex[s], pc[s])
        /\ HelloOK(s, tr[s], ht[s], kex[s], pc[s], sock[s])
    BY Parts
  <2>2. PICK h, p, o : /\ h = [Sent(s) EXCEPT !.mu = NoOne] /\ p = [pc[s] EXCEPT !.main = "newkeys"]
                       /\ o = [sock[s] EXCEPT !.wire =
                                 Append(@, PacketOf(s, "kexinit", ht[s].inits + 1))]
    OBVIOUS
  <2>3. /\ h \in Handshakes /\ h.sentInit = ht[s].inits + 1 /\ h.inits = ht[s].inits + 1
        /\ h.session = ht[s].session /\ h.mu = NoOne /\ h.incoming = ht[s].incoming
        /\ h.writeErr = ht[s].writeErr
    BY <2>1, <2>2, SentIs DEF Handshakes
  <2>4. p \in Labels /\ p.main = "newkeys" /\ p.reader = pc[s].reader /\ p.writer = pc[s].writer
    BY <2>1, <2>2 DEF Labels
  <2>5. pc[s].main = "firstInit" /\ UNCHANGED <<cfg, kex, why, sent>>
    BY DEF sendKexInit
  <2>6. Changes(s, tr[s], h, kex[s], p, o, why[s])
    BY <1>1, <1>3, <2>1, <2>2, <2>5 DEF Changes, Maps, SetHt, Goto
  <2>7. cfg.hello => s = "server"
    BY <2>1, <2>5 DEF HelloOK, Side
  <2>8. LockOK(h, kex[s], p, sock[s])
    BY <1>3, <2>1, <2>3, <2>4, <2>5 DEF LockOK, Inside, NoOne
  <2>9. MainOK(tr[s], h, kex[s], p)
    BY <2>1, <2>3, <2>4, <2>5 DEF MainOK
  <2>10. HelloOK(s, tr[s], h, kex[s], p, sock[s])
    BY <2>1, <2>3, <2>4, <2>5, <2>7 DEF HelloOK
  <2>11. /\ SamePart(pc[s].reader, p.reader) /\ pc[s].reader \notin {"kex", "kexDone", "kexFailed"}
         /\ p.reader \notin Ended \/ p.reader = pc[s].reader
    BY <2>1, <2>4, <2>5 DEF SamePart, Ended, LockOK, Inside, NoOne
  <2> QED BY <1>3, <2>2, <2>3, <2>4, <2>6, <2>7, <2>8, <2>9, <2>10, <2>11, SendInit
<1> QED BY <1>1, <1>2, <1>3, Inited

LEMMA Holds ==
    ASSUME Inv, NEW s \in Side, NEW t \in {"main", "writer"}, pc[s][t] \in {"rekey", "put"}
    PROVE  ht[s].mu = t /\ pc[s][t] \in Writing /\ (pc[s][t] = "put" => ht[s].sentInit = 0)
<1>1. LockOK(ht[s], kex[s], pc[s], sock[s])
  BY Parts
<1>2. CASE t = "main"
  BY <1>1, <1>2 DEF LockOK, Inside, Writing
<1>3. CASE t = "writer"
  BY <1>1, <1>3 DEF LockOK, Inside, Writing
<1> QED BY <1>2, <1>3

LEMMA WriteRekeyKeeps ==
    ASSUME Inv, NEW s \in Side, NEW t \in {"main", "writer"}, WriteRekey(s, t)
    PROVE  Inv'
<1>1. PICK ok \in BOOLEAN, h0 \in {ht[s], Sent(s)} : SendKexInit(s, h0, ok) /\ WaitForKex(s, t, h0)
  BY DEF WriteRekey
<1>2. pc[s][t] = "rekey" /\ UNCHANGED <<cfg, kex, why, sent>>
  BY DEF WriteRekey
<1>3. ht[s].mu = t /\ pc[s][t] \in Writing
  BY <1>2, Holds
<1>4. /\ ht[s] \in Handshakes /\ Maps /\ Peer(s) \in Side /\ Peer(s) # s
      /\ ht[s].sentInit \in {0, ht[s].inits}
  BY Parts DEF LockOK
<1>5. CASE h0 = ht[s] /\ UNCHANGED <<sock, tr>>
  <2>1. PICK h, l : SetHt(s, h) /\ Goto(s, t, l) /\ Leaves(t, ht[s], h, l)
    BY <1>1, <1>4, <1>5, Waited
  <2> QED BY <1>2, <1>3, <1>5, <2>1, WriterMoves
<1>6. CASE /\ ht[s].sentInit = 0 /\ CanWrite(s) /\ h0 = Sent(s) /\ tr' = tr
           /\ DOMAIN sock' = Side /\ sock'[Peer(s)] = sock[Peer(s)]
           /\ sock'[s] = [sock[s] EXCEPT !.wire =
                            Append(@, PacketOf(s, "kexinit", ht[s].inits + 1))]
  <2>1. /\ h0 \in Handshakes /\ h0.session = ht[s].session /\ h0.incoming = ht[s].incoming
        /\ h0.writeErr = ht[s].writeErr /\ h0.sentInit = ht[s].inits + 1
        /\ h0.inits = ht[s].inits + 1
    BY <1>4, <1>6, SentIs
  <2>2. PICK h, l : SetHt(s, h) /\ Goto(s, t, l) /\ Leaves(t, h0, h, l)
    BY <1>1, <2>1, Waited
  <2>3. PICK p, o : /\ p = [pc[s] EXCEPT ![t] = l]
                    /\ o = [sock[s] EXCEPT !.wire =
                              Append(@, PacketOf(s, "kexinit", ht[s].inits + 1))]
    OBVIOUS
  <2>4. h.session = ht[s].session /\ h.sentInit = ht[s].inits + 1 /\ h.inits = ht[s].inits + 1
    BY <2>1, <2>2 DEF Leaves
  <2>5. /\ h \in Handshakes /\ p \in Labels /\ p.reader = pc[s].reader
        /\ LockOK(h, kex[s], p, sock[s]) /\ MainOK(tr[s], h, kex[s], p)
        /\ HelloOK(s, tr[s], h, kex[s], p, sock[s]) /\ ~cfg.hello
        /\ pc[s].reader \notin {"reqInit", "kexInit", "kex", "kexDone", "kexFailed"}
    BY <1>3, <2>1, <2>2, <2>3, WriterEnd
  <2>6. Changes(s, tr[s], h, kex[s], p, o, why[s])
    BY <1>2, <1>4, <1>6, <2>2, <2>3 DEF Changes, Maps, SetHt, Goto
  <2>7. SamePart(pc[s].reader, p.reader)
    BY <2>5 DEF SamePart
  <2> QED BY <1>6, <2>3, <2>4, <2>5, <2>6, <2>7, SendInit
<1> QED BY <1>1, <1>5, <1>6, Inited

LEMMA WritePutKeeps ==
    ASSUME Inv, NEW s \in Side, NEW t \in {"main", "writer"}, WritePut(s, t)
    PROVE  Inv'
<1>1. pc[s][t] = "put" /\ SetHt(s, [ht[s] EXCEPT !.mu = NoOne]) /\ UNCHANGED <<cfg, kex, why>>
  BY DEF WritePut
<1>2. ht[s].mu = t /\ pc[s][t] \in Writing /\ ht[s].sentInit = 0
  BY <1>1, Holds
<1>3. /\ ht[s] \in Handshakes /\ Maps /\ Peer(s) \in Side /\ Peer(s) # s /\ tr[s] \in Ciphers
      /\ kex[s] \in Exchanges /\ sock[s] \in Sockets /\ FailsOK(tr[s], why[s])
      /\ KeysOK(s, tr[s], ht[s]) /\ PlaceOK(s, tr[s], ht[s], kex[s], pc[s], sock[s])
      /\ ht[s].sentInit \in {0, ht[s].inits}
  BY Parts DEF LockOK
<1>4. PICK h : h = [ht[s] EXCEPT !.mu = NoOne]
  OBVIOUS
<1>5. /\ h \in Handshakes /\ h.mu = NoOne /\ h.session = ht[s].session
      /\ h.sentInit = ht[s].sentInit /\ h.inits = ht[s].inits /\ h.incoming = ht[s].incoming
      /\ h.writeErr = ht[s].writeErr
  BY <1>3, <1>4 DEF Handshakes
<1>6. CASE /\ Goto(s, t, IF t = "main" THEN "close" ELSE "failed")
           /\ UNCHANGED <<sock, tr, sent>>
  <2>1. PICK l : l = IF t = "main" THEN "close" ELSE "failed"
    OBVIOUS
  <2>2. Leaves(t, ht[s], h, l)
    BY <1>5, <2>1 DEF Leaves, Inside, Writing
  <2>3. SetHt(s, h) /\ Goto(s, t, l)
    BY <1>1, <1>4, <1>6, <2>1
  <2> QED BY <1>1, <1>2, <1>6, <2>2, <2>3, WriterMoves
<1>7. CASE /\ CanWrite(s) /\ sent' = [sent EXCEPT ![s] = @ + 1]
           /\ PutPacket(s, "data", sent[s] + 1) /\ Goto(s, t, Idle(t))
  <2>1. PICK l, p, n, m : /\ l = Idle(t) /\ p = [pc[s] EXCEPT ![t] = l] /\ n = sent[s] + 1
                          /\ m = PacketOf(s, "data", n)
    OBVIOUS
  <2>2. Leaves(t, ht[s], h, l)
    BY <1>5, <2>1 DEF Leaves, Inside, Writing, Idle
  <2>3. /\ p \in Labels /\ p.reader = pc[s].reader
        /\ LockOK(h, kex[s], p, sock[s]) /\ MainOK(tr[s], h, kex[s], p)
        /\ HelloOK(s, tr[s], h, kex[s], p, sock[s]) /\ ~cfg.hello /\ WEpoch(tr[s]) # 0
        /\ pc[s].reader \notin {"reqInit", "kexInit", "kex", "kexDone", "kexFailed"}
    BY <1>2, <1>3, <2>1, <2>2, WriterEnd
  <2>4. n \in Nat
    BY <1>3, <2>1 DEF Maps
  <2>5. /\ m \in Packets /\ m.type = "data" /\ m.key = tr[s].writer
    BY <1>3, <2>1, <2>4 DEF PacketOf, Packets, Ciphers, AllTypes, Replies
  <2>6. Epoch(m.key) = WEpoch(tr[s]) /\ EpochAfter(m) = WEpoch(tr[s])
    BY <2>5 DEF WEpoch, EpochAfter
  <2>7. m.key = KeyOf(s, s, Epoch(m.key))
    BY <1>3, <2>5 DEF KeysOK, WEpoch
  <2>8. PacketOK(s, m)
    BY <2>3, <2>5, <2>6, <2>7 DEF PacketOK, Types, Replies
  <2>9. PICK o : o = [sock[s] EXCEPT !.wire = Append(@, m)]
    OBVIOUS
  <2>10. /\ o \in Sockets /\ o.open = sock[s].open /\ o.late = sock[s].late
         /\ o.wire = Append(sock[s].wire, m) /\ Len(o.wire) <= WireCap
    BY <1>3, <1>7, <2>5, <2>9, SocketPut
  <2>11. Changes(s, tr[s], h, kex[s], p, o, why[s]) /\ sock'[Peer(s)] = sock[Peer(s)]
    <3>1. /\ tr' = tr /\ DOMAIN sock' = Side /\ sock'[Peer(s)] = sock[Peer(s)] /\ sock'[s] = o
      BY <1>3, <1>7, <2>1, <2>9 DEF PutPacket, PacketOf, Maps
    <3>2. sent' \in [Side -> Nat]
      BY <1>3, <1>7 DEF Maps
    <3> QED BY <1>1, <1>3, <1>4, <1>7, <2>1, <3>1, <3>2 DEF Changes, Maps, SetHt, Goto
  <2>12. /\ WriteRank(s, ht[s], kex[s], pc[s]) = 0 /\ WriteRank(s, h, kex[s], p) = 0
         /\ RankBefore(m.type) = 0 /\ RankAfter(m.type) = 0
    BY <1>2, <1>5, <2>3, <2>5 DEF WriteRank, RankBefore, RankAfter, Rank
  <2>13. Writes(pc[s], sock[s])
    BY <1>7, <2>3 DEF Writes, CanWrite, Dead
  <2>14. /\ PlaceOK(s, tr[s], h, kex[s], p, o)
         /\ Reads(p, o) => /\ Reads(pc[s], sock[s])
                           /\ ReadRank(s, kex[s], p) = ReadRank(s, kex[s], pc[s])
    <3>1. SamePart(pc[s].reader, p.reader)
      BY <2>3 DEF SamePart
    <3>2. (o.open => sock[s].open) /\ (~o.late => ~sock[s].late)
      BY <2>10, Zenon
    <3> QED BY <1>3, <1>5, <3>1, <3>2, PartKept, Zenon
  <2>15. KeysOK(s, tr[s], h)
    BY <1>3, <1>5 DEF KeysOK
  <2>16. LockOK(h, kex[s], p, o) /\ HelloOK(s, tr[s], h, kex[s], p, o)
    BY <2>3, <2>10 DEF LockOK, HelloOK
  <2>17. EndOK(s, tr[s], h, kex[s], p, o, why[s])
    BY <1>3, <1>5, <2>3, <2>10, <2>14, <2>15, <2>16 DEF EndOK, EndTyped
  <2> QED BY <2>5, <2>6, <2>8, <2>10, <2>11, <2>12, <2>13, <2>14, <2>17, Sending
<1> QED BY <1>6, <1>7 DEF WritePut

-----------------------------------------------------------------------------
(* The key exchange.                                                       *)
LEMMA KexLockKeeps ==
    ASSUME Inv, NEW s \in Side, KexLock(s)
    PROVE  Inv'
<1>1. CASE ~(s = "client" /\ cfg.hello)
  <2>1. /\ pc[s].reader = "kexLock" /\ ht[s].mu = NoOne
    BY <1>1 DEF KexLock, Free
  <2>2. /\ Maps /\ Peer(s) \in Side /\ Peer(s) # s /\ LockOK(ht[s], kex[s], pc[s], sock[s])
        /\ FailsOK(tr[s], why[s]) /\ MainOK(tr[s], ht[s], kex[s], pc[s])
        /\ HelloOK(s, tr[s], ht[s], kex[s], pc[s], sock[s]) /\ pc[s] \in Labels
        /\ ht[s] \in Handshakes /\ kex[s] \in Exchanges /\ sock[s] \in Sockets
    BY Parts
  <2>3. ~cfg.hello
    BY <1>1, <2>1, <2>2 DEF HelloOK, Side
  <2>4. PICK h : h = [ht[s] EXCEPT !.mu = "reader"]
    OBVIOUS
  <2>5. /\ h \in Handshakes /\ h.mu = "reader" /\ h.sentInit = ht[s].sentInit
        /\ h.inits = ht[s].inits /\ h.session = ht[s].session /\ h.written = ht[s].written
        /\ h.readn = ht[s].readn /\ h.writeErr = ht[s].writeErr
        /\ h.incoming = ht[s].incoming /\ h.closed = ht[s].closed
    BY <2>1, <2>2, <2>3, <2>4 DEF Handshakes, Thread, NoOne
  <2>6. PICK p : p = [pc[s] EXCEPT !.reader = "kexInit"]
    OBVIOUS
  <2>7. /\ p \in Labels /\ p.reader = "kexInit" /\ p.main = pc[s].main
        /\ p.writer = pc[s].writer
    BY <2>1, <2>2, <2>3, <2>6 DEF Labels, Writing
  <2>8. /\ Changes(s, tr[s], h, kex[s], p, sock[s], why[s])
        /\ sock'[Peer(s)] = sock[Peer(s)]
    BY <1>1, <2>1, <2>2, <2>3, <2>4, <2>6 DEF KexLock, Changes, Maps, SetHt, Goto
  <2>9. LockOK(h, kex[s], p, sock[s])
    BY <2>1, <2>2, <2>3, <2>5, <2>7, TransportBounds DEF LockOK, Inside, NoOne
  <2>10. MainOK(tr[s], h, kex[s], p)
    BY <2>1, <2>2, <2>3, <2>5, <2>7 DEF MainOK
  <2>11. HelloOK(s, tr[s], h, kex[s], p, sock[s])
    BY <2>1, <2>2, <2>3, <2>5, <2>7 DEF HelloOK
  <2>12. SamePart(pc[s].reader, p.reader)
    BY <2>1, <2>2, <2>3, <2>5, <2>7 DEF SamePart
  <2> QED BY <2>1, <2>2, <2>3, <2>5, <2>7, <2>8, <2>9, <2>10, <2>11, <2>12, Relabel
<1>2. CASE s = "client" /\ cfg.hello
  <2>1. /\ tr[s] \in Ciphers /\ kex[s] \in Exchanges /\ sock[s] \in Sockets /\ pc[s] \in Labels
        /\ ht[s] \in Handshakes /\ Maps /\ Peer(s) \in Side /\ Peer(s) # s
        /\ KeysOK(s, tr[s], ht[s]) /\ PlaceOK(s, tr[s], ht[s], kex[s], pc[s], sock[s])
        /\ FailsOK(tr[s], why[s]) /\ LockOK(ht[s], kex[s], pc[s], sock[s])
        /\ MainOK(tr[s], ht[s], kex[s], pc[s])
        /\ HelloOK(s, tr[s], ht[s], kex[s], pc[s], sock[s])
    BY Parts
  <2>2. pc[s].reader = "kexLock" /\ ht[s].mu = NoOne
    BY DEF KexLock, Free
  <2>3. PICK h, p : h = [ht[s] EXCEPT !.mu = "reader"] /\ p = [pc[s] EXCEPT !.reader = "kexDone"]
    OBVIOUS
  <2>4. /\ h \in Handshakes /\ h.mu = "reader" /\ h.session = ht[s].session
        /\ h.sentInit = ht[s].sentInit /\ h.inits = ht[s].inits /\ h.incoming = ht[s].incoming
        /\ h.writeErr = ht[s].writeErr
        /\ p \in Labels /\ p.reader = "kexDone" /\ p.main = pc[s].main /\ p.writer = pc[s].writer
    BY <2>1, <2>3 DEF Handshakes, Labels, Thread
  <2>5. Changes(s, tr[s], h, kex[s], p, sock[s], why[s]) /\ sock'[Peer(s)] = sock[Peer(s)]
    BY <1>2, <2>1, <2>3 DEF KexLock, Changes, Maps, SetHt, Goto
  <2>6. LockOK(h, kex[s], p, sock[s])
    BY <2>1, <2>2, <2>4 DEF LockOK, Inside, NoOne
  <2>7. MainOK(tr[s], h, kex[s], p) /\ HelloOK(s, tr[s], h, kex[s], p, sock[s])
    BY <1>2, <2>1, <2>4 DEF MainOK, HelloOK
  <2>8. KeysOK(s, tr[s], h)
    BY <2>1, <2>4 DEF KeysOK
  <2>9. WriteRank(s, h, kex[s], p) = 0 /\ WriteRank(s, ht[s], kex[s], pc[s]) = 0
    BY <1>2, <2>1, <2>2, <2>4 DEF WriteRank, HelloOK
  <2>10. PlaceOK(s, tr[s], h, kex[s], p, sock[s])
    BY <1>2, <2>1, <2>2, <2>4, <2>9 DEF PlaceOK, Ended
  <2>11. EndOK(s, tr[s], h, kex[s], p, sock[s], why[s])
    BY <2>1, <2>4, <2>6, <2>7, <2>8, <2>10 DEF EndOK, EndTyped
  <2>12. ~Reads(p, sock[s]) /\ (Writes(p, sock[s]) => Writes(pc[s], sock[s]))
    BY <1>2, <2>2, <2>4 DEF Reads, Writes
  <2> QED BY <2>5, <2>9, <2>11, <2>12, Local
<1> QED BY <1>1, <1>2

(* An end that gives up an exchange, and writes nothing any more.          *)
LEMMA Gives ==
    ASSUME Inv, NEW s \in Side, pc[s].reader \in {"kexInit", "kex"}, NEW k \in Exchanges,
           NEW p, NEW o \in Sockets, NEW w, p = [pc[s] EXCEPT !.reader = "kexFailed"],
           NEW h \in Handshakes, h.mu = ht[s].mu, h.incoming = ht[s].incoming,
           h.writeErr = ht[s].writeErr, h.sentInit \in {0, h.inits}, h.session = ht[s].session,
           k.hand = kex[s].hand, Len(o.wire) <= WireCap, FailsOK(tr[s], w)
    PROVE  /\ EndOK(s, tr[s], h, k, p, o, w) /\ ~Reads(p, o) /\ ~Writes(p, o)
<1>1. /\ tr[s] \in Ciphers /\ ht[s] \in Handshakes /\ pc[s] \in Labels
      /\ LockOK(ht[s], kex[s], pc[s], sock[s]) /\ KeysOK(s, tr[s], ht[s])
      /\ MainOK(tr[s], ht[s], kex[s], pc[s]) /\ HelloOK(s, tr[s], ht[s], kex[s], pc[s], sock[s])
  BY Parts
<1>2. /\ p \in Labels /\ p.reader = "kexFailed" /\ p.main = pc[s].main /\ p.writer = pc[s].writer
  BY <1>1 DEF Labels
<1>3. ~cfg.hello
  BY <1>1 DEF HelloOK, Side
<1>4. LockOK(h, k, p, o)
  BY <1>1, <1>2 DEF LockOK, Inside
<1>5. MainOK(tr[s], h, k, p) /\ HelloOK(s, tr[s], h, k, p, o)
  BY <1>1, <1>2, <1>3 DEF MainOK, HelloOK
<1>6. ~Reads(p, o) /\ ~Writes(p, o)
  BY <1>2 DEF Reads, Writes, Ended
<1>7. PlaceOK(s, tr[s], h, k, p, o)
  BY <1>2, <1>6 DEF PlaceOK, Ended
<1>8. KeysOK(s, tr[s], h)
  BY <1>1 DEF KeysOK
<1> QED BY <1>1, <1>2, <1>4, <1>5, <1>6, <1>7, <1>8 DEF EndOK, EndTyped

(* What is known of an end inside of an exchange.                          *)
LEMMA Amid ==
    ASSUME Inv, NEW s \in Side, pc[s].reader = "kex"
    PROVE  /\ cfg \in Configs /\ Maps /\ Peer(s) \in Side /\ Peer(s) # s /\ ~cfg.hello
           /\ tr[s] \in Ciphers /\ ht[s] \in Handshakes /\ kex[s] \in Exchanges
           /\ pc[s] \in Labels /\ sock[s] \in Sockets
           /\ LockOK(ht[s], kex[s], pc[s], sock[s]) /\ FailsOK(tr[s], why[s])
           /\ KeysOK(s, tr[s], ht[s]) /\ MainOK(tr[s], ht[s], kex[s], pc[s])
           /\ ht[s].mu = "reader" /\ kex[s].hand = <<>>
           /\ ExchangeOK(s, tr[s], ht[s], kex[s], pc[s])
           /\ kex[s].step \in 1 .. Last /\ kex[s].step + 1 \in Nat /\ kex[s].step \in Nat
           /\ Len(Script(s, Agreed)) = Last /\ StepOK(s, kex[s].step, Step(s))
           /\ REpoch(tr[s]) \in Nat /\ WEpoch(tr[s]) \in Nat /\ Last \in {5, 7}
           /\ ht[s].inits = WEpoch(tr[s])
                + (IF WrittenBy(s, kex[s].step) = 0 THEN 0 ELSE 1)
<1>1. /\ cfg \in Configs /\ Maps /\ Peer(s) \in Side /\ Peer(s) # s
      /\ tr[s] \in Ciphers /\ ht[s] \in Handshakes /\ kex[s] \in Exchanges
      /\ pc[s] \in Labels /\ sock[s] \in Sockets
      /\ LockOK(ht[s], kex[s], pc[s], sock[s]) /\ FailsOK(tr[s], why[s])
      /\ KeysOK(s, tr[s], ht[s]) /\ MainOK(tr[s], ht[s], kex[s], pc[s])
      /\ PlaceOK(s, tr[s], ht[s], kex[s], pc[s], sock[s])
      /\ HelloOK(s, tr[s], ht[s], kex[s], pc[s], sock[s])
  BY Parts
<1>2. ~cfg.hello
  BY <1>1 DEF HelloOK, Side
<1>3. ht[s].mu = "reader" /\ kex[s].hand = <<>>
  BY <1>1 DEF LockOK, Inside
<1>4. ExchangeOK(s, tr[s], ht[s], kex[s], pc[s])
  BY <1>1 DEF PlaceOK
<1>5. kex[s].step \in 1 .. Last /\ Agreed # "" /\ Last \in {5, 7}
  BY <1>4, LastIs DEF ExchangeOK
<1>6. Len(Script(s, Agreed)) = Last /\ StepOK(s, kex[s].step, Step(s))
  BY <1>1, <1>5, Steps DEF Step
<1>7. REpoch(tr[s]) \in Nat /\ WEpoch(tr[s]) \in Nat
  BY <1>1, EpochIsNat DEF REpoch, WEpoch, Ciphers
<1>8. WriteRank(s, ht[s], kex[s], pc[s]) = WrittenBy(s, kex[s].step)
  BY DEF WriteRank
<1>9. ht[s].inits = WEpoch(tr[s]) + (IF WrittenBy(s, kex[s].step) = 0 THEN 0 ELSE 1)
  BY <1>1, <1>8 DEF PlaceOK, Ended
<1>10. kex[s].step + 1 \in Nat /\ kex[s].step \in Nat
  BY <1>1 DEF Exchanges
<1> QED BY <1>1, <1>2, <1>3, <1>4, <1>5, <1>6, <1>7, <1>9, <1>10

LEMMA Midway ==
    ASSUME Inv, NEW s \in Side, pc[s].reader = "kex"
    PROVE  /\ kex[s].hash = HashOf(s, REpoch(tr[s]) + 1) /\ Agreed # "" /\ ht[s].sentInit # 0
           /\ kex[s].step # Last => WEpoch(tr[s]) = REpoch(tr[s])
           /\ kex[s].step = Last => WEpoch(tr[s]) = REpoch(tr[s]) + 1
           /\ kex[s].step >= Last - 1 => tr[s].pendR # NoKey
           /\ kex[s].step = Last - 1 => tr[s].pendW # NoKey
           /\ Mismatch /\ s = "client" => kex[s].step <= 2 * Rounds
           /\ Last = 2 * Rounds + 3 /\ Rounds \in {1, 2}
<1>1. ExchangeOK(s, tr[s], ht[s], kex[s], pc[s])
  BY Amid
<1>2. Last = 2 * Rounds + 3 /\ Rounds \in {1, 2}
  BY LastIs DEF Last
<1> QED BY <1>1, <1>2 DEF ExchangeOK

(* One step further inside of an exchange.                                 *)
LEMMA Onward ==
    ASSUME Inv, NEW s \in Side, pc[s].reader = "kex",
           NEW t \in Ciphers, NEW h \in Handshakes, NEW k, NEW o \in Sockets,
           h.mu = ht[s].mu, h.sentInit = ht[s].sentInit, h.inits = ht[s].inits,
           h.incoming = ht[s].incoming, h.writeErr = ht[s].writeErr,
           k = [kex[s] EXCEPT !.step = @ + 1], Len(o.wire) <= WireCap,
           KeysOK(s, t, h), ExchangeOK(s, t, h, k, pc[s]), ~t.panic,
           h.inits = WEpoch(t) + (IF WrittenBy(s, kex[s].step + 1) = 0 THEN 0 ELSE 1),
           WEpoch(t) = 0 => WEpoch(tr[s]) = 0
    PROVE  /\ EndOK(s, t, h, k, pc[s], o, why[s]) /\ k \in Exchanges
           /\ WriteRank(s, h, k, pc[s]) = WrittenBy(s, kex[s].step + 1)
           /\ ReadRank(s, k, pc[s]) = ReadBy(s, kex[s].step + 1)
           /\ WriteRank(s, ht[s], kex[s], pc[s]) = WrittenBy(s, kex[s].step)
           /\ ReadRank(s, kex[s], pc[s]) = ReadBy(s, kex[s].step)
<1>1. /\ ~cfg.hello /\ tr[s] \in Ciphers /\ kex[s] \in Exchanges /\ pc[s] \in Labels
      /\ LockOK(ht[s], kex[s], pc[s], sock[s]) /\ FailsOK(tr[s], why[s])
      /\ MainOK(tr[s], ht[s], kex[s], pc[s]) /\ kex[s].step + 1 \in Nat
  BY Amid
<1>2. k \in Exchanges /\ k.step = kex[s].step + 1 /\ k.hand = kex[s].hand
  BY <1>1 DEF Exchanges
<1>3. LockOK(h, k, pc[s], o)
  BY <1>1, <1>2 DEF LockOK
<1>4. FailsOK(t, why[s])
  BY <1>1 DEF FailsOK
<1>5. MainOK(t, h, k, pc[s]) /\ HelloOK(s, t, h, k, pc[s], o)
  BY <1>1, <1>2 DEF MainOK, HelloOK
<1>6. /\ WriteRank(s, h, k, pc[s]) = WrittenBy(s, kex[s].step + 1)
      /\ ReadRank(s, k, pc[s]) = ReadBy(s, kex[s].step + 1)
      /\ WriteRank(s, ht[s], kex[s], pc[s]) = WrittenBy(s, kex[s].step)
      /\ ReadRank(s, kex[s], pc[s]) = ReadBy(s, kex[s].step)
  BY <1>2 DEF WriteRank, ReadRank
<1>7. PlaceOK(s, t, h, k, pc[s], o)
  BY <1>6 DEF PlaceOK, Ended
<1> QED BY <1>1, <1>2, <1>3, <1>4, <1>5, <1>6, <1>7 DEF EndOK, EndTyped

LEMMA AdvanceIs ==
    ASSUME Inv, NEW s \in Side, pc[s].reader = "kex", Advance(s), kex[s].step # Last
    PROVE  /\ DOMAIN kex' = Side /\ kex'[Peer(s)] = kex[Peer(s)]
           /\ kex'[s] = [kex[s] EXCEPT !.step = @ + 1]
           /\ DOMAIN pc' = Side /\ pc'[Peer(s)] = pc[Peer(s)] /\ pc'[s] = pc[s]
<1>1. /\ Maps /\ Peer(s) \in Side /\ Peer(s) # s /\ Len(Script(s, Agreed)) = Last
      /\ pc[s] \in Labels
  BY Amid
<1>2. [pc[s] EXCEPT !.reader = "kex"] = pc[s]
  BY <1>1 DEF Labels
<1>3. pc' = [pc EXCEPT ![s].reader = "kex"]
  BY <1>1 DEF Advance, Goto
<1>4. DOMAIN pc' = Side /\ pc'[Peer(s)] = pc[Peer(s)] /\ pc'[s] = [pc[s] EXCEPT !.reader = "kex"]
  BY <1>1, <1>3 DEF Maps
<1> QED BY <1>1, <1>2, <1>4 DEF Advance, Maps

LEMMA KexPrepareKeeps ==
    ASSUME Inv, NEW s \in Side, KexPrepare(s)
    PROVE  Inv'
<1>1. pc[s].reader = "kex" /\ Step(s).op = "prepare" /\ Advance(s)
      /\ UNCHANGED <<cfg, sock, why, sent>>
  BY DEF KexPrepare
<1>2. PICK n, e : n = kex[s].step /\ e = REpoch(tr[s])
  OBVIOUS
<1>3. /\ cfg \in Configs /\ Maps /\ Peer(s) \in Side /\ Peer(s) # s
      /\ tr[s] \in Ciphers /\ ht[s] \in Handshakes /\ sock[s] \in Sockets
      /\ LockOK(ht[s], kex[s], pc[s], sock[s]) /\ FailsOK(tr[s], why[s])
      /\ KeysOK(s, tr[s], ht[s]) /\ ExchangeOK(s, tr[s], ht[s], kex[s], pc[s])
      /\ n \in 1 .. Last /\ StepOK(s, n, Step(s)) /\ Last \in {5, 7} /\ e \in Nat /\ n \in Nat
      /\ ht[s].inits = WEpoch(tr[s]) + (IF WrittenBy(s, n) = 0 THEN 0 ELSE 1)
  BY <1>1, <1>2, Amid
<1>4. PrepareOK(s, n)
  BY <1>1, <1>3 DEF StepOK
<1>5. /\ n = Last - 2 /\ ReadBy(s, n + 1) = ReadBy(s, n) /\ WrittenBy(s, n + 1) = WrittenBy(s, n)
      /\ n # Last /\ n = 2 * Rounds + 1 /\ Rounds \in {1, 2}
  BY <1>3, <1>4, LastIs DEF PrepareOK
<1>6. /\ kex[s].hash = HashOf(s, e + 1) /\ WEpoch(tr[s]) = e /\ ~(Mismatch /\ s = "client")
      /\ Agreed # "" /\ ht[s].sentInit # 0
  <2>1. /\ kex[s].hash = HashOf(s, REpoch(tr[s]) + 1) /\ Agreed # "" /\ ht[s].sentInit # 0
        /\ kex[s].step # Last => WEpoch(tr[s]) = REpoch(tr[s])
        /\ Mismatch /\ s = "client" => kex[s].step <= 2 * Rounds
    BY <1>1, Midway
  <2>2. ~(n <= 2 * Rounds)
    BY <1>5
  <2> QED BY <1>2, <1>5, <2>1, <2>2
<1>7. PICK id, h, t :
        /\ id = IF ht[s].session = NoHash THEN kex[s].hash ELSE ht[s].session
        /\ h = [ht[s] EXCEPT !.session = id]
        /\ t = [tr[s] EXCEPT !.pendR = Key(Peer(s), kex[s].hash, id),
                             !.pendW = Key(s, kex[s].hash, id)]
  OBVIOUS
<1>8. id = HashOf(s, 1) /\ id # NoHash /\ id \in Hashes
  <2>1. HashOf(s, 1) # NoHash /\ HashOf(s, 1) \in Hashes
    BY <1>3, Hashed
  <2>2. ht[s].session = NoHash => e = 0
    BY <1>2, <1>3 DEF KeysOK
  <2>3. ht[s].session = NoHash \/ ht[s].session = HashOf(s, 1)
    BY <1>3 DEF KeysOK
  <2>4. CASE ht[s].session = NoHash
    <3>1. e + 1 = 1
      BY <2>2, <2>4
    <3>2. id = HashOf(s, e + 1)
      BY <1>6, <1>7, <2>4
    <3> QED BY <2>1, <3>1, <3>2
  <2>5. CASE ht[s].session # NoHash
    BY <1>7, <2>1, <2>3, <2>5
  <2> QED BY <2>4, <2>5
<1>9. /\ e + 1 \in Nat /\ e + 1 # 0
      /\ KeyOf(Peer(s), s, e + 1) = Key(Peer(s), kex[s].hash, id)
      /\ KeyOf(s, s, e + 1) = Key(s, kex[s].hash, id)
      /\ KeyOf(Peer(s), s, e + 1) \in Keys \cup {NoKey} /\ KeyOf(s, s, e + 1) \in Keys \cup {NoKey}
      /\ KeyOf(Peer(s), s, e + 1) # NoKey /\ KeyOf(s, s, e + 1) # NoKey
  <2>1. e + 1 \in Nat /\ e + 1 # 0
    BY <1>3
  <2>2. PICK f \in Nat : f = e + 1
    BY <2>1
  <2>3. ASSUME NEW v \in Side
        PROVE  /\ KeyOf(v, s, f) \in Keys \cup {NoKey} /\ KeyOf(v, s, f) # NoKey
               /\ KeyOf(v, s, f) = Key(v, HashOf(s, f), HashOf(s, 1))
    BY <1>3, <2>1, <2>2, Keyed
  <2>4. kex[s].hash = HashOf(s, f)
    BY <1>6, <2>2
  <2> QED BY <1>3, <1>8, <2>1, <2>2, <2>3, <2>4, Zenon
<1>10. /\ t \in Ciphers /\ t.reader = tr[s].reader /\ t.writer = tr[s].writer
       /\ t.pendR = KeyOf(Peer(s), s, e + 1) /\ t.pendW = KeyOf(s, s, e + 1)
       /\ t.panic = tr[s].panic
  BY <1>3, <1>7, <1>9 DEF Ciphers
<1>11. /\ h \in Handshakes /\ h.session = id /\ h.mu = ht[s].mu /\ h.sentInit = ht[s].sentInit
       /\ h.inits = ht[s].inits /\ h.incoming = ht[s].incoming /\ h.writeErr = ht[s].writeErr
  BY <1>3, <1>7, <1>8 DEF Handshakes
<1>12. REpoch(t) = e /\ WEpoch(t) = e
  BY <1>2, <1>6, <1>10 DEF REpoch, WEpoch
<1>13. KeysOK(s, t, h)
  BY <1>2, <1>3, <1>6, <1>8, <1>10, <1>11, <1>12 DEF KeysOK
<1>14. PICK k : k = [kex[s] EXCEPT !.step = @ + 1]
  OBVIOUS
<1>15. k.step = n + 1 /\ k.hash = kex[s].hash
  <2>1. kex[s] \in Exchanges
    BY <1>1, Amid
  <2> QED BY <1>2, <1>14, <2>1 DEF Exchanges
<1>16. ExchangeOK(s, t, h, k, pc[s])
  <2>1. k.step \in 1 .. Last /\ k.step # Last
    BY <1>3, <1>5, <1>15
  <2> QED BY <1>6, <1>9, <1>10, <1>11, <1>12, <1>15, <2>1 DEF ExchangeOK
<1>17. Changes(s, t, h, k, pc[s], sock[s], why[s]) /\ sock'[Peer(s)] = sock[Peer(s)]
  <2>1. /\ DOMAIN kex' = Side /\ kex'[Peer(s)] = kex[Peer(s)] /\ kex'[s] = k
        /\ DOMAIN pc' = Side /\ pc'[Peer(s)] = pc[Peer(s)] /\ pc'[s] = pc[s]
    BY <1>1, <1>2, <1>5, <1>14, AdvanceIs
  <2>2. /\ DOMAIN ht' = Side /\ ht'[Peer(s)] = ht[Peer(s)] /\ ht'[s] = h
        /\ DOMAIN tr' = Side /\ tr'[Peer(s)] = tr[Peer(s)] /\ tr'[s] = t
    BY <1>3, <1>7 DEF KexPrepare, SetHt, Maps
  <2> QED BY <1>1, <1>3, <2>1, <2>2 DEF Changes, Maps
<1>18. Len(sock[s].wire) <= WireCap /\ ~t.panic
  BY <1>3, <1>10 DEF LockOK, FailsOK
<1>19. /\ EndOK(s, t, h, k, pc[s], sock[s], why[s])
       /\ WriteRank(s, h, k, pc[s]) = WriteRank(s, ht[s], kex[s], pc[s])
       /\ ReadRank(s, k, pc[s]) = ReadRank(s, kex[s], pc[s])
  <2>1. h.inits = WEpoch(t) + (IF WrittenBy(s, kex[s].step + 1) = 0 THEN 0 ELSE 1)
    BY <1>2, <1>3, <1>5, <1>6, <1>11, <1>12
  <2>2. /\ EndOK(s, t, h, k, pc[s], sock[s], why[s])
        /\ WriteRank(s, h, k, pc[s]) = WrittenBy(s, kex[s].step + 1)
        /\ ReadRank(s, k, pc[s]) = ReadBy(s, kex[s].step + 1)
        /\ WriteRank(s, ht[s], kex[s], pc[s]) = WrittenBy(s, kex[s].step)
        /\ ReadRank(s, kex[s], pc[s]) = ReadBy(s, kex[s].step)
    BY <1>1, <1>3, <1>6, <1>10, <1>11, <1>12, <1>13, <1>14, <1>16, <1>18, <2>1, Onward
  <2> QED BY <1>2, <1>5, <2>2
<1> QED BY <1>2, <1>6, <1>12, <1>17, <1>19, Local

(* An exchange fails and nothing moves on the wire.                        *)
LEMMA KexFailsKeeps ==
    ASSUME Inv, NEW s \in Side, pc[s].reader = "kex", NEW w, FailsOK(tr[s], w), KexFails(s, w),
           UNCHANGED <<cfg, sock, tr, ht, kex, sent>>
    PROVE  Inv'
<1>1. /\ Maps /\ Peer(s) \in Side /\ Peer(s) # s /\ ht[s] \in Handshakes /\ kex[s] \in Exchanges
      /\ sock[s] \in Sockets /\ LockOK(ht[s], kex[s], pc[s], sock[s])
  BY Amid
<1>2. PICK p : p = [pc[s] EXCEPT !.reader = "kexFailed"]
  OBVIOUS
<1>3. Changes(s, tr[s], ht[s], kex[s], p, sock[s], w) /\ sock'[Peer(s)] = sock[Peer(s)]
  BY <1>1, <1>2 DEF Changes, Maps, KexFails, Goto
<1>4. ht[s].sentInit \in {0, ht[s].inits} /\ Len(sock[s].wire) <= WireCap
  BY <1>1 DEF LockOK
<1>5. EndOK(s, tr[s], ht[s], kex[s], p, sock[s], w) /\ ~Reads(p, sock[s]) /\ ~Writes(p, sock[s])
  BY <1>1, <1>2, <1>4, Gives
<1> QED BY <1>3, <1>5, Local

LEMMA KexReadErrorKeeps ==
    ASSUME Inv, NEW s \in Side, KexReadError(s)
    PROVE  Inv'
<1>1. /\ pc[s].reader = "kex" /\ KexFails(s, "eof") /\ UNCHANGED <<cfg, sock, tr, ht, kex, sent>>
  BY DEF KexReadError
<1>2. FailsOK(tr[s], "eof")
  BY <1>1, Amid DEF FailsOK
<1> QED BY <1>1, <1>2, KexFailsKeeps

(* A step of the method: neither of the last three.                        *)
LEMMA Further ==
    ASSUME Inv, NEW s \in Side, pc[s].reader = "kex", NEW k, k = [kex[s] EXCEPT !.step = @ + 1],
           kex[s].step # Last, kex[s].step # Last - 1, kex[s].step # Last - 2,
           Mismatch /\ s = "client" => kex[s].step # 2 * Rounds
    PROVE  ExchangeOK(s, tr[s], ht[s], k, pc[s])
<1>1. PICK n, e, l : n = kex[s].step /\ e = 2 * Rounds /\ l = Last
  OBVIOUS
<1>2. /\ kex[s] \in Exchanges /\ n \in 1 .. l /\ n \in Nat /\ l \in {5, 7}
  BY <1>1, Amid
<1>3. k.step = n + 1 /\ k.hash = kex[s].hash
  BY <1>1, <1>2 DEF Exchanges
<1>4. /\ kex[s].hash = HashOf(s, REpoch(tr[s]) + 1) /\ Agreed # "" /\ ht[s].sentInit # 0
      /\ n # l => WEpoch(tr[s]) = REpoch(tr[s])
      /\ Mismatch /\ s = "client" => n <= e
      /\ l = e + 3 /\ e \in {2, 4}
  <2>1. Rounds \in {1, 2}
    BY Midway
  <2>2. e \in {2, 4}
    BY <1>1, <2>1
  <2> QED BY <1>1, <2>2, Midway
<1>5. n # l /\ n # l - 1 /\ n # l - 2 /\ (Mismatch /\ s = "client" => n # e)
  BY <1>1
<1>6. /\ n + 1 \in 1 .. l /\ n + 1 # l /\ ~(n + 1 >= l - 1) /\ n + 1 # l - 1
      /\ Mismatch /\ s = "client" => n + 1 <= e
  <2>1. n \in Nat /\ 1 <= n /\ n <= l
    BY <1>2
  <2>2. l = e + 3 /\ e \in {2, 4} /\ n # l /\ n # l - 1 /\ n # l - 2
    BY <1>4, <1>5
  <2>3. n + 1 \in 1 .. l /\ n + 1 # l /\ ~(n + 1 >= l - 1) /\ n + 1 # l - 1
    BY <2>1, <2>2
  <2>4. n <= e /\ n # e => n + 1 <= e
    BY <2>1, <2>2
  <2> QED BY <1>4, <1>5, <2>3, <2>4
<1> QED BY <1>1, <1>3, <1>4, <1>5, <1>6, Zenon DEF ExchangeOK

LEMMA KexWriteErrorKeeps ==
    ASSUME Inv, NEW s \in Side, KexWriteError(s)
    PROVE  Inv'
<1>1. /\ pc[s].reader = "kex" /\ WriteFails(s) /\ UNCHANGED <<cfg, sock, tr, ht, sent>>
      /\ Step(s).op \in {"write", "try"}
  BY DEF KexWriteError
<1>2. CASE Step(s).op # "try"
  <2>1. FailsOK(tr[s], "write")
    BY <1>1, Amid DEF FailsOK
  <2>2. KexFails(s, "write") /\ UNCHANGED kex
    BY <1>2 DEF KexWriteError
  <2> QED BY <1>1, <2>1, <2>2, KexFailsKeeps
<1>3. CASE Step(s).op = "try"
  <2>1. Advance(s) /\ UNCHANGED why
    BY <1>3 DEF KexWriteError
  <2>2. PICK n, type : n = kex[s].step /\ type = Step(s).type
    OBVIOUS
  <2>3. /\ Maps /\ ht[s] \in Handshakes /\ tr[s] \in Ciphers /\ sock[s] \in Sockets
        /\ LockOK(ht[s], kex[s], pc[s], sock[s]) /\ FailsOK(tr[s], why[s])
        /\ KeysOK(s, tr[s], ht[s]) /\ StepOK(s, n, Step(s))
        /\ ht[s].inits = WEpoch(tr[s]) + (IF WrittenBy(s, n) = 0 THEN 0 ELSE 1)
    BY <1>1, <2>2, Amid
  <2>4. WriteOK(s, n, type) /\ type # "newkeys"
    BY <1>3, <2>2, <2>3 DEF StepOK
  <2>5. /\ n # Last /\ n # Last - 1 /\ n # Last - 2 /\ (s = "client" => n # 2 * Rounds)
        /\ WrittenBy(s, n) # 0 /\ WrittenBy(s, n + 1) # 0 /\ ReadBy(s, n + 1) = ReadBy(s, n)
    BY <2>4 DEF WriteOK
  <2>6. PICK k : k = [kex[s] EXCEPT !.step = @ + 1]
    OBVIOUS
  <2>7. ExchangeOK(s, tr[s], ht[s], k, pc[s])
    BY <1>1, <2>2, <2>5, <2>6, Further
  <2>8. /\ Changes(s, tr[s], ht[s], k, pc[s], sock[s], why[s])
        /\ sock'[Peer(s)] = sock[Peer(s)]
    <3>1. /\ DOMAIN kex' = Side /\ kex'[Peer(s)] = kex[Peer(s)] /\ kex'[s] = k
          /\ DOMAIN pc' = Side /\ pc'[Peer(s)] = pc[Peer(s)] /\ pc'[s] = pc[s]
      BY <1>1, <2>1, <2>2, <2>5, <2>6, AdvanceIs
    <3> QED BY <1>1, <2>1, <2>3, <3>1 DEF Changes, Maps
  <2>9. ht[s].inits = WEpoch(tr[s]) + (IF WrittenBy(s, kex[s].step + 1) = 0 THEN 0 ELSE 1)
    BY <2>2, <2>3, <2>5
  <2>10. Len(sock[s].wire) <= WireCap /\ ~tr[s].panic
    BY <2>3 DEF LockOK, FailsOK
  <2>11. /\ EndOK(s, tr[s], ht[s], k, pc[s], sock[s], why[s])
         /\ ReadRank(s, k, pc[s]) = ReadBy(s, kex[s].step + 1)
         /\ ReadRank(s, kex[s], pc[s]) = ReadBy(s, kex[s].step)
    BY <1>1, <2>3, <2>6, <2>7, <2>9, <2>10, Onward
  <2>12. ReadRank(s, k, pc[s]) = ReadRank(s, kex[s], pc[s])
    BY <2>2, <2>5, <2>11
  <2>13. ~(Reads(pc[Peer(s)], sock[Peer(s)]) /\ Writes(pc[s], sock[s]))
    BY <1>1 DEF WriteFails, Dead, Reads, Writes
  <2> QED BY <2>8, <2>11, <2>12, <2>13, Local
<1> QED BY <1>2, <1>3

LEMMA KexWriteKeeps ==
    ASSUME Inv, NEW s \in Side, KexWrite(s)
    PROVE  Inv'
<1>1. /\ pc[s].reader = "kex" /\ CanWrite(s) /\ UNCHANGED <<cfg, ht, why, sent>> /\ Advance(s)
      /\ Step(s).op \in {"write", "try"} /\ PutPacket(s, Step(s).type, 0)
  BY DEF KexWrite
<1>2. PICK n, e, type, m, k, o :
        /\ n = kex[s].step /\ e = REpoch(tr[s]) /\ type = Step(s).type /\ m = PacketOf(s, type, 0)
        /\ k = [kex[s] EXCEPT !.step = @ + 1] /\ o = [sock[s] EXCEPT !.wire = Append(@, m)]
  OBVIOUS
<1>3. /\ cfg \in Configs /\ Maps /\ Peer(s) \in Side /\ Peer(s) # s /\ ~cfg.hello
      /\ ht[s] \in Handshakes /\ tr[s] \in Ciphers /\ sock[s] \in Sockets /\ kex[s] \in Exchanges
      /\ LockOK(ht[s], kex[s], pc[s], sock[s]) /\ FailsOK(tr[s], why[s])
      /\ KeysOK(s, tr[s], ht[s]) /\ StepOK(s, n, Step(s))
      /\ e \in Nat /\ n \in Nat /\ Last \in {5, 7}
      /\ ht[s].inits = WEpoch(tr[s]) + (IF WrittenBy(s, n) = 0 THEN 0 ELSE 1)
  BY <1>1, <1>2, Amid
<1>4. WriteOK(s, n, type)
  BY <1>1, <1>2, <1>3 DEF StepOK
<1>5. /\ n # Last /\ n # Last - 2 /\ (s = "client" => n # 2 * Rounds)
      /\ type = "newkeys" <=> n = Last - 1
      /\ WrittenBy(s, n) # 0 /\ ReadBy(s, n + 1) = ReadBy(s, n)
      /\ type # "newkeys" => WrittenBy(s, n + 1) # 0
      /\ RankBefore(type) = WrittenBy(s, n) /\ RankAfter(type) = WrittenBy(s, n + 1)
      /\ type \in Methods(s) \cup {"newkeys"}
  BY <1>4 DEF WriteOK
<1>6. /\ kex[s].hash = HashOf(s, e + 1) /\ Agreed # "" /\ ht[s].sentInit # 0
      /\ WEpoch(tr[s]) = e /\ ht[s].inits = e + 1
      /\ n >= Last - 1 => tr[s].pendR # NoKey
      /\ n = Last - 1 => tr[s].pendW # NoKey
      /\ Mismatch /\ s = "client" => n <= 2 * Rounds
      /\ Last = 2 * Rounds + 3 /\ Rounds \in {1, 2}
  BY <1>1, <1>2, <1>3, <1>5, Midway
<1>7. type \in AllTypes /\ type \in Types(s) /\ type \notin {"data", "kexinit"}
  BY <1>5 DEF AllTypes, Types, Methods, Replies
<1>8. /\ m \in Packets /\ m.type = type /\ m.key = tr[s].writer
      /\ m.hash = IF type \in Replies THEN HashOf(s, e + 1) ELSE NoHash
  BY <1>2, <1>3, <1>6, <1>7 DEF PacketOf, Packets, Ciphers, Exchanges
<1>9. Epoch(m.key) = e /\ EpochAfter(m) = (IF type = "newkeys" THEN e + 1 ELSE e)
  BY <1>6, <1>8 DEF WEpoch, EpochAfter
<1>10. m.key = KeyOf(s, s, e)
  BY <1>3, <1>6, <1>8 DEF KeysOK
<1>11. Mismatch /\ s = "client" => type # "newkeys"
  <2>1. n = Last - 1 => ~(n <= 2 * Rounds)
    <3>1. n \in Nat /\ Last = 2 * Rounds + 3 /\ Rounds \in {1, 2}
      BY <1>3, <1>6
    <3> QED BY <3>1
  <2> QED BY <1>5, <1>6, <2>1
<1>12. PacketOK(s, m)
  BY <1>3, <1>7, <1>8, <1>9, <1>10, <1>11 DEF PacketOK
<1>13. /\ o \in Sockets /\ o.open = sock[s].open /\ o.late = sock[s].late
       /\ o.wire = Append(sock[s].wire, m) /\ Len(o.wire) <= WireCap
  <2>1. sock[s] \in Sockets /\ m \in Packets /\ CanWrite(s)
    BY <1>1, <1>3, <1>8
  <2>2. o = [sock[s] EXCEPT !.wire = Append(@, m)]
    BY <1>2
  <2> QED BY <2>1, <2>2, SocketPut
<1>14. /\ DOMAIN kex' = Side /\ kex'[Peer(s)] = kex[Peer(s)] /\ kex'[s] = k
       /\ DOMAIN pc' = Side /\ pc'[Peer(s)] = pc[Peer(s)] /\ pc'[s] = pc[s]
  BY <1>1, <1>2, <1>5, AdvanceIs
<1>15. DOMAIN sock' = Side /\ sock'[Peer(s)] = sock[Peer(s)] /\ sock'[s] = o
  BY <1>1, <1>2, <1>3 DEF PutPacket, PacketOf, Maps
<1>16. Writes(pc[s], sock[s])
  BY <1>1 DEF CanWrite, Dead, Writes
<1>17. Reads(pc[s], o) => Reads(pc[s], sock[s])
  BY <1>13 DEF Reads
<1>18. CASE type # "newkeys"
  <2>1. ExchangeOK(s, tr[s], ht[s], k, pc[s])
    BY <1>1, <1>2, <1>5, <1>18, Further
  <2>2. tr' = tr
    BY <1>1, <1>2, <1>18 DEF PutPacket
  <2>3. Changes(s, tr[s], ht[s], k, pc[s], o, why[s])
    BY <1>1, <1>3, <1>14, <1>15, <2>2 DEF Changes, Maps
  <2>4. ht[s].inits = WEpoch(tr[s]) + (IF WrittenBy(s, kex[s].step + 1) = 0 THEN 0 ELSE 1)
    BY <1>2, <1>3, <1>5, <1>18
  <2>5. ~tr[s].panic
    BY <1>3 DEF FailsOK
  <2>6. /\ EndOK(s, tr[s], ht[s], k, pc[s], o, why[s])
        /\ WriteRank(s, ht[s], k, pc[s]) = WrittenBy(s, kex[s].step + 1)
        /\ WriteRank(s, ht[s], kex[s], pc[s]) = WrittenBy(s, kex[s].step)
        /\ ReadRank(s, k, pc[s]) = ReadBy(s, kex[s].step + 1)
        /\ ReadRank(s, kex[s], pc[s]) = ReadBy(s, kex[s].step)
    BY <1>1, <1>2, <1>3, <1>13, <2>1, <2>4, <2>5, Onward
  <2>7. /\ ReadRank(s, k, pc[s]) = ReadRank(s, kex[s], pc[s])
        /\ RankBefore(m.type) = WriteRank(s, ht[s], kex[s], pc[s])
        /\ WriteRank(s, ht[s], k, pc[s]) = RankAfter(m.type)
    BY <1>2, <1>5, <1>8, <2>6
  <2>8. Epoch(m.key) = WEpoch(tr[s]) /\ WEpoch(tr[s]) = EpochAfter(m)
    BY <1>6, <1>9, <1>18
  <2> QED BY <1>8, <1>12, <1>13, <1>15, <1>16, <1>17, <2>3, <2>6, <2>7, <2>8, Sending
<1>19. CASE type = "newkeys"
  <2>1. PICK t : t = [tr[s] EXCEPT !.writer = tr[s].pendW, !.pendW = NoKey,
                                   !.panic = @ \/ tr[s].pendW = NoKey]
    OBVIOUS
  <2>2. n = Last - 1 /\ tr[s].pendW # NoKey /\ tr[s].pendR # NoKey /\ ~tr[s].panic
        /\ ~(Mismatch /\ s = "client")
    <3>1. n = Last - 1 /\ n >= Last - 1
      BY <1>3, <1>5, <1>19
    <3> QED BY <1>3, <1>6, <1>11, <1>19, <3>1 DEF FailsOK
  <2>3. /\ tr[s].pendW = KeyOf(s, s, e + 1) /\ ht[s].session # NoHash
        /\ tr[s].pendR = KeyOf(Peer(s), s, e + 1) /\ tr[s].reader = KeyOf(Peer(s), s, e)
    BY <1>2, <1>3, <1>6, <2>2 DEF KeysOK
  <2>4. /\ t \in Ciphers /\ t.reader = tr[s].reader /\ t.writer = tr[s].pendW
        /\ t.pendR = tr[s].pendR /\ t.pendW = NoKey /\ ~t.panic
    BY <1>3, <2>1, <2>2 DEF Ciphers
  <2>5. REpoch(t) = e /\ WEpoch(t) = e + 1
    <3>1. PICK f \in Nat : f = e + 1
      BY <1>3
    <3>2. Epoch(KeyOf(s, s, f)) = f
      BY <1>3, Keyed
    <3> QED BY <1>2, <2>3, <2>4, <3>1, <3>2 DEF REpoch, WEpoch
  <2>6. KeysOK(s, t, ht[s])
    <3>1. t.reader = KeyOf(Peer(s), s, REpoch(t)) /\ t.writer = KeyOf(s, s, WEpoch(t))
      BY <2>3, <2>4, <2>5
    <3>2. t.pendR = KeyOf(Peer(s), s, REpoch(t) + 1) /\ t.pendW = NoKey
      BY <2>3, <2>4, <2>5
    <3>3. /\ ht[s].session \in {NoHash, HashOf(s, 1)} /\ (Mismatch => REpoch(t) = 0)
      BY <1>2, <1>3, <2>5 DEF KeysOK
    <3> QED BY <2>2, <2>3, <3>1, <3>2, <3>3 DEF KeysOK
  <2>7. k.step = Last /\ k.hash = kex[s].hash
    <3>1. k.step = n + 1 /\ k.hash = kex[s].hash
      BY <1>2, <1>3 DEF Exchanges
    <3> QED BY <1>3, <2>2, <3>1
  <2>8. ExchangeOK(s, t, ht[s], k, pc[s])
    <3>1. k.step \in 1 .. Last /\ k.step # Last - 1
      BY <1>3, <2>7
    <3>2. t.pendR # NoKey
      BY <2>2, <2>4
    <3> QED BY <1>6, <2>2, <2>5, <2>7, <3>1, <3>2 DEF ExchangeOK
  <2>9. DOMAIN tr' = Side /\ tr'[Peer(s)] = tr[Peer(s)] /\ tr'[s] = t
    BY <1>1, <1>2, <1>3, <1>19, <2>1 DEF PutPacket, Maps
  <2>10. Changes(s, t, ht[s], k, pc[s], o, why[s])
    BY <1>1, <1>3, <1>14, <1>15, <2>9 DEF Changes, Maps
  <2>11. WrittenBy(s, n + 1) = 0
    BY <1>5, <1>19 DEF RankAfter
  <2>12. ht[s].inits = WEpoch(t) + (IF WrittenBy(s, kex[s].step + 1) = 0 THEN 0 ELSE 1)
    <3>1. WrittenBy(s, kex[s].step + 1) = 0
      BY <1>2, <2>11
    <3>2. e + 1 = (e + 1) + 0
      BY <1>3
    <3> QED BY <1>6, <2>5, <3>1, <3>2
  <2>13. WEpoch(t) # 0
    BY <1>3, <2>5
  <2>14. /\ EndOK(s, t, ht[s], k, pc[s], o, why[s])
         /\ WriteRank(s, ht[s], k, pc[s]) = WrittenBy(s, kex[s].step + 1)
         /\ WriteRank(s, ht[s], kex[s], pc[s]) = WrittenBy(s, kex[s].step)
         /\ ReadRank(s, k, pc[s]) = ReadBy(s, kex[s].step + 1)
         /\ ReadRank(s, kex[s], pc[s]) = ReadBy(s, kex[s].step)
    BY <1>1, <1>2, <1>3, <1>13, <2>4, <2>6, <2>8, <2>12, <2>13, Onward
  <2>15. /\ ReadRank(s, k, pc[s]) = ReadRank(s, kex[s], pc[s])
         /\ RankBefore(m.type) = WriteRank(s, ht[s], kex[s], pc[s])
         /\ WriteRank(s, ht[s], k, pc[s]) = RankAfter(m.type)
    BY <1>2, <1>5, <1>8, <2>14
  <2>16. Epoch(m.key) = WEpoch(tr[s]) /\ WEpoch(t) = EpochAfter(m) /\ REpoch(t) = REpoch(tr[s])
    BY <1>2, <1>6, <1>9, <1>19, <2>5
  <2> QED BY <1>8, <1>12, <1>13, <1>15, <1>16, <1>17, <2>10, <2>14, <2>15, <2>16, Sending
<1> QED BY <1>18, <1>19

LEMMA FirstStep ==
    ASSUME NEW s
    PROVE  /\ WrittenBy(s, 1) = 1 /\ ReadBy(s, 1) = 1 /\ \A e \in Nat : e + 1 # 0
           /\ 1 \in 1 .. Last /\ 1 # Last /\ ~(1 >= Last - 1) /\ 1 # Last - 1 /\ 1 <= 2 * Rounds
<1>1. Last \in {5, 7} /\ Rounds \in {1, 2}
  BY LastIs
<1>2. WrittenBy(s, 1) = 1 /\ ReadBy(s, 1) = 1
  BY <1>1 DEF WrittenBy, ReadBy, Halves
<1>3. 1 \in 1 .. Last /\ 1 # Last /\ ~(1 >= Last - 1) /\ 1 # Last - 1 /\ 1 <= 2 * Rounds
  BY <1>1
<1> QED BY <1>2, <1>3

(* An end begins an exchange.                                              *)
LEMMA Enters ==
    ASSUME Inv, NEW s \in Side, pc[s].reader = "kexInit", Agreed # "",
           NEW h \in Handshakes, h.mu = ht[s].mu, h.incoming = ht[s].incoming,
           h.writeErr = ht[s].writeErr, h.session = ht[s].session,
           h.sentInit = REpoch(tr[s]) + 1, h.inits = REpoch(tr[s]) + 1,
           NEW k \in Exchanges, k.step = 1, k.hash = HashOf(s, REpoch(tr[s]) + 1),
           k.hand = kex[s].hand, NEW p, p = [pc[s] EXCEPT !.reader = "kex"],
           NEW o \in Sockets, Len(o.wire) <= WireCap
    PROVE  /\ EndOK(s, tr[s], h, k, p, o, why[s])
           /\ WriteRank(s, h, k, p) = 1 /\ ReadRank(s, k, p) = 1
<1>1. /\ tr[s] \in Ciphers /\ ht[s] \in Handshakes /\ pc[s] \in Labels
      /\ LockOK(ht[s], kex[s], pc[s], sock[s]) /\ KeysOK(s, tr[s], ht[s])
      /\ FailsOK(tr[s], why[s]) /\ PlaceOK(s, tr[s], ht[s], kex[s], pc[s], sock[s])
      /\ MainOK(tr[s], ht[s], kex[s], pc[s]) /\ HelloOK(s, tr[s], ht[s], kex[s], pc[s], sock[s])
  BY Parts
<1>2. p \in Labels /\ p.reader = "kex" /\ p.main = pc[s].main /\ p.writer = pc[s].writer
  BY <1>1 DEF Labels
<1>3. ~cfg.hello
  BY <1>1 DEF HelloOK, Side
<1>4. REpoch(tr[s]) \in Nat /\ WEpoch(tr[s]) = REpoch(tr[s])
  BY <1>1, EpochIsNat DEF REpoch, Ciphers, PlaceOK, Ended
<1>6. WrittenBy(s, 1) = 1 /\ ReadBy(s, 1) = 1
  BY FirstStep
<1>7. WriteRank(s, h, k, p) = 1 /\ ReadRank(s, k, p) = 1
  BY <1>2, <1>6 DEF WriteRank, ReadRank
<1>8. LockOK(h, k, p, o)
  BY <1>1, <1>2 DEF LockOK, Inside
<1>9. MainOK(tr[s], h, k, p) /\ HelloOK(s, tr[s], h, k, p, o)
  BY <1>1, <1>2, <1>3 DEF MainOK, HelloOK
<1>10. KeysOK(s, tr[s], h)
  BY <1>1 DEF KeysOK
<1>11. ExchangeOK(s, tr[s], h, k, p)
  <2>1. 1 \in 1 .. Last /\ 1 # Last /\ ~(1 >= Last - 1) /\ 1 # Last - 1 /\ 1 <= 2 * Rounds
    BY FirstStep, Zenon
  <2>2. REpoch(tr[s]) + 1 # 0
    BY <1>4, FirstStep, Zenon
  <2> QED BY <1>4, <2>1, <2>2 DEF ExchangeOK
<1>12. PlaceOK(s, tr[s], h, k, p, o)
  <2>1. h.inits = WEpoch(tr[s]) + 1
    BY <1>4
  <2>2. h.inits = WEpoch(tr[s]) + (IF WriteRank(s, h, k, p) = 0 THEN 0 ELSE 1)
    BY <1>7, <2>1
  <2>3. p.reader \notin {"kexLock", "kexInit", "kexDone"}
    BY <1>2
  <2> QED BY <1>2, <1>11, <2>2, <2>3, Zenon DEF PlaceOK
<1> QED BY <1>1, <1>2, <1>7, <1>8, <1>9, <1>10, <1>12 DEF EndOK, EndTyped

LEMMA KexBeginKeeps ==
    ASSUME Inv, NEW s \in Side, KexBegin(s)
    PROVE  Inv'
<1>1. PICK ok \in BOOLEAN, h \in {ht[s], Sent(s)} :
        /\ SendKexInit(s, h, ok) /\ SetHt(s, h)
        /\ kex' = [kex EXCEPT ![s].step = 1, ![s].hash = Hash(s, h.sentInit, kex[s].theirs)]
        /\ IF ~ok THEN KexFails(s, "write")
           ELSE IF Agreed = "" THEN KexFails(s, "algorithms")
           ELSE Goto(s, "reader", "kex") /\ UNCHANGED why
  BY DEF KexBegin
<1>2. pc[s].reader = "kexInit" /\ UNCHANGED <<cfg, sent>>
  BY DEF KexBegin
<1>3. /\ cfg \in Configs /\ Maps /\ Peer(s) \in Side /\ Peer(s) # s /\ ht[s] \in Handshakes
      /\ kex[s] \in Exchanges /\ sock[s] \in Sockets /\ tr[s] \in Ciphers /\ pc[s] \in Labels
      /\ LockOK(ht[s], kex[s], pc[s], sock[s]) /\ FailsOK(tr[s], why[s])
      /\ PlaceOK(s, tr[s], ht[s], kex[s], pc[s], sock[s])
      /\ HelloOK(s, tr[s], ht[s], kex[s], pc[s], sock[s])
  BY Parts
<1>4. ~cfg.hello
  BY <1>2, <1>3 DEF HelloOK, Side
<1>5. PICK e : e = REpoch(tr[s])
  OBVIOUS
<1>6. e \in Nat /\ WEpoch(tr[s]) = e /\ kex[s].theirs = e + 1
  BY <1>2, <1>3, <1>4, <1>5, EpochIsNat DEF REpoch, Ciphers, PlaceOK, Ended
<1>7. /\ WriteRank(s, ht[s], kex[s], pc[s]) = IF ht[s].sentInit = 0 THEN 0 ELSE 1
      /\ ReadRank(s, kex[s], pc[s]) = 1
  BY <1>2 DEF WriteRank, ReadRank
<1>8. /\ ht[s].sentInit # 0 => ht[s].sentInit = e + 1 /\ ht[s].inits = e + 1
      /\ ht[s].sentInit = 0 => ht[s].inits = e
      /\ Len(sock[s].wire) <= WireCap /\ ht[s].sentInit \in {0, ht[s].inits}
  <2>1. ht[s].inits = e + (IF WriteRank(s, ht[s], kex[s], pc[s]) = 0 THEN 0 ELSE 1)
    BY <1>2, <1>3, <1>6 DEF PlaceOK, Ended
  <2>2. ht[s].sentInit \in {0, ht[s].inits} /\ Len(sock[s].wire) <= WireCap
    BY <1>3 DEF LockOK
  <2> QED BY <1>6, <1>7, <2>1, <2>2
<1>9. PICK x, k : /\ x = Hash(s, h.sentInit, kex[s].theirs)
                  /\ k = [kex[s] EXCEPT !.step = 1, !.hash = x]
  OBVIOUS
<1>10. DOMAIN kex' = Side /\ kex'[s] = k /\ kex'[Peer(s)] = kex[Peer(s)]
  BY <1>1, <1>3, <1>9 DEF Maps
<1>11. /\ h \in Handshakes /\ h.mu = ht[s].mu /\ h.incoming = ht[s].incoming
       /\ h.writeErr = ht[s].writeErr /\ h.session = ht[s].session
       /\ h.sentInit \in {0, h.inits}
  <2>1. CASE h = ht[s]
    BY <1>3, <1>8, <2>1
  <2>2. CASE h = Sent(s)
    BY <1>3, <2>2, SentIs
  <2> QED BY <2>1, <2>2
<1>12. x \in Hashes /\ k \in Exchanges /\ k.step = 1 /\ k.hash = x /\ k.hand = kex[s].hand
  <2>1. h.sentInit \in Nat /\ kex[s].theirs \in Nat /\ cfg.bits[s] \in Nat
    BY <1>3, <1>11, Configured DEF Handshakes, Exchanges
  <2>2. x \in Hashes
    BY <1>9, <2>1 DEF Hash, Hashes
  <2> QED BY <1>3, <1>9, <2>2 DEF Exchanges
<1>13. h.sentInit = e + 1 => x = HashOf(s, e + 1)
  BY <1>6, <1>9 DEF HashOf
<1>14. /\ FailsOK(tr[s], "write") /\ FailsOK(tr[s], "algorithms")
  BY <1>3 DEF FailsOK
<1>15. PICK p, q : /\ p = [pc[s] EXCEPT !.reader = "kex"]
                   /\ q = [pc[s] EXCEPT !.reader = "kexFailed"]
  OBVIOUS
<1>16. CASE h = ht[s] /\ UNCHANGED <<sock, tr>>
  <2>1. CASE ~ok
    <3>1. Changes(s, tr[s], h, k, q, sock[s], "write") /\ sock'[Peer(s)] = sock[Peer(s)]
      BY <1>1, <1>2, <1>3, <1>10, <1>15, <1>16, <2>1 DEF Changes, Maps, SetHt, KexFails, Goto
    <3>2. EndOK(s, tr[s], h, k, q, sock[s], "write") /\ ~Reads(q, sock[s]) /\ ~Writes(q, sock[s])
      BY <1>2, <1>3, <1>8, <1>11, <1>12, <1>14, <1>15, Gives
    <3> QED BY <3>1, <3>2, Local
  <2>2. CASE ok /\ Agreed = ""
    <3>1. Changes(s, tr[s], h, k, q, sock[s], "algorithms") /\ sock'[Peer(s)] = sock[Peer(s)]
      BY <1>1, <1>2, <1>3, <1>10, <1>15, <1>16, <2>2 DEF Changes, Maps, SetHt, KexFails, Goto
    <3>2. /\ EndOK(s, tr[s], h, k, q, sock[s], "algorithms")
          /\ ~Reads(q, sock[s]) /\ ~Writes(q, sock[s])
      BY <1>2, <1>3, <1>8, <1>11, <1>12, <1>14, <1>15, Gives
    <3> QED BY <3>1, <3>2, Local
  <2>3. CASE ok /\ Agreed # ""
    <3>1. Changes(s, tr[s], h, k, p, sock[s], why[s]) /\ sock'[Peer(s)] = sock[Peer(s)]
      BY <1>1, <1>2, <1>3, <1>10, <1>15, <1>16, <2>3 DEF Changes, Maps, SetHt, Goto
    <3>2. ht[s].sentInit # 0
      <4>1. \/ h = ht[s] /\ UNCHANGED <<sock, tr>> /\ (ok <=> ht[s].sentInit # 0)
            \/ h = Sent(s) /\ ht[s].sentInit = 0
        BY <1>1, Inited
      <4>2. h = Sent(s) /\ ht[s].sentInit = 0 => FALSE
        <5>1. Sent(s).sentInit = ht[s].inits + 1
          BY <1>3, SentIs
        <5>2. ht[s].inits + 1 # 0
          BY <1>3 DEF Handshakes
        <5> QED BY <1>16, <5>1, <5>2
      <4> QED BY <2>3, <4>1, <4>2, Zenon
    <3>3. h.sentInit = REpoch(tr[s]) + 1 /\ h.inits = REpoch(tr[s]) + 1
          /\ k.hash = HashOf(s, REpoch(tr[s]) + 1)
      BY <1>5, <1>8, <1>12, <1>13, <1>16, <3>2
    <3>4. /\ EndOK(s, tr[s], h, k, p, sock[s], why[s])
          /\ WriteRank(s, h, k, p) = 1 /\ ReadRank(s, k, p) = 1
      <4>1. k \in Exchanges /\ k.step = 1 /\ k.hand = kex[s].hand
        BY <1>12
      <4>2. sock[s] \in Sockets /\ Len(sock[s].wire) <= WireCap /\ Agreed # ""
        BY <1>3, <1>8, <2>3
      <4>3. p = [pc[s] EXCEPT !.reader = "kex"]
        BY <1>15
      <4> QED BY <1>2, <1>11, <3>3, <4>1, <4>2, <4>3, Enters
    <3>5. p.reader = "kex"
      BY <1>3, <1>15 DEF Labels
    <3>6. /\ Reads(p, sock[s]) => Reads(pc[s], sock[s])
          /\ Writes(p, sock[s]) => Writes(pc[s], sock[s])
      BY <1>2, <3>5 DEF Reads, Writes, Ended
    <3> QED BY <1>7, <3>1, <3>2, <3>4, <3>6, Local
  <2> QED BY <2>1, <2>2, <2>3
<1>17. CASE /\ ok /\ ht[s].sentInit = 0 /\ CanWrite(s) /\ h = Sent(s) /\ tr' = tr
            /\ DOMAIN sock' = Side /\ sock'[Peer(s)] = sock[Peer(s)]
            /\ sock'[s] = [sock[s] EXCEPT !.wire =
                             Append(@, PacketOf(s, "kexinit", ht[s].inits + 1))]
  <2>1. PICK m : m = PacketOf(s, "kexinit", ht[s].inits + 1)
    OBVIOUS
  <2>2. PICK o : o = [sock[s] EXCEPT !.wire = Append(@, m)]
    OBVIOUS
  <2>3. /\ m \in Packets /\ PacketOK(s, m)
        /\ Epoch(m.key) = WEpoch(tr[s]) /\ EpochAfter(m) = WEpoch(tr[s])
        /\ RankBefore(m.type) = WriteRank(s, ht[s], kex[s], pc[s]) /\ RankAfter(m.type) = 1
        /\ Writes(pc[s], sock[s])
    BY <1>2, <1>4, <1>17, <2>1, InitPacket
  <2>4. /\ o \in Sockets /\ o.open = sock[s].open /\ o.late = sock[s].late
        /\ o.wire = Append(sock[s].wire, m) /\ Len(o.wire) <= WireCap
    BY <1>3, <1>17, <2>2, <2>3, SocketPut
  <2>5. sock'[s] = o
    BY <1>17, <2>1, <2>2
  <2>6. CASE Agreed = ""
    <3>1. Changes(s, tr[s], h, k, q, o, "algorithms") /\ sock'[Peer(s)] = sock[Peer(s)]
      BY <1>1, <1>2, <1>3, <1>10, <1>15, <1>17, <2>5, <2>6
         DEF Changes, Maps, SetHt, KexFails, Goto
    <3>2. EndOK(s, tr[s], h, k, q, o, "algorithms") /\ ~Reads(q, o) /\ ~Writes(q, o)
      <4>1. k \in Exchanges /\ k.hand = kex[s].hand /\ o \in Sockets /\ Len(o.wire) <= WireCap
        BY <1>12, <2>4
      <4>2. q = [pc[s] EXCEPT !.reader = "kexFailed"]
        BY <1>15
      <4> QED BY <1>2, <1>11, <1>14, <4>1, <4>2, Gives
    <3> QED BY <2>3, <2>4, <3>1, <3>2, Sending
  <2>7. CASE Agreed # ""
    <3>1. Changes(s, tr[s], h, k, p, o, why[s]) /\ sock'[Peer(s)] = sock[Peer(s)]
      BY <1>1, <1>2, <1>3, <1>10, <1>15, <1>17, <2>5, <2>7 DEF Changes, Maps, SetHt, Goto
    <3>2. h.sentInit = REpoch(tr[s]) + 1 /\ h.inits = REpoch(tr[s]) + 1
          /\ k.hash = HashOf(s, REpoch(tr[s]) + 1)
      <4>1. Sent(s).sentInit = ht[s].inits + 1 /\ Sent(s).inits = ht[s].inits + 1
        BY <1>3, SentIs
      <4> QED BY <1>5, <1>8, <1>12, <1>13, <1>17, <4>1
    <3>3. /\ EndOK(s, tr[s], h, k, p, o, why[s])
          /\ WriteRank(s, h, k, p) = 1 /\ ReadRank(s, k, p) = 1
      BY <1>2, <1>11, <1>12, <1>15, <2>4, <2>7, <3>2, Enters
    <3>4. Reads(p, o) => Reads(pc[s], sock[s])
      BY <1>2, <2>4 DEF Reads, Ended
    <3> QED BY <1>7, <2>3, <2>4, <3>1, <3>3, <3>4, Sending
  <2> QED BY <2>6, <2>7
<1> QED BY <1>1, <1>16, <1>17, Inited

LEMMA KexDoneKeeps ==
    ASSUME Inv, NEW s \in Side, KexDone(s)
    PROVE  Inv'
<1>1. /\ cfg \in Configs /\ Maps /\ Peer(s) \in Side /\ Peer(s) # s /\ ht[s] \in Handshakes
      /\ kex[s] \in Exchanges /\ sock[s] \in Sockets /\ tr[s] \in Ciphers /\ pc[s] \in Labels
      /\ LockOK(ht[s], kex[s], pc[s], sock[s]) /\ FailsOK(tr[s], why[s]) /\ KeysOK(s, tr[s], ht[s])
      /\ PlaceOK(s, tr[s], ht[s], kex[s], pc[s], sock[s]) /\ MainOK(tr[s], ht[s], kex[s], pc[s])
      /\ HelloOK(s, tr[s], ht[s], kex[s], pc[s], sock[s])
  BY Parts
<1>2. pc[s].reader = "kexDone" /\ UNCHANGED <<cfg, sock, tr, why, sent>>
  BY DEF KexDone
<1>3. PICK first, b, v :
        /\ first = (ht[s].session = NoHash \/ kex[s].hash = ht[s].session)
        /\ b = IF first THEN "deliver" ELSE "read"
        /\ v = IF first THEN <<[type |-> "newkeys", n |-> 0]>> ELSE <<>>
  OBVIOUS
<1>4. PICK h, k, p :
        /\ h = [ht[s] EXCEPT !.sentInit = 0, !.written = 0, !.mu = NoOne, !.readn = 0]
        /\ k = [theirs |-> 0, step |-> 0, hash |-> NoHash, hand |-> v]
        /\ p = [pc[s] EXCEPT !.reader = b,
                             !.main = IF pc[s].main = "wait" THEN "relock" ELSE pc[s].main,
                             !.writer = IF pc[s].writer = "wait" THEN "relock" ELSE pc[s].writer]
  OBVIOUS
<1>5. Changes(s, tr[s], h, k, p, sock[s], why[s]) /\ sock'[Peer(s)] = sock[Peer(s)]
  <2>1. Top(0) = "read"
    BY TopIs
  <2>2. /\ ht' = [ht EXCEPT ![s] = h]
        /\ kex' = [kex EXCEPT ![s] = k]
        /\ pc' = [pc EXCEPT ![s] = [Broadcast(s) EXCEPT !.reader = b]]
    BY <1>3, <1>4, <2>1 DEF KexDone, SetHt
  <2>3. [Broadcast(s) EXCEPT !.reader = b] = p
    BY <1>1, <1>3, <1>4, Woken
  <2>4. pc' = [pc EXCEPT ![s] = p]
    BY <2>2, <2>3
  <2> QED BY <1>1, <1>2, <2>2, <2>4 DEF Changes, Maps
<1>6. /\ h \in Handshakes /\ h.sentInit = 0 /\ h.inits = ht[s].inits /\ h.mu = NoOne /\ h.readn = 0
      /\ h.session = ht[s].session /\ h.incoming = ht[s].incoming /\ h.writeErr = ht[s].writeErr
  BY <1>1, <1>4 DEF Handshakes, NoOne, Thread
<1>7. /\ v \in Seq(Delivered) /\ Len(v) <= 1 /\ (v # <<>> <=> b = "deliver")
      /\ \A i \in 1 .. Len(v) : v[i].type = "newkeys"
  <2>1. CASE first
    <3>1. PICK m : m = [type |-> "newkeys", n |-> 0]
      OBVIOUS
    <3>2. m \in Delivered /\ m.type = "newkeys" /\ v = <<m>> /\ b = "deliver"
      BY <1>3, <2>1, <3>1 DEF Delivered, AllTypes
    <3> QED BY <3>2
  <2>2. CASE ~first
    BY <1>3, <2>2
  <2> QED BY <2>1, <2>2
<1>8. b \in {"deliver", "read"}
  BY <1>3
<1>9. k \in Exchanges /\ k.hand = v
  BY <1>4, <1>7 DEF Exchanges
<1>10. /\ p \in Labels /\ p.reader = b
       /\ p.main = (IF pc[s].main = "wait" THEN "relock" ELSE pc[s].main)
       /\ p.writer = (IF pc[s].writer = "wait" THEN "relock" ELSE pc[s].writer)
  <2>1. PICK x, y : /\ x = (IF pc[s].main = "wait" THEN "relock" ELSE pc[s].main)
                    /\ y = (IF pc[s].writer = "wait" THEN "relock" ELSE pc[s].writer)
    OBVIOUS
  <2>2. p = [pc[s] EXCEPT !.reader = b, !.main = x, !.writer = y]
    BY <1>4, <2>1
  <2>3. pc[s] \in Labels
    BY <1>1
  <2>4. [pc[s] EXCEPT !.reader = b, !.main = x, !.writer = y] \in Labels
    <3>1. x \in {"start", "firstInit", "newkeys", "loop", "close", "done"} \cup Writing
      BY <2>1, <2>3 DEF Labels, Writing
    <3>2. y \in {"off", "idle", "failed"} \cup Writing
      BY <2>1, <2>3 DEF Labels, Writing
    <3> QED BY <1>8, <2>3, <3>1, <3>2 DEF Labels
  <2> QED BY <2>1, <2>2, <2>3, <2>4 DEF Labels
<1>11. LockOK(h, k, p, sock[s])
  <2>1. /\ p.main \notin Inside /\ p.writer \notin Inside /\ p.reader \notin Inside
        /\ p.main # "wait" /\ p.writer # "wait" /\ p.reader # "done"
    BY <1>1, <1>2, <1>8, <1>10 DEF LockOK, Inside
  <2> QED BY <1>1, <1>6, <1>7, <1>9, <1>10, <2>1 DEF LockOK, NoOne
<1>12. cfg.hello \/ WEpoch(tr[s]) # 0
  BY <1>1, <1>2 DEF PlaceOK, Ended
<1>13. MainOK(tr[s], h, k, p)
  BY <1>12 DEF MainOK
<1>14. HelloOK(s, tr[s], h, k, p, sock[s])
  BY <1>1, <1>2, <1>6, <1>7, <1>8, <1>9, <1>10 DEF HelloOK
<1>15. KeysOK(s, tr[s], h)
  BY <1>1, <1>6 DEF KeysOK
<1>16. /\ WriteRank(s, h, k, p) = 0 /\ WriteRank(s, ht[s], kex[s], pc[s]) = 0
       /\ ReadRank(s, k, p) = 0 /\ ReadRank(s, kex[s], pc[s]) = 0
  BY <1>2, <1>6, <1>8, <1>10 DEF WriteRank, ReadRank
<1>17. PlaceOK(s, tr[s], h, k, p, sock[s])
  BY <1>1, <1>2, <1>6, <1>8, <1>10, <1>16 DEF PlaceOK, Ended
<1>18. EndOK(s, tr[s], h, k, p, sock[s], why[s])
  BY <1>1, <1>6, <1>9, <1>10, <1>11, <1>13, <1>14, <1>15, <1>17 DEF EndOK, EndTyped
<1>19. /\ Reads(p, sock[s]) => Reads(pc[s], sock[s])
       /\ Writes(p, sock[s]) => Writes(pc[s], sock[s])
  BY <1>2, <1>8, <1>10 DEF Reads, Writes, Ended
<1> QED BY <1>5, <1>16, <1>18, <1>19, Local

LEMMA KexFailedKeeps ==
    ASSUME Inv, NEW s \in Side, KexFailed(s)
    PROVE  Inv'
<1>1. /\ cfg \in Configs /\ Maps /\ Peer(s) \in Side /\ Peer(s) # s /\ ht[s] \in Handshakes
      /\ kex[s] \in Exchanges /\ sock[s] \in Sockets /\ tr[s] \in Ciphers /\ pc[s] \in Labels
      /\ LockOK(ht[s], kex[s], pc[s], sock[s]) /\ FailsOK(tr[s], why[s]) /\ KeysOK(s, tr[s], ht[s])
      /\ MainOK(tr[s], ht[s], kex[s], pc[s])
      /\ HelloOK(s, tr[s], ht[s], kex[s], pc[s], sock[s])
  BY Parts
<1>2. pc[s].reader = "kexFailed" /\ UNCHANGED <<cfg, tr, kex, why, sent>>
  BY DEF KexFailed
<1>3. PICK h, o, p :
        /\ h = [ht[s] EXCEPT !.writeErr = TRUE, !.sentInit = 0, !.written = 0,
                             !.mu = NoOne, !.closed = TRUE]
        /\ o = [sock[s] EXCEPT !.open = FALSE]
        /\ p = [pc[s] EXCEPT !.reader = "end",
                             !.main = IF pc[s].main = "wait" THEN "relock" ELSE pc[s].main,
                             !.writer = IF pc[s].writer = "wait" THEN "relock" ELSE pc[s].writer]
  OBVIOUS
<1>4. Changes(s, tr[s], h, kex[s], p, o, why[s]) /\ sock'[Peer(s)] = sock[Peer(s)]
  <2>1. [Broadcast(s) EXCEPT !.reader = "end"] = p
    BY <1>1, <1>3, Woken
  <2>2. /\ ht' = [ht EXCEPT ![s] = h] /\ pc' = [pc EXCEPT ![s] = p]
        /\ sock' = [sock EXCEPT ![s].open = FALSE]
    BY <1>3, <2>1 DEF KexFailed, SetHt, CloseConn
  <2> QED BY <1>1, <1>2, <1>3, <2>2 DEF Changes, Maps
<1>5. /\ h \in Handshakes /\ h.sentInit = 0 /\ h.inits = ht[s].inits /\ h.mu = NoOne /\ h.writeErr
      /\ h.session = ht[s].session /\ h.incoming = ht[s].incoming
  BY <1>1, <1>3 DEF Handshakes, NoOne, Thread
<1>6. /\ p \in Labels /\ p.reader = "end"
      /\ p.main = (IF pc[s].main = "wait" THEN "relock" ELSE pc[s].main)
      /\ p.writer = (IF pc[s].writer = "wait" THEN "relock" ELSE pc[s].writer)
  <2>1. PICK x, y : /\ x = (IF pc[s].main = "wait" THEN "relock" ELSE pc[s].main)
                    /\ y = (IF pc[s].writer = "wait" THEN "relock" ELSE pc[s].writer)
    OBVIOUS
  <2>2. p = [pc[s] EXCEPT !.reader = "end", !.main = x, !.writer = y]
    BY <1>3, <2>1
  <2>3. pc[s] \in Labels
    BY <1>1
  <2>4. x \in {"start", "firstInit", "newkeys", "loop", "close", "done"} \cup Writing
    BY <2>1, <2>3 DEF Labels, Writing
  <2>5. y \in {"off", "idle", "failed"} \cup Writing
    BY <2>1, <2>3 DEF Labels, Writing
  <2>6. [pc[s] EXCEPT !.reader = "end", !.main = x, !.writer = y] \in Labels
    BY <2>3, <2>4, <2>5 DEF Labels
  <2> QED BY <2>1, <2>2, <2>3, <2>6 DEF Labels
<1>7. o \in Sockets /\ ~o.open /\ o.wire = sock[s].wire
  BY <1>1, <1>3 DEF Sockets
<1>8. LockOK(h, kex[s], p, o)
  <2>1. /\ p.main \notin Inside /\ p.writer \notin Inside /\ p.reader \notin Inside
        /\ p.main # "wait" /\ p.writer # "wait"
    BY <1>1, <1>2, <1>6 DEF LockOK, Inside
  <2> QED BY <1>1, <1>2, <1>5, <1>6, <1>7, <2>1 DEF LockOK, NoOne
<1>9. ~cfg.hello
  BY <1>1, <1>2 DEF HelloOK, Side
<1>10. MainOK(tr[s], h, kex[s], p) /\ HelloOK(s, tr[s], h, kex[s], p, o)
  BY <1>1, <1>5, <1>6, <1>9 DEF MainOK, HelloOK
<1>11. KeysOK(s, tr[s], h)
  BY <1>1, <1>5 DEF KeysOK
<1>12. ~Reads(p, o) /\ ~Writes(p, o)
  BY <1>7 DEF Reads, Writes
<1>13. PlaceOK(s, tr[s], h, kex[s], p, o)
  BY <1>6, <1>12 DEF PlaceOK, Ended
<1>14. EndOK(s, tr[s], h, kex[s], p, o, why[s])
  BY <1>1, <1>5, <1>6, <1>7, <1>8, <1>10, <1>11, <1>13 DEF EndOK, EndTyped
<1> QED BY <1>4, <1>7, <1>12, <1>14, Local

-----------------------------------------------------------------------------
(* Reading a packet: it is under the reader's key, and of the place that   *)
(* the reader is at.                                                       *)
LEMMA SameKey ==
    ASSUME Inv, NEW s \in Side, NEW m, PacketOK(Peer(s), m), Epoch(m.key) = REpoch(tr[s])
    PROVE  m.key = tr[s].reader
<1>1. PICK d, e : d = Peer(s) /\ e = REpoch(tr[s])
  OBVIOUS
<1>2. /\ cfg \in Configs /\ tr[s] \in Ciphers /\ KeysOK(s, tr[s], ht[s]) /\ d \in Side
      /\ Peer(d) = s
  BY <1>1, Parts, Sides
<1>3. e \in Nat
  BY <1>1, <1>2, EpochIsNat DEF REpoch, Ciphers
<1>4. m.key = KeyOf(d, d, e)
  BY <1>1 DEF PacketOK
<1>5. tr[s].reader = KeyOf(d, s, e) /\ (Mismatch => e = 0)
  BY <1>1, <1>2 DEF KeysOK
<1>6. ~Mismatch \/ e = 0 => KeyOf(d, d, e) = KeyOf(d, s, e)
  BY <1>2, <1>3, Keyed
<1> QED BY <1>4, <1>5, <1>6

LEMMA Received ==
    ASSUME Inv, NEW s \in Side, Inbound(s) # <<>>, NEW m, m = Head(Inbound(s))
    PROVE  /\ m \in Packets /\ PacketOK(Peer(s), m) /\ Epoch(m.key) = REpoch(tr[s])
           /\ m.key = tr[s].reader
           /\ Reads(pc[s], sock[s]) => RankBefore(m.type) = ReadRank(s, kex[s], pc[s])
<1>1. PICK d, q : d = Peer(s) /\ q = sock[d].wire
  OBVIOUS
<1>2. d \in Side /\ Peer(d) = s
  BY <1>1, Sides
<1>3. Wire(d) /\ sock[d] \in Sockets
  BY <1>2, Parts, Zenon DEF Inv
<1>4. q \in Seq(Packets) /\ q # <<>> /\ m = Head(q)
  BY <1>1, <1>3 DEF Sockets, Inbound
<1>5. PICK re, reads, rr, we, writes, wr :
        /\ re = REpoch(tr[s]) /\ reads = Reads(pc[s], sock[s]) /\ rr = ReadRank(s, kex[s], pc[s])
        /\ we = WEpoch(tr[d]) /\ writes = Writes(pc[d], sock[d])
        /\ wr = WriteRank(d, ht[d], kex[d], pc[d])
  OBVIOUS
<1>6. WireOK(d, q, re, reads, rr, we, writes, wr)
  BY <1>1, <1>2, <1>3, <1>5 DEF Wire
<1>7. /\ m \in Packets /\ PacketOK(d, m) /\ Epoch(m.key) = re
      /\ reads => RankBefore(m.type) = rr
  BY <1>4, <1>6, First, Zenon
<1>8. m.key = tr[s].reader
  BY <1>1, <1>5, <1>7, SameKey
<1> QED BY <1>1, <1>5, <1>7, <1>8

(* What is left of the wire.                                               *)
LEMMA TakenIs ==
    ASSUME Inv, NEW s \in Side, TakePacket(s)
    PROVE  /\ DOMAIN sock' = Side /\ sock'[s] = sock[s]
           /\ sock'[Peer(s)] = [sock[Peer(s)] EXCEPT !.wire = Tail(Inbound(s))]
           /\ ReadResult(s) # "newkeys" => tr' = tr
           /\ ReadResult(s) = "newkeys" =>
                /\ DOMAIN tr' = Side /\ tr'[Peer(s)] = tr[Peer(s)]
                /\ tr'[s] = [tr[s] EXCEPT !.reader = tr[s].pendR, !.pendR = NoKey]
<1>1. Maps /\ Peer(s) \in Side /\ Peer(s) # s
  BY Parts
<1>2. DOMAIN sock' = Side /\ sock'[s] = sock[s]
      /\ sock'[Peer(s)] = [sock[Peer(s)] EXCEPT !.wire = Tail(Inbound(s))]
  BY <1>1 DEF TakePacket, Maps, Inbound
<1>3. /\ ReadResult(s) # "newkeys" => tr' = tr
      /\ ReadResult(s) = "newkeys" =>
           tr' = [tr EXCEPT ![s].reader = tr[s].pendR, ![s].pendR = NoKey]
  BY DEF TakePacket
<1>4. ReadResult(s) = "newkeys" =>
        /\ DOMAIN tr' = Side /\ tr'[Peer(s)] = tr[Peer(s)]
        /\ tr'[s] = [tr[s] EXCEPT !.reader = tr[s].pendR, !.pendR = NoKey]
  BY <1>1, <1>3 DEF Maps
<1> QED BY <1>2, <1>3, <1>4

(* Outside of an exchange only data and KEXINITs come.                     *)
LEMMA RankZero ==
    ASSUME NEW s \in Side, NEW type \in Types(s), RankBefore(type) = 0
    PROVE  type \in {"data", "kexinit"}
<1>1. Rounds \in {1, 2}
  BY LastIs
<1>2. type = "newkeys" => RankBefore(type) = Rounds + 1
  BY <1>1 DEF RankBefore, Rank
<1>3. type \notin {"data", "kexinit", "newkeys"} => RankBefore(type) \in {1, 2}
  BY DEF RankBefore, Rank
<1> QED BY <1>1, <1>2, <1>3

LEMMA readOnePacketKeeps ==
    ASSUME Inv, NEW s \in Side, readOnePacket(s)
    PROVE  Inv'
<1>1. /\ pc[s].reader = "read" /\ CanRead(s) /\ TakePacket(s) /\ UNCHANGED <<cfg, sent>>
  BY DEF readOnePacket
<1>2. PICK m, e : m = Head(Inbound(s)) /\ e = REpoch(tr[s])
  OBVIOUS
<1>3. /\ cfg \in Configs /\ Maps /\ Peer(s) \in Side /\ Peer(s) # s /\ ht[s] \in Handshakes
      /\ kex[s] \in Exchanges /\ sock[s] \in Sockets /\ tr[s] \in Ciphers /\ pc[s] \in Labels
      /\ LockOK(ht[s], kex[s], pc[s], sock[s]) /\ FailsOK(tr[s], why[s]) /\ KeysOK(s, tr[s], ht[s])
      /\ PlaceOK(s, tr[s], ht[s], kex[s], pc[s], sock[s]) /\ MainOK(tr[s], ht[s], kex[s], pc[s])
      /\ HelloOK(s, tr[s], ht[s], kex[s], pc[s], sock[s])
  BY Parts
<1>4. Inbound(s) # <<>> /\ sock[s].open
  BY <1>1 DEF CanRead, Dead
<1>5. /\ m \in Packets /\ PacketOK(Peer(s), m) /\ Epoch(m.key) = e /\ m.key = tr[s].reader
      /\ Reads(pc[s], sock[s]) => RankBefore(m.type) = ReadRank(s, kex[s], pc[s])
  BY <1>2, <1>4, Received
<1>6. ReadRank(s, kex[s], pc[s]) = 0 /\ (~cfg.hello => Reads(pc[s], sock[s]))
  BY <1>1, <1>4 DEF ReadRank, Reads, Ended
<1>7. m.type \in {"data", "kexinit"}
  <2>1. CASE cfg.hello
    BY <1>5, <2>1 DEF PacketOK
  <2>2. CASE ~cfg.hello
    <3>1. m.type \in Types(Peer(s)) /\ RankBefore(m.type) = 0
      BY <1>5, <1>6, <2>2 DEF PacketOK
    <3> QED BY <1>3, <3>1, RankZero
  <2> QED BY <2>1, <2>2
<1>8. ReadResult(s) = m.type
  BY <1>2, <1>5, <1>7 DEF ReadResult
<1>9. /\ DOMAIN sock' = Side /\ sock'[s] = sock[s] /\ tr' = tr
      /\ sock'[Peer(s)] = [sock[Peer(s)] EXCEPT !.wire = Tail(Inbound(s))]
  BY <1>1, <1>7, <1>8, TakenIs
<1>10. EpochAfter(m) = e /\ WEpoch(tr[s]) = e
  BY <1>1, <1>2, <1>3, <1>5, <1>7 DEF EpochAfter, PlaceOK, Ended
<1>11. PICK h : h = [ht[s] EXCEPT !.readn = @ + 1]
  OBVIOUS
<1>12. /\ h \in Handshakes /\ h.sentInit = ht[s].sentInit /\ h.inits = ht[s].inits
       /\ h.mu = ht[s].mu /\ h.session = ht[s].session /\ h.incoming = ht[s].incoming
       /\ h.writeErr = ht[s].writeErr
  <2>1. PICK j : j = ht[s].readn + 1
    OBVIOUS
  <2>2. ht[s] \in Handshakes /\ j \in Nat
    BY <1>3, <2>1 DEF Handshakes
  <2>3. h = [ht[s] EXCEPT !.readn = j]
    BY <1>11, <2>1
  <2> QED BY <2>2, <2>3 DEF Handshakes
<1>13. KeysOK(s, tr[s], h)
  BY <1>3, <1>12 DEF KeysOK
<1>14. CASE m.type = "kexinit"
  <2>1. PICK k, p : /\ k = [kex[s] EXCEPT !.theirs = m.n]
                    /\ p = [pc[s] EXCEPT !.reader = "kexLock"]
    OBVIOUS
  <2>2. /\ k \in Exchanges /\ k.theirs = e + 1 /\ k.step = kex[s].step /\ k.hash = kex[s].hash
        /\ k.hand = kex[s].hand
    <3>1. m.n \in Nat /\ m.n = e + 1
      BY <1>5, <1>14 DEF Packets, PacketOK
    <3> QED BY <1>3, <2>1, <3>1 DEF Exchanges
  <2>3. p \in Labels /\ p.reader = "kexLock" /\ p.main = pc[s].main /\ p.writer = pc[s].writer
    BY <1>3, <2>1 DEF Labels
  <2>4. Changes(s, tr[s], h, k, p, sock[s], why[s])
    <3>1. /\ SetHt(s, h) /\ kex' = [kex EXCEPT ![s].theirs = m.n]
          /\ Goto(s, "reader", "kexLock") /\ UNCHANGED why
      BY <1>2, <1>8, <1>11, <1>14 DEF readOnePacket, Bad
    <3> QED BY <1>1, <1>3, <1>9, <2>1, <3>1 DEF Changes, Maps, SetHt, Goto
  <2>5. LockOK(h, k, p, sock[s])
    BY <1>1, <1>3, <1>12, <2>2, <2>3 DEF LockOK, Inside
  <2>6. MainOK(tr[s], h, k, p)
    BY <1>3, <1>12, <2>2, <2>3 DEF MainOK
  <2>7. HelloOK(s, tr[s], h, k, p, sock[s])
    <3>1. cfg.hello => s # "server"
      BY <1>5 DEF PacketOK, Peer
    <3> QED BY <1>3, <1>12, <2>2, <2>3, <3>1 DEF HelloOK
  <2>8. /\ WriteRank(s, h, k, p) = WriteRank(s, ht[s], kex[s], pc[s])
        /\ ReadRank(s, k, p) = 1 /\ RankAfter(m.type) = 1
    BY <1>1, <1>12, <1>14, <2>3 DEF WriteRank, ReadRank, RankAfter, Rank
  <2>9. PlaceOK(s, tr[s], h, k, p, sock[s])
    BY <1>1, <1>2, <1>3, <1>10, <1>12, <2>2, <2>3, <2>8 DEF PlaceOK, Ended
  <2>10. EndOK(s, tr[s], h, k, p, sock[s], why[s])
    BY <1>3, <1>12, <1>13, <2>2, <2>3, <2>5, <2>6, <2>7, <2>9 DEF EndOK, EndTyped
  <2>11. /\ Reads(p, sock[s]) => Reads(pc[s], sock[s])
         /\ Writes(p, sock[s]) => Writes(pc[s], sock[s])
    BY <1>1, <2>3 DEF Reads, Writes, Ended
  <2> QED BY <1>2, <1>4, <1>9, <1>10, <2>4, <2>8, <2>10, <2>11, Taking
<1>15. CASE m.type = "data"
  <2>1. PICK x, v : x = [type |-> m.type, n |-> m.n] /\ v = <<x>>
    OBVIOUS
  <2>2. v \in Seq(Delivered) /\ v # <<>> /\ Len(v) <= 1
    <3>1. x \in Delivered
      BY <1>5, <2>1 DEF Packets, Delivered
    <3> QED BY <2>1, <3>1
  <2>3. PICK k, p : /\ k = [kex[s] EXCEPT !.hand = v]
                    /\ p = [pc[s] EXCEPT !.reader = "deliver"]
    OBVIOUS
  <2>4. k \in Exchanges /\ k.hand = v
    BY <1>3, <2>2, <2>3 DEF Exchanges
  <2>5. p \in Labels /\ p.reader = "deliver" /\ p.main = pc[s].main /\ p.writer = pc[s].writer
    BY <1>3, <2>3 DEF Labels
  <2>6. Changes(s, tr[s], h, k, p, sock[s], why[s])
    <3>1. /\ SetHt(s, h) /\ kex' = [kex EXCEPT ![s].hand = v]
          /\ Goto(s, "reader", "deliver") /\ UNCHANGED why
      BY <1>2, <1>8, <1>11, <1>15, <2>1 DEF readOnePacket, Bad
    <3> QED BY <1>1, <1>3, <1>9, <2>3, <3>1 DEF Changes, Maps, SetHt, Goto
  <2>7. LockOK(h, k, p, sock[s])
    <3>1. k.hand # <<>> /\ Len(k.hand) <= 1
      BY <2>2, <2>4, Zenon
    <3>2. p.reader \notin Inside /\ pc[s].reader \notin Inside /\ p.reader # "done"
      BY <1>1, <2>5 DEF Inside
    <3> QED BY <1>3, <1>12, <2>5, <3>1, <3>2 DEF LockOK
  <2>8. ~cfg.hello /\ WEpoch(tr[s]) # 0
    BY <1>5, <1>10, <1>15 DEF PacketOK
  <2>9. MainOK(tr[s], h, k, p) /\ HelloOK(s, tr[s], h, k, p, sock[s])
    BY <2>8 DEF MainOK, HelloOK
  <2>10. /\ WriteRank(s, h, k, p) = WriteRank(s, ht[s], kex[s], pc[s])
         /\ ReadRank(s, k, p) = 0 /\ RankAfter(m.type) = 0
    BY <1>1, <1>12, <1>15, <2>5 DEF WriteRank, ReadRank, RankAfter, Rank
  <2>11. PlaceOK(s, tr[s], h, k, p, sock[s])
    BY <1>1, <1>2, <1>3, <1>10, <1>12, <2>5, <2>10 DEF PlaceOK, Ended
  <2>12. EndOK(s, tr[s], h, k, p, sock[s], why[s])
    BY <1>3, <1>12, <1>13, <2>4, <2>5, <2>7, <2>9, <2>11 DEF EndOK, EndTyped
  <2>13. /\ Reads(p, sock[s]) => Reads(pc[s], sock[s])
         /\ Writes(p, sock[s]) => Writes(pc[s], sock[s])
    BY <1>1, <2>5 DEF Reads, Writes, Ended
  <2> QED BY <1>2, <1>4, <1>9, <1>10, <2>6, <2>10, <2>12, <2>13, Taking
<1> QED BY <1>7, <1>14, <1>15

LEMMA KexReadKeeps ==
    ASSUME Inv, NEW s \in Side, KexRead(s)
    PROVE  Inv'
<1>1. /\ pc[s].reader = "kex" /\ CanRead(s) /\ TakePacket(s) /\ UNCHANGED <<cfg, ht, sent>>
      /\ Step(s).op = "read"
  BY DEF KexRead
<1>2. PICK m, v, n, e, d, type :
        /\ m = Head(Inbound(s)) /\ v = Verdict(s, m) /\ n = kex[s].step /\ e = REpoch(tr[s])
        /\ d = Peer(s) /\ type = Step(s).type
  OBVIOUS
<1>3. /\ cfg \in Configs /\ Maps /\ d \in Side /\ d # s /\ ~cfg.hello
      /\ ht[s] \in Handshakes /\ tr[s] \in Ciphers /\ sock[s] \in Sockets /\ kex[s] \in Exchanges
      /\ pc[s] \in Labels /\ LockOK(ht[s], kex[s], pc[s], sock[s]) /\ FailsOK(tr[s], why[s])
      /\ KeysOK(s, tr[s], ht[s]) /\ StepOK(s, n, Step(s))
      /\ e \in Nat /\ n \in Nat /\ Last \in {5, 7}
      /\ Len(Script(s, Agreed)) = Last
      /\ ht[s].inits = WEpoch(tr[s]) + (IF WrittenBy(s, n) = 0 THEN 0 ELSE 1)
  BY <1>1, <1>2, Amid
<1>4. ReadOK(s, n, type)
  BY <1>1, <1>2, <1>3 DEF StepOK
<1>5. /\ n # Last - 1 /\ n # Last - 2 /\ type \in Methods(d) \cup {"newkeys"}
      /\ type = "newkeys" <=> n = Last
      /\ s = "client" /\ n = 2 * Rounds => type \in Replies
      /\ n # Last => /\ RankAfter(type) = ReadBy(s, n + 1)
                     /\ WrittenBy(s, n + 1) = WrittenBy(s, n)
      /\ \A x \in Types(d) : RankBefore(x) = ReadBy(s, n) => x = type
  BY <1>2, <1>4 DEF ReadOK
<1>6. Inbound(s) # <<>> /\ sock[s].open
  BY <1>1 DEF CanRead, Dead
<1>7. /\ m \in Packets /\ PacketOK(d, m) /\ Epoch(m.key) = e /\ m.key = tr[s].reader
      /\ Reads(pc[s], sock[s]) => RankBefore(m.type) = ReadRank(s, kex[s], pc[s])
  BY <1>2, <1>6, Received
<1>8. ReadRank(s, kex[s], pc[s]) = ReadBy(s, n) /\ Reads(pc[s], sock[s])
  BY <1>1, <1>2, <1>3, <1>6 DEF ReadRank, Reads, Ended
<1>9. m.type = type
  <2>1. m.type \in Types(d) /\ RankBefore(m.type) = ReadBy(s, n)
    BY <1>7, <1>8 DEF PacketOK
  <2> QED BY <1>5, <2>1
<1>10. /\ kex[s].hash = HashOf(s, e + 1) /\ Agreed # "" /\ ht[s].sentInit # 0
       /\ n # Last => WEpoch(tr[s]) = e
       /\ n = Last => WEpoch(tr[s]) = e + 1
       /\ n >= Last - 1 => tr[s].pendR # NoKey
       /\ Mismatch /\ s = "client" => n <= 2 * Rounds
       /\ Last = 2 * Rounds + 3 /\ Rounds \in {1, 2}
  BY <1>1, <1>2, Midway
<1>11. n = Last => tr[s].pendR # NoKey /\ ~(n <= 2 * Rounds)
  <2>1. n \in Nat /\ Last = 2 * Rounds + 3 /\ Rounds \in {1, 2}
    BY <1>3, <1>10
  <2>2. n = Last => n >= Last - 1 /\ ~(n <= 2 * Rounds)
    BY <2>1
  <2> QED BY <1>10, <2>2
<1>12. ReadResult(s) = type /\ type \notin Bad
  <2>1. type \notin Bad
    BY <1>5 DEF Bad, Methods
  <2>2. type = "newkeys" => tr[s].pendR # NoKey
    BY <1>5, <1>11
  <2> QED BY <1>2, <1>7, <1>9, <2>1, <2>2 DEF ReadResult
<1>13. /\ DOMAIN sock' = Side /\ sock'[s] = sock[s]
       /\ sock'[Peer(s)] = [sock[Peer(s)] EXCEPT !.wire = Tail(Inbound(s))]
       /\ type # "newkeys" => tr' = tr
       /\ type = "newkeys" =>
            /\ DOMAIN tr' = Side /\ tr'[Peer(s)] = tr[Peer(s)]
            /\ tr'[s] = [tr[s] EXCEPT !.reader = tr[s].pendR, !.pendR = NoKey]
  BY <1>1, <1>12, TakenIs
<1>14. IF v = "" THEN Advance(s) /\ UNCHANGED why ELSE KexFails(s, v) /\ UNCHANGED kex
  BY <1>2 DEF KexRead
<1>15. Len(sock[s].wire) <= WireCap /\ ~tr[s].panic /\ ht[s].sentInit \in {0, ht[s].inits}
  BY <1>3 DEF LockOK, FailsOK
<1>0. /\ m = Head(Inbound(s)) /\ Inbound(s) # <<>>
      /\ sock'[Peer(s)] = [sock[Peer(s)] EXCEPT !.wire = Tail(Inbound(s))]
  BY <1>2, <1>6, <1>13
<1>16. CASE type = "newkeys"
  <2>1. v = ""
    BY <1>2, <1>9, <1>12, <1>16 DEF Verdict
  <2>2. PICK t, k, p :
          /\ t = [tr[s] EXCEPT !.reader = tr[s].pendR, !.pendR = NoKey]
          /\ k = [kex[s] EXCEPT !.step = @ + 1] /\ p = [pc[s] EXCEPT !.reader = "kexDone"]
    OBVIOUS
  <2>3. Changes(s, t, ht[s], k, p, sock[s], why[s])
    <3>1. /\ kex' = [kex EXCEPT ![s].step = @ + 1] /\ pc' = [pc EXCEPT ![s].reader = "kexDone"]
          /\ why' = why
      BY <1>2, <1>3, <1>5, <1>14, <1>16, <2>1 DEF Advance, Goto
    <3>2. /\ DOMAIN kex' = Side /\ kex'[Peer(s)] = kex[Peer(s)] /\ kex'[s] = k
          /\ DOMAIN pc' = Side /\ pc'[Peer(s)] = pc[Peer(s)] /\ pc'[s] = p
      BY <1>2, <1>3, <2>2, <3>1 DEF Maps
    <3> QED BY <1>1, <1>2, <1>3, <1>13, <1>16, <2>2, <3>1, <3>2 DEF Changes, Maps
  <2>4. ~Mismatch
    <3>1. s # "client" => d = "client"
      BY <1>2 DEF Side, Peer
    <3>2. Mismatch /\ d = "client" => type # "newkeys"
      BY <1>7, <1>9 DEF PacketOK
    <3> QED BY <1>5, <1>10, <1>11, <1>16, <3>1, <3>2
  <2>5. /\ tr[s].pendR = KeyOf(d, s, e + 1) /\ ht[s].session # NoHash
        /\ tr[s].writer = KeyOf(s, s, e + 1) /\ WEpoch(tr[s]) = e + 1
        /\ tr[s].pendW \in {NoKey, KeyOf(s, s, (e + 1) + 1)}
    <3>1. WEpoch(tr[s]) = e + 1 /\ tr[s].pendR # NoKey
      BY <1>5, <1>10, <1>11, <1>16
    <3> QED BY <1>2, <1>3, <3>1 DEF KeysOK
  <2>6. /\ t \in Ciphers /\ t.reader = tr[s].pendR /\ t.writer = tr[s].writer
        /\ t.pendR = NoKey /\ t.pendW = tr[s].pendW /\ ~t.panic
    BY <1>3, <1>15, <2>2 DEF Ciphers
  <2>7. REpoch(t) = e + 1 /\ WEpoch(t) = e + 1
    <3>1. PICK f \in Nat : f = e + 1
      BY <1>3
    <3>2. Epoch(KeyOf(d, s, f)) = f
      BY <1>3, Keyed
    <3> QED BY <2>5, <2>6, <3>1, <3>2 DEF REpoch, WEpoch
  <2>8. KeysOK(s, t, ht[s])
    <3>1. t.reader = KeyOf(Peer(s), s, REpoch(t)) /\ t.writer = KeyOf(s, s, WEpoch(t))
      BY <1>2, <2>5, <2>6, <2>7
    <3>2. t.pendR = NoKey /\ t.pendW \in {NoKey, KeyOf(s, s, WEpoch(t) + 1)}
      BY <2>5, <2>6, <2>7
    <3>3. ht[s].session \in {NoHash, HashOf(s, 1)}
      BY <1>3 DEF KeysOK
    <3> QED BY <2>4, <2>5, <3>1, <3>2, <3>3 DEF KeysOK
  <2>9. k \in Exchanges /\ k.hand = kex[s].hand
    <3>1. kex[s] \in Exchanges
      BY <1>3
    <3>2. k = [kex[s] EXCEPT !.step = @ + 1]
      BY <2>2
    <3> QED BY <3>1, <3>2 DEF Exchanges
  <2>10. p \in Labels /\ p.reader = "kexDone" /\ p.main = pc[s].main /\ p.writer = pc[s].writer
    BY <1>3, <2>2 DEF Labels
  <2>11. LockOK(ht[s], k, p, sock[s])
    BY <1>1, <1>3, <2>9, <2>10 DEF LockOK, Inside
  <2>12. e + 1 # 0 /\ e + 1 = (e + 1) + 0
    BY <1>3
  <2>13. MainOK(t, ht[s], k, p) /\ HelloOK(s, t, ht[s], k, p, sock[s]) /\ FailsOK(t, why[s])
    BY <1>3, <2>6, <2>7, <2>12 DEF MainOK, HelloOK, FailsOK
  <2>14. WrittenBy(s, n) = 0
    BY <1>5, <1>16 DEF WrittenBy
  <2>15. /\ WriteRank(s, ht[s], k, p) = 0 /\ WriteRank(s, ht[s], kex[s], pc[s]) = 0
         /\ ReadRank(s, k, p) = 0 /\ RankAfter(m.type) = 0
    BY <1>1, <1>2, <1>9, <1>16, <2>10, <2>14 DEF WriteRank, ReadRank, RankAfter
  <2>16. ht[s].inits = WEpoch(t)
    BY <1>3, <2>5, <2>7, <2>12, <2>14
  <2>17. PlaceOK(s, t, ht[s], k, p, sock[s])
    <3>1. WEpoch(t) = WEpoch(t) + 0
      BY <2>7, <2>12
    <3> QED BY <2>7, <2>10, <2>12, <2>15, <2>16, <3>1 DEF PlaceOK, Ended
  <2>18. EndOK(s, t, ht[s], k, p, sock[s], why[s])
    BY <1>3, <2>6, <2>8, <2>9, <2>10, <2>11, <2>13, <2>17 DEF EndOK, EndTyped
  <2>19. REpoch(t) = EpochAfter(m) /\ WEpoch(t) = WEpoch(tr[s])
    BY <1>7, <1>9, <1>16, <2>5, <2>7 DEF EpochAfter
  <2>20. /\ Reads(p, sock[s]) => Reads(pc[s], sock[s])
         /\ Writes(p, sock[s]) => Writes(pc[s], sock[s])
    BY <1>1, <2>10 DEF Reads, Writes, Ended
  <2>21. Reads(p, sock[s]) => Reads(pc[s], sock[s]) /\ ReadRank(s, k, p) = RankAfter(m.type)
    BY <2>15, <2>20
  <2>22. Writes(p, sock[s]) =>
           /\ Writes(pc[s], sock[s])
           /\ WriteRank(s, ht[s], k, p) = WriteRank(s, ht[s], kex[s], pc[s])
    BY <2>15, <2>20
  <2> QED BY <1>0, <2>3, <2>18, <2>19, <2>21, <2>22, Taking
<1>17. CASE type # "newkeys"
  <2>1. tr' = tr /\ n # Last /\ EpochAfter(m) = e
    BY <1>5, <1>7, <1>9, <1>13, <1>17 DEF EpochAfter
  <2>2. CASE v # ""
    <3>1. PICK p : p = [pc[s] EXCEPT !.reader = "kexFailed"]
      OBVIOUS
    <3>2. Changes(s, tr[s], ht[s], kex[s], p, sock[s], v)
      BY <1>1, <1>2, <1>3, <1>13, <1>14, <2>1, <2>2, <3>1 DEF Changes, Maps, KexFails, Goto
    <3>3. /\ v \in {"value", "signature", "hostkey"}
          /\ v = "signature" => m.type \in Replies /\ m.hash # kex[s].hash
      BY <1>2, <1>9, <1>12, <1>17, <2>2 DEF Verdict
    <3>4. v = "signature" => Mismatch
      <4>1. m.type \in Replies => m.hash = HashOf(d, e + 1)
        BY <1>7 DEF PacketOK
      <4>2. ~Mismatch => HashOf(s, e + 1) = HashOf(d, e + 1)
        BY <1>2, <1>3, Hashed
      <4> QED BY <1>10, <3>3, <4>1, <4>2
    <3>5. FailsOK(tr[s], v)
      BY <1>15, <3>3, <3>4 DEF FailsOK
    <3>6. EndOK(s, tr[s], ht[s], kex[s], p, sock[s], v) /\ ~Reads(p, sock[s]) /\ ~Writes(p, sock[s])
      BY <1>1, <1>3, <1>15, <3>1, <3>5, Gives
    <3>7. REpoch(tr[s]) = EpochAfter(m)
      BY <1>2, <2>1
    <3> QED BY <1>0, <3>2, <3>6, <3>7, Taking
  <2>3. CASE v = ""
    <3>1. PICK k : k = [kex[s] EXCEPT !.step = @ + 1]
      OBVIOUS
    <3>2. Mismatch /\ s = "client" => n # 2 * Rounds
      <4>1. type \in Replies => m.hash = HashOf(d, e + 1)
        BY <1>7, <1>9 DEF PacketOK
      <4>2. Mismatch => HashOf(s, e + 1) # HashOf(d, e + 1)
        BY <1>2, <1>3, Hashed
      <4>3. type \in Replies => m.hash = kex[s].hash
        BY <1>2, <1>9, <1>12, <1>17, <2>3 DEF Verdict
      <4> QED BY <1>5, <1>10, <4>1, <4>2, <4>3
    <3>3. ExchangeOK(s, tr[s], ht[s], k, pc[s])
      BY <1>1, <1>2, <1>5, <2>1, <3>1, <3>2, Further
    <3>4. Changes(s, tr[s], ht[s], k, pc[s], sock[s], why[s])
      <4>1. /\ DOMAIN kex' = Side /\ kex'[Peer(s)] = kex[Peer(s)] /\ kex'[s] = k
            /\ DOMAIN pc' = Side /\ pc'[Peer(s)] = pc[Peer(s)] /\ pc'[s] = pc[s]
        BY <1>1, <1>2, <1>14, <2>1, <2>3, <3>1, AdvanceIs
      <4> QED BY <1>1, <1>2, <1>3, <1>13, <1>14, <2>1, <2>3, <4>1 DEF Changes, Maps
    <3>5. ht[s].inits = WEpoch(tr[s]) + (IF WrittenBy(s, kex[s].step + 1) = 0 THEN 0 ELSE 1)
      BY <1>2, <1>3, <1>5, <2>1
    <3>6. /\ EndOK(s, tr[s], ht[s], k, pc[s], sock[s], why[s])
          /\ WriteRank(s, ht[s], k, pc[s]) = WrittenBy(s, kex[s].step + 1)
          /\ WriteRank(s, ht[s], kex[s], pc[s]) = WrittenBy(s, kex[s].step)
          /\ ReadRank(s, k, pc[s]) = ReadBy(s, kex[s].step + 1)
      BY <1>1, <1>3, <1>15, <3>1, <3>3, <3>5, Onward
    <3>7. /\ ReadRank(s, k, pc[s]) = RankAfter(m.type)
          /\ WriteRank(s, ht[s], k, pc[s]) = WriteRank(s, ht[s], kex[s], pc[s])
      BY <1>2, <1>5, <1>9, <2>1, <3>6
    <3>8. REpoch(tr[s]) = EpochAfter(m)
      BY <1>2, <2>1
    <3> QED BY <1>0, <3>4, <3>6, <3>7, <3>8, Taking
  <2> QED BY <2>2, <2>3
<1> QED BY <1>16, <1>17

-----------------------------------------------------------------------------
LEMMA InitInv == Init => Inv
<1> SUFFICES ASSUME Init PROVE Inv
  OBVIOUS
<1>1. cfg \in Configs /\ Maps
  BY DEF Init, Maps
<1>2. ASSUME NEW s \in Side PROVE End(s) /\ Wire(s)
  <2>1. PICK t, h, k, p, o :
          /\ t = [reader |-> NoKey, writer |-> NoKey, pendR |-> NoKey, pendW |-> NoKey,
                  panic |-> FALSE]
          /\ h = [mu |-> NoOne, sentInit |-> 0, inits |-> 0, session |-> NoHash, written |-> 0,
                  readn |-> 0, writeErr |-> FALSE, incoming |-> <<>>, closed |-> FALSE]
          /\ k = [theirs |-> 0, step |-> 0, hash |-> NoHash, hand |-> <<>>]
          /\ p = [reader |-> "read", main |-> "start", writer |-> "off"]
          /\ o = [open |-> TRUE, late |-> FALSE, wire |-> <<>>]
    OBVIOUS
  <2>2. ASSUME NEW x \in Side
        PROVE  tr[x] = t /\ ht[x] = h /\ kex[x] = k /\ pc[x] = p /\ sock[x] = o /\ why[x] = ""
    BY <2>1 DEF Init
  <2>3. REpoch(t) = 0 /\ WEpoch(t) = 0
    BY <2>1 DEF REpoch, WEpoch, Epoch
  <2>4. EndTyped(t, h, k, p, o)
    <3>1. t \in Ciphers
      BY <2>1 DEF Ciphers
    <3>2. h \in Handshakes
      BY <2>1 DEF Handshakes, NoHash
    <3>3. k \in Exchanges /\ o \in Sockets
      BY <2>1 DEF Exchanges, Sockets, NoHash
    <3>4. p \in Labels
      BY <2>1 DEF Labels
    <3> QED BY <3>1, <3>2, <3>3, <3>4 DEF EndTyped
  <2>5. LockOK(h, k, p, o)
    <3>1. /\ h.mu = NoOne /\ h.sentInit = 0 /\ h.inits = 0 /\ h.incoming = <<>> /\ k.hand = <<>>
          /\ p.reader = "read" /\ p.main = "start" /\ p.writer = "off" /\ o.wire = <<>>
      BY <2>1
    <3>2. Len(<<>>) = 0 /\ 0 <= WireCap /\ 0 <= IncomingCap
      BY TransportBounds
    <3> QED BY <3>1, <3>2 DEF LockOK, Inside, NoOne
  <2>6. FailsOK(t, "")
    BY <2>1 DEF FailsOK
  <2>7. KeysOK(s, t, h)
    <3>1. \A w, x : KeyOf(w, x, 0) = NoKey
      BY DEF KeyOf
    <3>2. /\ t.reader = NoKey /\ t.writer = NoKey /\ t.pendR = NoKey /\ t.pendW = NoKey
          /\ h.session = NoHash
      BY <2>1
    <3> QED BY <2>3, <3>1, <3>2 DEF KeysOK
  <2>8. /\ p.reader = "read" /\ h.sentInit = 0 /\ h.inits = 0
        /\ WriteRank(s, h, k, p) = 0 /\ ReadRank(s, k, p) = 0
    BY <2>1 DEF WriteRank, ReadRank
  <2>9. PlaceOK(s, t, h, k, p, o)
    BY <2>3, <2>8 DEF PlaceOK, Ended
  <2>10. MainOK(t, h, k, p)
    BY <2>1 DEF MainOK
  <2>11. HelloOK(s, t, h, k, p, o)
    <3>1. /\ h.session = NoHash /\ h.sentInit = 0 /\ h.incoming = <<>> /\ k.hand = <<>>
          /\ p.reader = "read" /\ p.main = "start" /\ p.writer = "off" /\ o.wire = <<>>
      BY <2>1
    <3>2. \A i \in 1 .. Len(<<>>) : FALSE
      OBVIOUS
    <3> QED BY <2>3, <3>1, <3>2 DEF HelloOK
  <2>12. EndOK(s, t, h, k, p, o, "")
    BY <2>4, <2>5, <2>6, <2>7, <2>9, <2>10, <2>11 DEF EndOK
  <2>13. Peer(s) \in Side
    BY Sides
  <2>14. /\ tr[s] = t /\ ht[s] = h /\ kex[s] = k /\ pc[s] = p /\ sock[s] = o /\ why[s] = ""
         /\ tr[Peer(s)] = t /\ kex[Peer(s)] = k /\ pc[Peer(s)] = p /\ sock[Peer(s)] = o
    BY <2>2, <2>13
  <2>15. ReadRank(Peer(s), k, p) = 0 /\ o.wire = <<>>
    BY <2>1 DEF ReadRank
  <2>16. ASSUME NEW reads, NEW writes PROVE WireOK(s, <<>>, 0, reads, 0, 0, writes, 0)
    BY DEF WireOK, EpochsLead, RanksFrom, RanksTo
  <2> QED BY <2>3, <2>8, <2>12, <2>14, <2>15, <2>16 DEF End, Wire
<1> QED BY <1>1, <1>2 DEF Inv

LEMMA SameInv == ASSUME Inv, UNCHANGED vars PROVE Inv'
<1>1. /\ cfg' = cfg /\ sock' = sock /\ tr' = tr /\ ht' = ht /\ kex' = kex /\ pc' = pc
      /\ why' = why /\ sent' = sent
  BY DEF vars
<1>2. PICK s \in Side : s = "client"
  BY DEF Side
<1>3. Maps /\ EndOK(s, tr[s], ht[s], kex[s], pc[s], sock[s], why[s])
  BY Parts
<1>4. Changes(s, tr[s], ht[s], kex[s], pc[s], sock[s], why[s]) /\ sock'[Peer(s)] = sock[Peer(s)]
  BY <1>1, <1>3 DEF Changes, Maps
<1> QED BY <1>3, <1>4, Local

LEMMA NextInv == ASSUME Inv, [Next]_vars PROVE Inv'
<1>1. ASSUME NEW s \in Side, ReaderStep(s) PROVE Inv'
  BY <1>1, RequestLockKeeps, requestKeyChangeKeeps, readOnePacketKeeps, ReadErrorKeeps,
     DeliverKeeps, readLoopEndsKeeps, KexLockKeeps, KexBeginKeeps, KexWriteKeeps,
     KexWriteErrorKeeps, KexReadKeeps, KexReadErrorKeeps, KexPrepareKeeps, KexDoneKeeps,
     KexFailedKeeps DEF ReaderStep
<1>2. ASSUME NEW s \in Side, MainStep(s) PROVE Inv'
  BY <1>2, MainStartKeeps, sendKexInitKeeps, MainKeyedKeeps, MainLoopKeeps, MainLoopEndsKeeps,
     MainCloseKeeps DEF MainStep
<1>3. ASSUME NEW s \in Side, NEW t \in {"main", "writer"}, WriteStep(s, t) PROVE Inv'
  BY <1>3, WriteLockKeeps, WriteRekeyKeeps, WritePutKeeps DEF WriteStep
<1>4. ASSUME NEW s \in Side, UserWrites(s) PROVE Inv'
  BY <1>4, UserWritesKeeps
<1> QED BY <1>1, <1>2, <1>3, <1>4, DeadlineKeeps, SameInv DEF Next

LEMMA Invariance == Spec => []Inv
BY InitInv, NextInv, PTL DEF Spec

-----------------------------------------------------------------------------
(* What the invariant says.                                                *)
LEMMA InvTypeOK == ASSUME Inv PROVE TypeOK
<1> SUFFICES ASSUME NEW s \in Side
    PROVE  /\ pc[s] \in Labels
           /\ Len(sock[s].wire) <= WireCap /\ Len(ht[s].incoming) <= IncomingCap
           /\ ht[s].sentInit \in {0, ht[s].inits} /\ ht[s].readn \in Nat /\ ht[s].written \in Nat
           /\ Len(kex[s].hand) <= 1 /\ (kex[s].hand # <<>>) = (pc[s].reader = "deliver")
           /\ {t \in Thread : pc[s][t] \in Inside} = {ht[s].mu} \ {NoOne}
  BY DEF TypeOK, Inside
<1>1. pc[s] \in Labels /\ ht[s] \in Handshakes /\ LockOK(ht[s], kex[s], pc[s], sock[s])
  BY Parts
<1>2. /\ Len(sock[s].wire) <= WireCap /\ Len(ht[s].incoming) <= IncomingCap
      /\ ht[s].sentInit \in {0, ht[s].inits} /\ Len(kex[s].hand) <= 1
      /\ kex[s].hand # <<>> <=> pc[s].reader = "deliver"
      /\ pc[s]["reader"] \in Inside <=> ht[s].mu = "reader"
      /\ pc[s]["main"] \in Inside <=> ht[s].mu = "main"
      /\ pc[s]["writer"] \in Inside <=> ht[s].mu = "writer"
  BY <1>1 DEF LockOK
<1>3. ht[s].readn \in Nat /\ ht[s].written \in Nat /\ ht[s].mu \in Thread \cup {NoOne}
  BY <1>1 DEF Handshakes
<1>4. ASSUME NEW t \in Thread PROVE pc[s][t] \in Inside <=> ht[s].mu = t
  BY <1>2 DEF Thread
<1>5. NoOne \notin Thread
  BY DEF Thread, NoOne
<1>6. {t \in Thread : pc[s][t] \in Inside} = {ht[s].mu} \ {NoOne}
  BY <1>3, <1>4, <1>5, Zenon
<1> QED BY <1>1, <1>2, <1>3, <1>6

LEMMA InvKeys == ASSUME Inv PROVE KeysInStep /\ DataIsEncrypted
<1>1. KeysInStep
  BY Received DEF KeysInStep
<1>2. ASSUME NEW s \in Side, NEW i \in DOMAIN sock[s].wire, sock[s].wire[i].type = "data"
      PROVE  sock[s].wire[i].key # NoKey
  <2>1. Wire(s) /\ sock[s].wire \in Seq(Packets)
    BY Parts DEF Inv, Sockets
  <2>2. i \in 1 .. Len(sock[s].wire)
    BY <2>1
  <2>3. PacketOK(s, sock[s].wire[i])
    BY <2>1, <2>2, Zenon DEF Wire, WireOK
  <2>4. Epoch(sock[s].wire[i].key) # 0
    BY <1>2, <2>3 DEF PacketOK
  <2> QED BY <2>4 DEF Epoch
<1>3. DataIsEncrypted
  BY <1>2 DEF DataIsEncrypted
<1> QED BY <1>1, <1>3

LEMMA OneOf ==
    ASSUME NEW g, NEW S, S \subseteq {g}
    PROVE  Cardinality(S) <= 1
<1>1. S = {} \/ S = {g}
  OBVIOUS
<1>2. Cardinality({}) = 0 /\ Cardinality({g}) = 1
  BY FS_EmptySet, FS_Singleton
<1> QED BY <1>1, <1>2

LEMMA InvSessions == ASSUME Inv PROVE SessionsAgree
<1> DEFINE ids == {ht[s].session : s \in Side} \ {NoHash}
           keys == UNION {{tr[s].reader, tr[s].writer, tr[s].pendR, tr[s].pendW} : s \in Side}
<1>1. cfg \in Configs
  BY DEF Inv
<1>2. ASSUME NEW s \in Side PROVE ht[s].session \in {NoHash, HashOf("server", 1)}
  <2>1. KeysOK(s, tr[s], ht[s])
    BY Parts
  <2>2. ~Mismatch => HashOf("client", 1) = HashOf("server", 1)
    <3>1. "client" \in Side /\ Peer("client") = "server"
      BY DEF Side, Peer
    <3> QED BY <1>1, <3>1, Hashed
  <2>3. s = "client" \/ s = "server"
    BY DEF Side
  <2> QED BY <2>1, <2>2, <2>3 DEF KeysOK
<1>3. Cardinality(ids) <= 1
  <2>1. ids \subseteq {HashOf("server", 1)}
    BY <1>2
  <2> QED BY <2>1, OneOf
<1>4. ASSUME NEW s \in Side, NEW k \in {tr[s].reader, tr[s].writer, tr[s].pendR, tr[s].pendW},
             k # NoKey
      PROVE  k.session \in ids
  <2>1. KeysOK(s, tr[s], ht[s]) /\ tr[s] \in Ciphers /\ Peer(s) \in Side
    BY Parts
  <2>2. PICK a, b : a = REpoch(tr[s]) /\ b = WEpoch(tr[s])
    OBVIOUS
  <2>3. a \in Nat /\ b \in Nat /\ a + 1 \in Nat /\ b + 1 \in Nat
    <3>1. a \in Nat /\ b \in Nat
      BY <2>1, <2>2, EpochIsNat DEF REpoch, WEpoch, Ciphers
    <3> QED BY <3>1
  <2>4. \E w \in Side, e \in {a, b, a + 1, b + 1} : k = KeyOf(w, s, e)
    <3>1. /\ tr[s].reader = KeyOf(Peer(s), s, a) /\ tr[s].writer = KeyOf(s, s, b)
          /\ tr[s].pendR \in {NoKey, KeyOf(Peer(s), s, a + 1)}
          /\ tr[s].pendW \in {NoKey, KeyOf(s, s, b + 1)}
      BY <2>1, <2>2 DEF KeysOK
    <3> QED BY <1>4, <2>1, <3>1, Zenon
  <2>5. PICK w \in Side, e \in Nat : k = KeyOf(w, s, e)
    BY <2>3, <2>4
  <2>6. k.session = HashOf(s, 1)
    BY <1>1, <1>4, <2>5, Keyed
  <2>7. ht[s].session # NoHash
    <3>1. ASSUME ht[s].session = NoHash PROVE FALSE
      <4>1. /\ a = 0 /\ b = 0 /\ tr[s].pendR = NoKey /\ tr[s].pendW = NoKey
            /\ tr[s].reader = KeyOf(Peer(s), s, a) /\ tr[s].writer = KeyOf(s, s, b)
        BY <2>1, <2>2, <3>1 DEF KeysOK
      <4>2. tr[s].reader = NoKey /\ tr[s].writer = NoKey
        BY <4>1 DEF KeyOf
      <4> QED BY <1>4, <4>1, <4>2
    <3> QED BY <3>1
  <2>8. ht[s].session = HashOf(s, 1)
    BY <2>1, <2>7 DEF KeysOK
  <2> QED BY <2>6, <2>7, <2>8
<1>5. \A k \in keys \ {NoKey} : k.session \in ids
  <2> HIDE DEF ids
  <2> QED BY <1>4
<1> QED BY <1>3, <1>5, Zenon DEF SessionsAgree

(* Over any number of key exchanges, whoever starts them and whenever a    *)
(* goroutine stops, the two ends use the same keys in the same places: the *)
(* next packet of a direction is under the key that its reader holds, all  *)
(* keys belong to one session, no data goes in the clear and mu is held by *)
(* a goroutine inside its critical section (transport.go, handshake.go).   *)
THEOREM TransportKeysAgree == Spec => []KeysAgree
<1>1. Inv => KeysAgree
  BY InvTypeOK, InvKeys, InvSessions DEF KeysAgree
<1> QED BY <1>1, Invariance, PTL

(* Between two ends of this library an exchange fails for a reason of its  *)
(* own only: no packet is bogus, unexpected or of a wrong MAC, key         *)
(* material is never missing, and a signature is wrong only in a group     *)
(* exchange of ends with different limits (kex_gex.go, handshake.go).      *)
THEOREM TransportErrorsAreHonest == Spec => []ErrorsAreHonest
<1>1. Inv => ErrorsAreHonest
  <2> SUFFICES ASSUME Inv, NEW s \in Side PROVE FailsOK(tr[s], why[s])
    BY DEF ErrorsAreHonest, FailsOK, Mismatch
  <2> QED BY Parts
<1> QED BY <1>1, Invariance, PTL

(* Nobody waits on the condition of mu once readLoop is over, for whatever *)
(* reason it ended (handshake.go:146 to 152).                              *)
THEOREM NobodyIsForgotten == Spec => []NobodyWaitsForTheDead
<1>1. Inv => NobodyWaitsForTheDead
  <2> SUFFICES ASSUME Inv, NEW s \in Side, pc[s].reader = "done", NEW t \in Thread
      PROVE  pc[s][t] # "wait"
    BY DEF NobodyWaitsForTheDead
  <2>1. LockOK(ht[s], kex[s], pc[s], sock[s])
    BY Parts
  <2>2. pc[s].main # "wait" /\ pc[s].writer # "wait"
    BY <2>1 DEF LockOK
  <2> QED BY <2>2 DEF Thread
<1> QED BY <1>1, Invariance, PTL

-----------------------------------------------------------------------------
(* Packets on their way from the writer to the main goroutine.             *)
LEMMA CarriesNothing ==
    ASSUME NEW lo \in Nat, NEW hi \in Nat
    PROVE  Carries(<<>>, lo, hi) <=> lo = hi
<1>1. DOMAIN <<>> = {}
  OBVIOUS
<1>2. Carries(<<>>, lo, hi) => lo = hi
  <2> SUFFICES ASSUME Carries(<<>>, lo, hi), lo # hi PROVE FALSE
    OBVIOUS
  <2>1. lo + 1 \in lo + 1 .. hi
    BY DEF Carries
  <2> QED BY <1>1, <2>1 DEF Carries
<1>3. lo = hi => Carries(<<>>, lo, hi)
  BY <1>1 DEF Carries
<1> QED BY <1>2, <1>3

LEMMA CarriesOther ==
    ASSUME NEW S, NEW q \in Seq(S), NEW m \in S, m.type # "data", NEW lo \in Nat, NEW hi \in Nat,
           Carries(q, lo, hi)
    PROVE  Carries(Append(q, m), lo, hi)
<1>1. PICK r : r = Append(q, m)
  OBVIOUS
<1>2. /\ r[Len(q) + 1] = m /\ \A i \in 1 .. Len(q) : r[i] = q[i]
      /\ DOMAIN r = 1 .. Len(q) + 1 /\ DOMAIN q = 1 .. Len(q) /\ Len(q) \in Nat
  BY <1>1, Appended
<1>3. PICK D : D = {i \in DOMAIN q : q[i].type = "data"}
  OBVIOUS
<1>4. {i \in DOMAIN r : r[i].type = "data"} = D /\ \A i \in D : r[i] = q[i]
  BY <1>2, <1>3
<1>5. /\ lo <= hi /\ \A i \in D : q[i].n \in lo + 1 .. hi
      /\ \A x \in lo + 1 .. hi : \E i \in D : q[i].n = x
      /\ \A i, j \in D : i < j => q[i].n < q[j].n
  BY <1>3 DEF Carries
<1>6. Carries(r, lo, hi)
  BY <1>4, <1>5, Zenon DEF Carries
<1> QED BY <1>1, <1>6

LEMMA CarriesMore ==
    ASSUME NEW S, NEW q \in Seq(S), NEW m \in S, m.type = "data", NEW lo \in Nat, NEW hi \in Nat,
           Carries(q, lo, hi), m.n = hi + 1
    PROVE  Carries(Append(q, m), lo, hi + 1)
<1>1. PICK r, k : r = Append(q, m) /\ k = Len(q) + 1
  OBVIOUS
<1>2. /\ r[k] = m /\ \A i \in 1 .. Len(q) : r[i] = q[i]
      /\ DOMAIN r = 1 .. k /\ DOMAIN q = 1 .. Len(q) /\ Len(q) \in Nat
  BY <1>1, Appended
<1>3. PICK D, E : /\ D = {i \in DOMAIN q : q[i].type = "data"}
                  /\ E = {i \in DOMAIN r : r[i].type = "data"}
  OBVIOUS
<1>4. /\ E = D \cup {k} /\ (\A i \in D : r[i] = q[i]) /\ k \notin D /\ k \in Nat
      /\ \A i \in D : i \in Nat /\ i < k
  BY <1>1, <1>2, <1>3
<1>5. /\ lo <= hi /\ \A i \in D : q[i].n \in lo + 1 .. hi
      /\ \A x \in lo + 1 .. hi : \E i \in D : q[i].n = x
      /\ \A i, j \in D : i < j => q[i].n < q[j].n
  BY <1>3 DEF Carries
<1>6. ASSUME NEW i \in E PROVE r[i].n \in lo + 1 .. hi + 1
  BY <1>2, <1>4, <1>5
<1>7. ASSUME NEW x \in lo + 1 .. hi + 1 PROVE \E i \in E : r[i].n = x
  <2>1. CASE x = hi + 1
    BY <1>2, <1>4, <2>1
  <2>2. CASE x # hi + 1
    <3>1. x \in lo + 1 .. hi
      BY <2>2
    <3>2. PICK i \in D : q[i].n = x
      BY <1>5, <3>1
    <3> QED BY <1>4, <3>2
  <2> QED BY <2>1, <2>2
<1>8. ASSUME NEW i \in E, NEW j \in E, i < j PROVE r[i].n < r[j].n
  <2>1. i \in D /\ r[i] = q[i] /\ q[i].n \in lo + 1 .. hi
    BY <1>4, <1>5, <1>8
  <2>2. CASE j = k
    BY <1>2, <2>1, <2>2
  <2>3. CASE j # k
    BY <1>4, <1>5, <1>8, <2>1, <2>3
  <2> QED BY <2>2, <2>3
<1>9. lo <= hi + 1
  BY <1>5
<1>10. Carries(r, lo, hi + 1)
  BY <1>3, <1>6, <1>7, <1>8, <1>9, Zenon DEF Carries
<1> QED BY <1>1, <1>10

LEMMA CarriesLess ==
    ASSUME NEW S, NEW q \in Seq(S), q # <<>>, NEW lo \in Nat, NEW hi \in Nat, Carries(q, lo, hi)
    PROVE  /\ Head(q).type # "data" => Carries(Tail(q), lo, hi)
           /\ Head(q).type = "data" =>
                Head(q).n = lo + 1 /\ lo + 1 <= hi /\ Carries(Tail(q), lo + 1, hi)
<1>1. PICK r : r = Tail(q)
  OBVIOUS
<1>2. /\ Head(q) = q[1] /\ Len(q) \in Nat \ {0} /\ DOMAIN r = 1 .. Len(q) - 1
      /\ DOMAIN q = 1 .. Len(q) /\ \A i \in 1 .. Len(q) - 1 : r[i] = q[i + 1]
  BY <1>1, Dropped
<1>3. PICK D, E : /\ D = {i \in DOMAIN q : q[i].type = "data"}
                  /\ E = {i \in DOMAIN r : r[i].type = "data"}
  OBVIOUS
<1>4. /\ \A i \in E : i + 1 \in D /\ r[i] = q[i + 1] /\ i \in Nat /\ i + 1 # 1
      /\ \A i \in D : i \in Nat /\ i >= 1 /\ (i # 1 => i - 1 \in E /\ r[i - 1] = q[i])
      /\ 1 \in D <=> Head(q).type = "data"
  <2>1. ASSUME NEW i \in E PROVE i + 1 \in D /\ r[i] = q[i + 1] /\ i \in Nat /\ i + 1 # 1
    BY <1>2, <1>3
  <2>2. ASSUME NEW i \in D
        PROVE  i \in Nat /\ i >= 1 /\ (i # 1 => i - 1 \in E /\ r[i - 1] = q[i])
    <3>1. i \in 1 .. Len(q) /\ q[i].type = "data"
      BY <1>2, <1>3
    <3>2. CASE i # 1
      <4>1. i - 1 \in 1 .. Len(q) - 1 /\ (i - 1) + 1 = i
        BY <1>2, <3>1, <3>2
      <4>2. r[i - 1] = q[i] /\ i - 1 \in DOMAIN r
        BY <1>2, <4>1
      <4> QED BY <1>3, <3>1, <4>2
    <3> QED BY <3>1, <3>2
  <2>3. 1 \in D <=> Head(q).type = "data"
    BY <1>2, <1>3
  <2> QED BY <2>1, <2>2, <2>3
<1>5. /\ lo <= hi /\ \A i \in D : q[i].n \in lo + 1 .. hi
      /\ \A x \in lo + 1 .. hi : \E i \in D : q[i].n = x
      /\ \A i, j \in D : i < j => q[i].n < q[j].n
  BY <1>3 DEF Carries
<1>6. ASSUME NEW i \in E, NEW j \in E, i < j PROVE r[i].n < r[j].n
  <2>1. i + 1 \in D /\ j + 1 \in D /\ r[i] = q[i + 1] /\ r[j] = q[j + 1] /\ i + 1 < j + 1
    BY <1>4, <1>6
  <2> QED BY <1>5, <2>1
<1>7. CASE Head(q).type # "data"
  <2>1. \A i \in E : r[i].n \in lo + 1 .. hi
    BY <1>4, <1>5
  <2>2. ASSUME NEW x \in lo + 1 .. hi PROVE \E i \in E : r[i].n = x
    <3>1. PICK i \in D : q[i].n = x
      BY <1>5
    <3>2. i # 1
      BY <1>4, <1>7
    <3> QED BY <1>4, <3>1, <3>2
  <2>3. Carries(r, lo, hi)
    BY <1>3, <1>5, <1>6, <2>1, <2>2, Zenon DEF Carries
  <2> QED BY <1>1, <1>7, <2>3
<1>8. CASE Head(q).type = "data"
  <2>1. 1 \in D /\ q[1].n \in lo + 1 .. hi /\ lo + 1 <= hi
    BY <1>4, <1>5, <1>8
  <2>2. q[1].n = lo + 1
    <3>1. PICK i \in D : q[i].n = lo + 1
      BY <1>5, <2>1
    <3>2. CASE i = 1
      BY <3>1, <3>2
    <3>3. CASE i # 1
      <4>1. 1 < i
        BY <1>4, <3>3
      <4>2. q[1].n < q[i].n
        BY <1>5, <2>1, <4>1
      <4> QED BY <2>1, <3>1, <4>2
    <3> QED BY <3>2, <3>3
  <2>3. ASSUME NEW i \in E PROVE r[i].n \in (lo + 1) + 1 .. hi
    <3>1. i + 1 \in D /\ r[i] = q[i + 1] /\ 1 < i + 1
      BY <1>4
    <3>2. q[1].n < q[i + 1].n /\ q[i + 1].n \in lo + 1 .. hi
      BY <1>5, <2>1, <3>1
    <3> QED BY <2>2, <3>1, <3>2
  <2>4. ASSUME NEW x \in (lo + 1) + 1 .. hi PROVE \E i \in E : r[i].n = x
    <3>1. PICK i \in D : q[i].n = x
      BY <1>5
    <3>2. i # 1
      BY <2>2, <3>1
    <3> QED BY <1>4, <3>1, <3>2
  <2>5. Carries(r, lo + 1, hi)
    BY <1>3, <1>6, <2>1, <2>3, <2>4, Zenon DEF Carries
  <2> QED BY <1>1, <1>2, <1>8, <2>1, <2>2, <2>5, Zenon
<1> QED BY <1>7, <1>8

LEMMA CarriesJoined ==
    ASSUME NEW S, NEW q \in Seq(S), NEW v \in Seq(S), Len(v) <= 1,
           NEW lo \in Nat, NEW a \in Nat, NEW hi \in Nat, Carries(q, lo, a), Carries(v, a, hi)
    PROVE  Carries(q \o v, lo, hi)
<1>1. CASE v = <<>>
  <2>1. q \o v = q /\ a = hi
    BY <1>1, CarriesNothing
  <2> QED BY <2>1
<1>2. CASE v # <<>>
  <2>1. PICK m : m = v[1]
    OBVIOUS
  <2>2. m \in S /\ v = <<m>> /\ Head(v) = m /\ Tail(v) = <<>>
    <3>1. /\ Tail(v) \in Seq(S) /\ Head(v) = v[1] /\ v[1] \in S /\ Len(v) \in Nat \ {0}
          /\ Tail(v) = <<>> <=> Len(v) = 1
      BY <1>2, Dropped
    <3>2. Len(v) = 1
      BY <3>1
    <3>3. v = <<m>>
      BY <2>1, <3>1, <3>2
    <3> QED BY <2>1, <3>1, <3>2, <3>3
  <2>3. q \o v = Append(q, m)
    BY <2>2
  <2>4. CASE m.type = "data"
    <3>0. Head(v).n = a + 1 /\ Carries(Tail(v), a + 1, hi)
      BY <1>2, <2>2, <2>4, CarriesLess
    <3>1. m.n = a + 1 /\ Carries(<<>>, a + 1, hi) /\ a + 1 \in Nat
      BY <2>2, <3>0
    <3>2. hi = a + 1
      BY <3>1, CarriesNothing
    <3> QED BY <2>2, <2>3, <2>4, <3>1, <3>2, CarriesMore
  <2>5. CASE m.type # "data"
    <3>1. Carries(Tail(v), a, hi) /\ Tail(v) = <<>>
      BY <1>2, <2>2, <2>5, CarriesLess
    <3>2. hi = a
      BY <3>1, CarriesNothing
    <3> QED BY <2>2, <2>3, <2>5, <3>2, CarriesOther
  <2> QED BY <2>4, <2>5
<1> QED BY <1>1, <1>2

(* What is in the channel, in the reader's hand and on the wire is, in     *)
(* this order, what was written and not taken.                             *)
Flow(incoming, hand, wire, taken, written) ==
    \E a, b \in taken .. written :
      /\ Carries(incoming, taken, a) /\ Carries(hand, a, b) /\ Carries(wire, b, written)

LEMMA FlowOut ==
    ASSUME NEW u, NEW v, NEW q \in Seq(Packets), NEW m \in Packets, NEW lo \in Nat, NEW hi \in Nat,
           Flow(u, v, q, lo, hi)
    PROVE  /\ m.type # "data" => Flow(u, v, Append(q, m), lo, hi)
           /\ m.type = "data" /\ m.n = hi + 1 => Flow(u, v, Append(q, m), lo, hi + 1)
<1>1. PICK a \in lo .. hi, b \in lo .. hi :
        Carries(u, lo, a) /\ Carries(v, a, b) /\ Carries(q, b, hi)
  BY DEF Flow
<1>2. b \in Nat /\ a \in lo .. hi + 1 /\ b \in lo .. hi + 1
  OBVIOUS
<1>3. m.type # "data" => Carries(Append(q, m), b, hi)
  BY <1>1, <1>2, CarriesOther
<1>4. m.type = "data" /\ m.n = hi + 1 => Carries(Append(q, m), b, hi + 1)
  BY <1>1, <1>2, CarriesMore
<1> QED BY <1>1, <1>2, <1>3, <1>4, Zenon DEF Flow

LEMMA FlowIn ==
    ASSUME NEW u, NEW q \in Seq(Packets), q # <<>>, NEW v, NEW lo \in Nat, NEW hi \in Nat,
           Flow(u, v, q, lo, hi)
    PROVE  /\ Head(q).type # "data" => Flow(u, v, Tail(q), lo, hi)
           /\ \A x \in Delivered :
                v = <<>> /\ Head(q).type = "data" /\ x.type = "data" /\ x.n = Head(q).n
                  => Flow(u, <<x>>, Tail(q), lo, hi)
<1>1. PICK a \in lo .. hi, b \in lo .. hi :
        Carries(u, lo, a) /\ Carries(v, a, b) /\ Carries(q, b, hi)
  BY DEF Flow
<1>2. a \in Nat /\ b \in Nat
  OBVIOUS
<1>3. /\ Head(q).type # "data" => Carries(Tail(q), b, hi)
      /\ Head(q).type = "data" => Head(q).n = b + 1 /\ b + 1 <= hi /\ Carries(Tail(q), b + 1, hi)
  BY <1>1, <1>2, CarriesLess
<1>4. Head(q).type # "data" => Flow(u, v, Tail(q), lo, hi)
  BY <1>1, <1>3, Zenon DEF Flow
<1>5. ASSUME NEW x \in Delivered, v = <<>>, Head(q).type = "data", x.type = "data",
             x.n = Head(q).n
      PROVE  Flow(u, <<x>>, Tail(q), lo, hi)
  <2>1. a = b
    BY <1>1, <1>2, <1>5, CarriesNothing
  <2>2. Carries(<<>>, a, a) /\ <<>> \in Seq(Delivered) /\ Append(<<>>, x) = <<x>>
    BY <1>2, CarriesNothing
  <2>3. Carries(Append(<<>>, x), a, a + 1)
    BY <1>2, <1>3, <1>5, <2>1, <2>2, CarriesMore
  <2>4. b + 1 \in lo .. hi /\ Carries(<<x>>, a, b + 1) /\ Carries(Tail(q), b + 1, hi)
    BY <1>2, <1>3, <1>5, <2>1, <2>2, <2>3
  <2> QED BY <1>1, <2>4, Zenon DEF Flow
<1> QED BY <1>4, <1>5

LEMMA FlowDeliver ==
    ASSUME NEW u \in Seq(Delivered), NEW v \in Seq(Delivered), Len(v) <= 1, NEW q,
           NEW lo \in Nat, NEW hi \in Nat, Flow(u, v, q, lo, hi)
    PROVE  Flow(u \o v, <<>>, q, lo, hi)
<1>1. PICK a \in lo .. hi, b \in lo .. hi :
        Carries(u, lo, a) /\ Carries(v, a, b) /\ Carries(q, b, hi)
  BY DEF Flow
<1>2. a \in Nat /\ b \in Nat
  OBVIOUS
<1>3. Carries(u \o v, lo, b)
  BY <1>1, <1>2, CarriesJoined
<1>4. Carries(<<>>, b, b)
  BY <1>2, CarriesNothing
<1> QED BY <1>1, <1>3, <1>4, Zenon DEF Flow

LEMMA FlowReport ==
    ASSUME NEW u, NEW q, NEW lo \in Nat, NEW hi \in Nat, Flow(u, <<>>, q, lo, hi),
           NEW x \in Delivered, x.type = "newkeys"
    PROVE  Flow(u, <<x>>, q, lo, hi)
<1>1. PICK a \in lo .. hi, b \in lo .. hi :
        Carries(u, lo, a) /\ Carries(<<>>, a, b) /\ Carries(q, b, hi)
  BY DEF Flow
<1>2. a \in Nat /\ b \in Nat /\ <<>> \in Seq(Delivered) /\ Append(<<>>, x) = <<x>>
      /\ x.type # "data"
  OBVIOUS
<1>3. Carries(Append(<<>>, x), a, b)
  BY <1>1, <1>2, CarriesOther
<1> QED BY <1>1, <1>2, <1>3, Zenon DEF Flow

LEMMA FlowTaken ==
    ASSUME NEW u \in Seq(Delivered), u # <<>>, NEW v, NEW q, NEW lo \in Nat, NEW hi \in Nat,
           Flow(u, v, q, lo, hi)
    PROVE  /\ Head(u).type # "data" => Flow(Tail(u), v, q, lo, hi)
           /\ Head(u).type = "data" => Flow(Tail(u), v, q, lo + 1, hi)
<1>1. PICK a \in lo .. hi, b \in lo .. hi :
        Carries(u, lo, a) /\ Carries(v, a, b) /\ Carries(q, b, hi)
  BY DEF Flow
<1>2. a \in Nat /\ b \in Nat
  OBVIOUS
<1>3. /\ Head(u).type # "data" => Carries(Tail(u), lo, a)
      /\ Head(u).type = "data" => lo + 1 <= a /\ Carries(Tail(u), lo + 1, a)
  BY <1>1, <1>2, CarriesLess
<1>4. a <= b
  BY <1>1 DEF Carries
<1>5. Head(u).type = "data" => a \in lo + 1 .. hi /\ b \in lo + 1 .. hi
  BY <1>2, <1>3, <1>4
<1> QED BY <1>1, <1>3, <1>5, Zenon DEF Flow

-----------------------------------------------------------------------------
(* Only data and the report of the first exchange are delivered, and the   *)
(* handshake that waits for the report finds nothing before it.            *)
Handed(q) == \A i \in 1 .. Len(q) : q[i].type \in {"data", "newkeys"}
Greeting == {"start", "firstInit", "newkeys"}
Unkeyed(t, h, k, p) ==
    \/ REpoch(t) = 0 \/ p.reader \in Ended
    \/ p.reader = "kexDone" /\ k.hash = h.session
ReportFirst(t, h, k, p) ==
    p.main \in Greeting =>
      \/ h.incoming # <<>> /\ h.incoming[1].type = "newkeys"
      \/ h.incoming = <<>> /\ k.hand # <<>> /\ k.hand[1].type = "newkeys"
      \/ h.incoming = <<>> /\ k.hand = <<>> /\ Unkeyed(t, h, k, p)

ServedOK(t, h, k, p, wire, taken, written) ==
    /\ Handed(h.incoming) /\ Handed(k.hand) /\ ReportFirst(t, h, k, p)
    /\ Flow(h.incoming, k.hand, wire, taken, written)
Served(s) == ServedOK(tr[s], ht[s], kex[s], pc[s], sock[Peer(s)].wire, got[s], sent[Peer(s)])
Deliveries == Inv /\ got \in [Side -> Nat] /\ \A s \in Side : Served(s)

LEMMA InitDeliveries == Init => Deliveries
<1> SUFFICES ASSUME Init PROVE Deliveries
  OBVIOUS
<1>1. Inv /\ got \in [Side -> Nat]
  BY InitInv DEF Init
<1>2. ASSUME NEW s \in Side PROVE Served(s)
  <2>1. Peer(s) \in Side
    BY Sides
  <2>2. /\ ht[s].incoming = <<>> /\ kex[s].hand = <<>> /\ sock[Peer(s)].wire = <<>>
        /\ got[s] = 0 /\ sent[Peer(s)] = 0
    BY <2>1 DEF Init
  <2>3. REpoch(tr[s]) = 0
    BY DEF Init, REpoch, Epoch
  <2>4. Flow(<<>>, <<>>, <<>>, 0, 0)
    <3>1. Carries(<<>>, 0, 0) /\ 0 \in 0 .. 0
      BY CarriesNothing
    <3> QED BY <3>1 DEF Flow
  <2>5. Handed(<<>>)
    BY DEF Handed
  <2> QED BY <2>2, <2>3, <2>4, <2>5 DEF Served, ServedOK, ReportFirst, Unkeyed
<1> QED BY <1>1, <1>2 DEF Deliveries

(* The parts of a step of end s: the other end sees no more of it than     *)
(* what is on the wire.                                                    *)
OthersKept(s) ==
    /\ tr'[Peer(s)] = tr[Peer(s)] /\ ht'[Peer(s)] = ht[Peer(s)]
    /\ kex'[Peer(s)] = kex[Peer(s)] /\ pc'[Peer(s)] = pc[Peer(s)]
Outgoing(s) ==
    \/ sock'[s].wire = sock[s].wire
    \/ \E m \in Packets : m.type # "data" /\ sock'[s].wire = Append(sock[s].wire, m)

LEMMA ServedBoth ==
    ASSUME Deliveries, Inv', NEW s \in Side, OthersKept(s), got' \in [Side -> Nat],
           got'[Peer(s)] = got[Peer(s)],
           Flow(ht[Peer(s)].incoming, kex[Peer(s)].hand, sock'[s].wire, got[Peer(s)], sent'[s]),
           ServedOK(tr'[s], ht'[s], kex'[s], pc'[s], sock'[Peer(s)].wire, got'[s], sent'[Peer(s)])
    PROVE  Deliveries'
<1>1. PICK d : d = Peer(s)
  OBVIOUS
<1>2. d \in Side /\ Peer(d) = s /\ \A x \in Side : x = s \/ x = d
  BY <1>1, Sides
<1>3. ServedOK(tr[d], ht[d], kex[d], pc[d], sock'[s].wire, got[d], sent'[s])
  BY <1>1, <1>2, Zenon DEF Deliveries, Served, ServedOK
<1>4. ServedOK(tr'[d], ht'[d], kex'[d], pc'[d], sock'[s].wire, got'[d], sent'[s])
  BY <1>1, <1>3 DEF OthersKept
<1>5. Served(d)'
  BY <1>2, <1>4 DEF Served, ServedOK, ReportFirst, Unkeyed, Handed, Flow
<1>6. Served(s)'
  BY <1>1 DEF Served, ServedOK, ReportFirst, Unkeyed, Handed, Flow
<1> QED BY <1>2, <1>5, <1>6 DEF Deliveries

LEMMA ServedNext ==
    ASSUME Deliveries, Inv', NEW s \in Side, OthersKept(s), Outgoing(s),
           got' \in [Side -> Nat], got'[Peer(s)] = got[Peer(s)], sent' = sent,
           ServedOK(tr'[s], ht'[s], kex'[s], pc'[s], sock'[Peer(s)].wire, got'[s], sent[Peer(s)])
    PROVE  Deliveries'
<1>1. PICK d : d = Peer(s)
  OBVIOUS
<1>2. d \in Side /\ Peer(d) = s
  BY <1>1, Sides
<1>3. Served(d) /\ got[d] \in Nat /\ sent[s] \in Nat /\ sock[s].wire \in Seq(Packets)
  BY <1>2, Parts DEF Deliveries, Maps, Sockets
<1>4. Flow(ht[d].incoming, kex[d].hand, sock[s].wire, got[d], sent[s])
  BY <1>2, <1>3 DEF Served, ServedOK
<1>5. Flow(ht[d].incoming, kex[d].hand, sock'[s].wire, got[d], sent[s])
  <2>1. CASE sock'[s].wire = sock[s].wire
    BY <1>4, <2>1
  <2>2. CASE sock'[s].wire # sock[s].wire
    <3>1. PICK m \in Packets : m.type # "data" /\ sock'[s].wire = Append(sock[s].wire, m)
      BY <2>2 DEF Outgoing
    <3> QED BY <1>3, <1>4, <3>1, FlowOut
  <2> QED BY <2>1, <2>2
<1> QED BY <1>1, <1>5, ServedBoth

(* A step that moves no packet to or from this end's queues.               *)
Quiet(s) ==
    /\ OthersKept(s) /\ Outgoing(s) /\ got' = got /\ sent' = sent
    /\ sock'[Peer(s)].wire = sock[Peer(s)].wire
    /\ ht'[s].incoming = ht[s].incoming /\ kex'[s].hand = kex[s].hand
    /\ tr'[s].reader = tr[s].reader
    /\ pc'[s].main \in Greeting => pc[s].main \in Greeting
    /\ pc[s].reader \in Ended => pc'[s].reader \in Ended
    /\ pc[s].reader = "kexDone" =>
         pc'[s].reader = "kexDone" /\ kex'[s].hash = kex[s].hash /\ ht'[s].session = ht[s].session

LEMMA QuietKeeps ==
    ASSUME Deliveries, Inv', NEW s \in Side, Quiet(s)
    PROVE  Deliveries'
<1>1. ServedOK(tr[s], ht[s], kex[s], pc[s], sock[Peer(s)].wire, got[s], sent[Peer(s)])
  BY DEF Deliveries, Served
<1>2. REpoch(tr'[s]) = REpoch(tr[s])
  BY DEF Quiet, REpoch
<1>3. Unkeyed(tr[s], ht[s], kex[s], pc[s]) => Unkeyed(tr'[s], ht'[s], kex'[s], pc'[s])
  BY <1>2, Zenon DEF Quiet, Unkeyed
<1>4. ReportFirst(tr'[s], ht'[s], kex'[s], pc'[s])
  BY <1>1, <1>3, Zenon DEF Quiet, ServedOK, ReportFirst
<1>5. ServedOK(tr'[s], ht'[s], kex'[s], pc'[s], sock'[Peer(s)].wire, got'[s], sent[Peer(s)])
  BY <1>1, <1>4, Zenon DEF Quiet, ServedOK
<1>6. got' \in [Side -> Nat] /\ got'[Peer(s)] = got[Peer(s)]
  BY DEF Quiet, Deliveries
<1> QED BY <1>5, <1>6, ServedNext DEF Quiet

(* A step that changes ht[s] and pc[s] only.                               *)
LEMMA QuietHere ==
    ASSUME Inv, NEW s \in Side, NEW h, NEW p, SetHt(s, h) \/ (ht' = ht /\ h = ht[s]),
           pc' = [pc EXCEPT ![s] = p], UNCHANGED <<tr, kex, sock, sent, got>>,
           h.incoming = ht[s].incoming, h.session = ht[s].session,
           p.main \in Greeting => pc[s].main \in Greeting,
           pc[s].reader \in Ended => p.reader \in Ended,
           pc[s].reader = "kexDone" => p.reader = "kexDone"
    PROVE  Quiet(s)
<1>1. Maps /\ Peer(s) \in Side /\ Peer(s) # s
  BY Parts
<1>2. /\ ht'[s] = h /\ ht'[Peer(s)] = ht[Peer(s)] /\ pc'[s] = p /\ pc'[Peer(s)] = pc[Peer(s)]
  BY <1>1 DEF SetHt, Maps
<1> QED BY <1>2, Zenon DEF Quiet, OthersKept, Outgoing

LEMMA GotoReader ==
    ASSUME Inv, NEW s \in Side, NEW l, Goto(s, "reader", l)
    PROVE  /\ pc'[s].reader = l /\ pc'[s].main = pc[s].main
           /\ pc'[Peer(s)] = pc[Peer(s)]
           /\ \E p : pc' = [pc EXCEPT ![s] = p] /\ p.reader = l /\ p.main = pc[s].main
<1>1. Maps /\ pc[s] \in Labels /\ Peer(s) \in Side /\ Peer(s) # s
  BY Parts
<1>2. PICK p : p = [pc[s] EXCEPT !.reader = l]
  OBVIOUS
<1>3. pc' = [pc EXCEPT ![s] = p] /\ pc'[s] = p /\ pc'[Peer(s)] = pc[Peer(s)]
  BY <1>1, <1>2 DEF Goto, Maps
<1>4. p.reader = l /\ p.main = pc[s].main
  BY <1>1, <1>2 DEF Labels
<1> QED BY <1>3, <1>4

LEMMA GotoMain ==
    ASSUME Inv, NEW s \in Side, NEW t \in {"main", "writer"}, NEW l, Goto(s, t, l)
    PROVE  /\ pc'[s].reader = pc[s].reader /\ pc'[Peer(s)] = pc[Peer(s)]
           /\ pc'[s].main = IF t = "main" THEN l ELSE pc[s].main
           /\ \E p : /\ pc' = [pc EXCEPT ![s] = p] /\ p.reader = pc[s].reader
                     /\ p.main = IF t = "main" THEN l ELSE pc[s].main
<1>1. Maps /\ pc[s] \in Labels /\ Peer(s) \in Side /\ Peer(s) # s
  BY Parts
<1>2. PICK p : p = [pc[s] EXCEPT ![t] = l]
  OBVIOUS
<1>3. pc' = [pc EXCEPT ![s] = p] /\ pc'[s] = p /\ pc'[Peer(s)] = pc[Peer(s)]
  BY <1>1, <1>2 DEF Goto, Maps
<1>4. p.reader = pc[s].reader /\ p.main = IF t = "main" THEN l ELSE pc[s].main
  BY <1>1, <1>2 DEF Labels
<1> QED BY <1>3, <1>4

LEMMA RequestLockQuiet ==
    ASSUME Inv, NEW s \in Side, RequestLock(s)
    PROVE  Quiet(s)
<1>1. /\ ht[s] \in Handshakes /\ pc[s].reader = "reqLock" /\ Goto(s, "reader", "reqInit")
      /\ UNCHANGED <<tr, kex, sock, sent, got>>
  BY Parts DEF RequestLock
<1>2. PICK h : SetHt(s, h) /\ h = [ht[s] EXCEPT !.mu = "reader"]
  BY DEF RequestLock
<1>3. h.incoming = ht[s].incoming /\ h.session = ht[s].session
  BY <1>1, <1>2 DEF Handshakes
<1>4. PICK p : pc' = [pc EXCEPT ![s] = p] /\ p.reader = "reqInit" /\ p.main = pc[s].main
  BY <1>1, GotoReader
<1> QED BY <1>1, <1>2, <1>3, <1>4, QuietHere DEF Ended

LEMMA ReadErrorQuiet ==
    ASSUME Inv, NEW s \in Side, ReadError(s)
    PROVE  Quiet(s)
<1>1. /\ ht[s] \in Handshakes /\ pc[s].reader = "read" /\ Goto(s, "reader", "end")
      /\ UNCHANGED <<tr, kex, sock, sent, got>>
  BY Parts DEF ReadError, ReaderEnds
<1>2. PICK h : SetHt(s, h) /\ h = [ht[s] EXCEPT !.closed = TRUE]
  BY DEF ReadError, ReaderEnds
<1>3. h.incoming = ht[s].incoming /\ h.session = ht[s].session
  BY <1>1, <1>2 DEF Handshakes
<1>4. PICK p : pc' = [pc EXCEPT ![s] = p] /\ p.reader = "end" /\ p.main = pc[s].main
  BY <1>1, GotoReader
<1> QED BY <1>1, <1>2, <1>3, <1>4, QuietHere DEF Ended

LEMMA WokenIs ==
    ASSUME Inv, NEW s \in Side, NEW l, NEW p, p = [Broadcast(s) EXCEPT !.reader = l]
    PROVE  p.reader = l /\ (p.main = pc[s].main \/ p.main = "relock")
BY DEF Broadcast, Thread

LEMMA readLoopEndsQuiet ==
    ASSUME Inv, NEW s \in Side, readLoopEnds(s)
    PROVE  Quiet(s)
<1>1. /\ ht[s] \in Handshakes /\ pc[s].reader = "end"
      /\ UNCHANGED <<tr, kex, sock, sent, got>>
  BY Parts DEF readLoopEnds
<1>2. PICK h : SetHt(s, h) /\ h = [ht[s] EXCEPT !.writeErr = TRUE]
  BY DEF readLoopEnds
<1>3. h.incoming = ht[s].incoming /\ h.session = ht[s].session
  BY <1>1, <1>2 DEF Handshakes
<1>4. PICK p : pc' = [pc EXCEPT ![s] = p] /\ p = [Broadcast(s) EXCEPT !.reader = "done"]
  BY DEF readLoopEnds
<1>5. p.reader = "done" /\ (p.main \in Greeting => pc[s].main \in Greeting)
  BY <1>4, WokenIs DEF Greeting
<1> QED BY <1>1, <1>2, <1>3, <1>4, <1>5, QuietHere DEF Ended

LEMMA KexLockQuiet ==
    ASSUME Inv, NEW s \in Side, KexLock(s)
    PROVE  Quiet(s)
<1>1. PICK l : l = IF s = "client" /\ cfg.hello THEN "kexDone" ELSE "kexInit"
  OBVIOUS
<1>2. /\ ht[s] \in Handshakes /\ pc[s].reader = "kexLock" /\ Goto(s, "reader", l)
      /\ UNCHANGED <<tr, kex, sock, sent, got>>
  BY <1>1, Parts DEF KexLock
<1>3. PICK h : SetHt(s, h) /\ h = [ht[s] EXCEPT !.mu = "reader"]
  BY DEF KexLock
<1>4. h.incoming = ht[s].incoming /\ h.session = ht[s].session
  BY <1>2, <1>3 DEF Handshakes
<1>5. PICK p : pc' = [pc EXCEPT ![s] = p] /\ p.reader = l /\ p.main = pc[s].main
  BY <1>2, GotoReader
<1> QED BY <1>2, <1>3, <1>4, <1>5, QuietHere DEF Ended

LEMMA MainStartQuiet ==
    ASSUME Inv, NEW s \in Side, MainStart(s)
    PROVE  Quiet(s)
<1>1. /\ ht[s] \in Handshakes /\ pc[s].main = "start" /\ UNCHANGED <<tr, kex, sock, sent, got>>
      /\ Maps
  BY Parts DEF MainStart
<1>2. PICK h, l : /\ SetHt(s, h) \/ (ht' = ht /\ h = ht[s])
                  /\ Goto(s, "main", l)
                  /\ h = ht[s] \/ h = [ht[s] EXCEPT !.mu = "main"]
  BY DEF MainStart
<1>3. h.incoming = ht[s].incoming /\ h.session = ht[s].session
  BY <1>1, <1>2 DEF Handshakes
<1>4. PICK p : pc' = [pc EXCEPT ![s] = p] /\ p.reader = pc[s].reader
  BY <1>2, GotoMain
<1> QED BY <1>1, <1>2, <1>3, <1>4, QuietHere DEF Greeting

LEMMA MainLoopEndsQuiet ==
    ASSUME Inv, NEW s \in Side, MainLoopEnds(s)
    PROVE  Quiet(s)
<1>1. UNCHANGED <<tr, ht, kex, sock, sent, got>> /\ Goto(s, "main", "close")
  BY DEF MainLoopEnds
<1>2. PICK p : pc' = [pc EXCEPT ![s] = p] /\ p.reader = pc[s].reader /\ p.main = "close"
  BY <1>1, GotoMain
<1> QED BY <1>1, <1>2, QuietHere DEF Greeting

LEMMA UserWritesQuiet ==
    ASSUME Inv, NEW s \in Side, UserWrites(s)
    PROVE  Quiet(s)
<1>1. UNCHANGED <<tr, ht, kex, sock, sent, got>> /\ Goto(s, "writer", "lock")
  BY DEF UserWrites
<1>2. PICK p : pc' = [pc EXCEPT ![s] = p] /\ p.reader = pc[s].reader /\ p.main = pc[s].main
  BY <1>1, GotoMain
<1> QED BY <1>1, <1>2, QuietHere

LEMMA WaitedIs ==
    ASSUME NEW s \in Side, NEW t \in {"main", "writer"}, NEW g \in Handshakes,
           WaitForKex(s, t, g)
    PROVE  \E h, l : /\ SetHt(s, h) /\ Goto(s, t, l) /\ l \notin Greeting
                     /\ h.incoming = g.incoming /\ h.session = g.session
<1>1. PICK h, l : SetHt(s, h) /\ Goto(s, t, l) /\ Leaves(t, g, h, l)
  BY Waited
<1>2. h.incoming = g.incoming /\ h.session = g.session /\ l \notin Greeting
  BY <1>1 DEF Leaves, Greeting, Writing
<1> QED BY <1>1, <1>2

LEMMA WriteLockQuiet ==
    ASSUME Inv, NEW s \in Side, NEW t \in {"main", "writer"}, WriteLock(s, t)
    PROVE  Quiet(s)
<1>1. ht[s] \in Handshakes /\ UNCHANGED <<tr, kex, sock, sent, got>>
  BY Parts DEF WriteLock
<1>2. PICK h, l : /\ SetHt(s, h) /\ Goto(s, t, l) /\ l \notin Greeting
                  /\ h.incoming = ht[s].incoming /\ h.session = ht[s].session
  <2>1. CASE pc[s][t] = "lock" /\ ht[s].written > RekeyThreshold
    <3>1. PICK h : h = [ht[s] EXCEPT !.mu = t]
      OBVIOUS
    <3>2. SetHt(s, h) /\ Goto(s, t, "rekey") /\ "rekey" \notin Greeting
      BY <2>1, <3>1 DEF WriteLock, Greeting
    <3>3. h.incoming = ht[s].incoming /\ h.session = ht[s].session
      BY <1>1, <3>1 DEF Handshakes
    <3> QED BY <3>2, <3>3
  <2>2. CASE ~(pc[s][t] = "lock" /\ ht[s].written > RekeyThreshold)
    <3>1. WaitForKex(s, t, ht[s])
      BY <2>2 DEF WriteLock
    <3> QED BY <1>1, <3>1, WaitedIs
  <2> QED BY <2>1, <2>2
<1>3. PICK p : /\ pc' = [pc EXCEPT ![s] = p] /\ p.reader = pc[s].reader
               /\ p.main = IF t = "main" THEN l ELSE pc[s].main
  BY <1>2, GotoMain
<1> QED BY <1>1, <1>2, <1>3, QuietHere

(* A step that may write a packet of a key exchange.                       *)
LEMMA QuietThere ==
    ASSUME Inv, NEW s \in Side, NEW h, NEW p, SetHt(s, h) \/ (ht' = ht /\ h = ht[s]),
           pc' = [pc EXCEPT ![s] = p], UNCHANGED <<sent, got>>, h.incoming = ht[s].incoming,
           Outgoing(s), sock'[Peer(s)].wire = sock[Peer(s)].wire,
           tr'[Peer(s)] = tr[Peer(s)], tr'[s].reader = tr[s].reader,
           kex'[Peer(s)] = kex[Peer(s)], kex'[s].hand = kex[s].hand,
           p.main \in Greeting => pc[s].main \in Greeting,
           pc[s].reader \in Ended => p.reader \in Ended,
           pc[s].reader = "kexDone" =>
             p.reader = "kexDone" /\ kex'[s].hash = kex[s].hash /\ h.session = ht[s].session
    PROVE  Quiet(s)
<1>1. Maps /\ Peer(s) \in Side /\ Peer(s) # s
  BY Parts
<1>2. /\ ht'[s] = h /\ ht'[Peer(s)] = ht[Peer(s)] /\ pc'[s] = p /\ pc'[Peer(s)] = pc[Peer(s)]
  BY <1>1 DEF SetHt, Maps
<1> QED BY <1>2, Zenon DEF Quiet, OthersKept

LEMMA InitOut ==
    ASSUME Inv, NEW s \in Side, NEW h, NEW ok, SendKexInit(s, h, ok)
    PROVE  /\ Outgoing(s) /\ sock'[Peer(s)].wire = sock[Peer(s)].wire /\ tr' = tr
           /\ h \in Handshakes /\ h.incoming = ht[s].incoming /\ h.session = ht[s].session
<1>1. ht[s] \in Handshakes /\ tr[s] \in Ciphers /\ sock[s] \in Sockets
  BY Parts
<1>2. CASE h = ht[s] /\ UNCHANGED <<sock, tr>>
  BY <1>1, <1>2 DEF Outgoing
<1>3. CASE ~(h = ht[s] /\ UNCHANGED <<sock, tr>>)
  <2>1. PICK m : m = PacketOf(s, "kexinit", ht[s].inits + 1)
    OBVIOUS
  <2>2. /\ CanWrite(s) /\ h = Sent(s) /\ tr' = tr /\ sock'[Peer(s)] = sock[Peer(s)]
        /\ sock'[s] = [sock[s] EXCEPT !.wire = Append(@, m)]
    BY <1>3, <2>1, Inited
  <2>3. m \in Packets /\ m.type # "data"
    BY <1>1, <2>1 DEF PacketOf, Packets, Ciphers, Handshakes, AllTypes, Replies
  <2>4. sock'[s].wire = Append(sock[s].wire, m)
    BY <1>1, <2>2, <2>3, SocketPut
  <2> QED BY <1>1, <2>2, <2>3, <2>4, SentIs DEF Outgoing
<1> QED BY <1>2, <1>3

LEMMA requestKeyChangeQuiet ==
    ASSUME Inv, NEW s \in Side, requestKeyChange(s)
    PROVE  Quiet(s)
<1>1. pc[s].reader = "reqInit" /\ UNCHANGED <<kex, sent, got>>
  BY DEF requestKeyChange
<1>2. PICK ok \in BOOLEAN, g \in {ht[s], Sent(s)} :
        /\ SendKexInit(s, g, ok)
        /\ IF ok THEN /\ SetHt(s, [g EXCEPT !.mu = NoOne])
                      /\ Goto(s, "reader", "read")
                      /\ UNCHANGED why
                 ELSE ReaderEnds(s, [g EXCEPT !.mu = NoOne], "write")
  BY DEF requestKeyChange
<1>3. /\ Outgoing(s) /\ sock'[Peer(s)].wire = sock[Peer(s)].wire /\ tr' = tr
      /\ g \in Handshakes /\ g.incoming = ht[s].incoming /\ g.session = ht[s].session
  BY <1>2, InitOut
<1>4. PICK h, l : /\ SetHt(s, h) /\ Goto(s, "reader", l)
                  /\ \/ h = [g EXCEPT !.mu = NoOne]
                     \/ h = [[g EXCEPT !.mu = NoOne] EXCEPT !.closed = TRUE]
  BY <1>2 DEF ReaderEnds
<1>5. h.incoming = ht[s].incoming
  BY <1>3, <1>4 DEF Handshakes
<1>6. PICK p : pc' = [pc EXCEPT ![s] = p] /\ p.reader = l /\ p.main = pc[s].main
  BY <1>4, GotoReader
<1> QED BY <1>1, <1>3, <1>4, <1>5, <1>6, QuietThere DEF Ended

LEMMA sendKexInitQuiet ==
    ASSUME Inv, NEW s \in Side, sendKexInit(s)
    PROVE  Quiet(s)
<1>1. pc[s].main = "firstInit" /\ UNCHANGED <<kex, sent, got>> /\ ht[s] \in Handshakes
  BY Parts DEF sendKexInit
<1>2. PICK ok \in BOOLEAN, g \in {ht[s], Sent(s)} :
        /\ IF ht[s].session = NoHash THEN SendKexInit(s, g, ok)
           ELSE g = ht[s] /\ ok /\ UNCHANGED <<sock, tr>>
        /\ SetHt(s, [g EXCEPT !.mu = NoOne])
        /\ Goto(s, "main", IF ok THEN "newkeys" ELSE "close")
  BY DEF sendKexInit
<1>3. /\ Outgoing(s) /\ sock'[Peer(s)].wire = sock[Peer(s)].wire /\ tr' = tr
      /\ g \in Handshakes /\ g.incoming = ht[s].incoming /\ g.session = ht[s].session
  <2>1. CASE SendKexInit(s, g, ok)
    BY <2>1, InitOut
  <2>2. CASE g = ht[s] /\ UNCHANGED <<sock, tr>>
    BY <1>1, <2>2 DEF Outgoing
  <2> QED BY <1>2, <2>1, <2>2
<1>4. PICK h, l : SetHt(s, h) /\ Goto(s, "main", l) /\ h = [g EXCEPT !.mu = NoOne]
  BY <1>2
<1>5. h.incoming = ht[s].incoming /\ h.session = ht[s].session
  BY <1>3, <1>4 DEF Handshakes
<1>6. PICK p : pc' = [pc EXCEPT ![s] = p] /\ p.reader = pc[s].reader
  BY <1>4, GotoMain
<1> QED BY <1>1, <1>3, <1>4, <1>5, <1>6, QuietThere DEF Greeting

LEMMA WriteRekeyQuiet ==
    ASSUME Inv, NEW s \in Side, NEW t \in {"main", "writer"}, WriteRekey(s, t)
    PROVE  Quiet(s)
<1>1. UNCHANGED <<kex, sent, got>>
  BY DEF WriteRekey
<1>2. PICK ok \in BOOLEAN, g \in {ht[s], Sent(s)} : SendKexInit(s, g, ok) /\ WaitForKex(s, t, g)
  BY DEF WriteRekey
<1>3. /\ Outgoing(s) /\ sock'[Peer(s)].wire = sock[Peer(s)].wire /\ tr' = tr
      /\ g \in Handshakes /\ g.incoming = ht[s].incoming /\ g.session = ht[s].session
  BY <1>2, InitOut
<1>4. PICK h, l : /\ SetHt(s, h) /\ Goto(s, t, l) /\ l \notin Greeting
                  /\ h.incoming = g.incoming /\ h.session = g.session
  BY <1>2, <1>3, WaitedIs
<1>5. PICK p : /\ pc' = [pc EXCEPT ![s] = p] /\ p.reader = pc[s].reader
               /\ p.main = IF t = "main" THEN l ELSE pc[s].main
  BY <1>4, GotoMain
<1> QED BY <1>1, <1>3, <1>4, <1>5, QuietThere

LEMMA KexBeginQuiet ==
    ASSUME Inv, NEW s \in Side, KexBegin(s)
    PROVE  Quiet(s)
<1>1. /\ pc[s].reader = "kexInit" /\ UNCHANGED <<sent, got>> /\ Maps /\ Peer(s) \in Side
      /\ Peer(s) # s /\ kex[s] \in Exchanges
  BY Parts DEF KexBegin
<1>2. PICK ok \in BOOLEAN, h \in {ht[s], Sent(s)} :
        /\ SendKexInit(s, h, ok) /\ SetHt(s, h)
        /\ kex' = [kex EXCEPT ![s].step = 1, ![s].hash = Hash(s, h.sentInit, kex[s].theirs)]
        /\ IF ~ok THEN KexFails(s, "write")
           ELSE IF Agreed = "" THEN KexFails(s, "algorithms")
           ELSE Goto(s, "reader", "kex") /\ UNCHANGED why
  BY DEF KexBegin
<1>3. /\ Outgoing(s) /\ sock'[Peer(s)].wire = sock[Peer(s)].wire /\ tr' = tr
      /\ h.incoming = ht[s].incoming
  BY <1>2, InitOut
<1>4. kex'[Peer(s)] = kex[Peer(s)] /\ kex'[s].hand = kex[s].hand
  <2>1. PICK x : x = Hash(s, h.sentInit, kex[s].theirs)
    OBVIOUS
  <2>2. kex' = [kex EXCEPT ![s].step = 1, ![s].hash = x]
    BY <1>2, <2>1
  <2>3. kex'[Peer(s)] = kex[Peer(s)] /\ kex'[s] = [kex[s] EXCEPT !.step = 1, !.hash = x]
    BY <1>1, <2>2 DEF Maps
  <2> QED BY <1>1, <2>3 DEF Exchanges
<1>5. PICK l : Goto(s, "reader", l)
  BY <1>2 DEF KexFails
<1>6. PICK p : pc' = [pc EXCEPT ![s] = p] /\ p.reader = l /\ p.main = pc[s].main
  BY <1>5, GotoReader
<1> QED BY <1>1, <1>2, <1>3, <1>4, <1>6, QuietThere DEF Ended

LEMMA FailsQuiet ==
    ASSUME Inv, NEW s \in Side, pc[s].reader = "kex", NEW w, KexFails(s, w),
           UNCHANGED <<sock, tr, ht, kex, sent, got>>
    PROVE  Quiet(s)
<1>1. PICK p : pc' = [pc EXCEPT ![s] = p] /\ p.reader = "kexFailed" /\ p.main = pc[s].main
  BY GotoReader DEF KexFails
<1> QED BY <1>1, QuietHere DEF Ended

LEMMA AdvanceHand ==
    ASSUME Inv, NEW s \in Side, Advance(s)
    PROVE  /\ kex'[Peer(s)] = kex[Peer(s)] /\ kex'[s].hand = kex[s].hand
           /\ kex'[s].hash = kex[s].hash
           /\ \E p : /\ pc' = [pc EXCEPT ![s] = p] /\ p.reader \in {"kex", "kexDone"}
                     /\ p.main = pc[s].main
<1>1. Maps /\ Peer(s) \in Side /\ Peer(s) # s /\ kex[s] \in Exchanges
  BY Parts
<1>2. PICK l : l \in {"kex", "kexDone"} /\ Goto(s, "reader", l)
  BY DEF Advance
<1>3. kex'[Peer(s)] = kex[Peer(s)] /\ kex'[s] = [kex[s] EXCEPT !.step = @ + 1]
  BY <1>1 DEF Advance, Maps
<1>4. kex'[s].hand = kex[s].hand /\ kex'[s].hash = kex[s].hash
  BY <1>1, <1>3 DEF Exchanges
<1>5. PICK p : pc' = [pc EXCEPT ![s] = p] /\ p.reader = l /\ p.main = pc[s].main
  BY <1>2, GotoReader
<1> QED BY <1>2, <1>3, <1>4, <1>5

LEMMA KexWriteErrorQuiet ==
    ASSUME Inv, NEW s \in Side, KexWriteError(s)
    PROVE  Quiet(s)
<1>1. pc[s].reader = "kex" /\ UNCHANGED <<sock, tr, ht, sent, got>>
  BY DEF KexWriteError
<1>2. CASE Step(s).op = "try"
  <2>1. Advance(s)
    BY <1>2 DEF KexWriteError
  <2>2. PICK p : pc' = [pc EXCEPT ![s] = p] /\ p.main = pc[s].main
    BY <2>1, AdvanceHand
  <2>3. kex'[Peer(s)] = kex[Peer(s)] /\ kex'[s].hand = kex[s].hand
    BY <2>1, AdvanceHand
  <2>4. Outgoing(s)
    BY <1>1 DEF Outgoing
  <2> QED BY <1>1, <2>2, <2>3, <2>4, QuietThere DEF Ended
<1>3. CASE Step(s).op # "try"
  <2>1. KexFails(s, "write") /\ UNCHANGED kex
    BY <1>3 DEF KexWriteError
  <2> QED BY <1>1, <2>1, FailsQuiet
<1> QED BY <1>2, <1>3

LEMMA KexReadErrorQuiet ==
    ASSUME Inv, NEW s \in Side, KexReadError(s)
    PROVE  Quiet(s)
BY FailsQuiet DEF KexReadError

LEMMA KexWriteQuiet ==
    ASSUME Inv, NEW s \in Side, KexWrite(s)
    PROVE  Quiet(s)
<1>1. /\ pc[s].reader = "kex" /\ CanWrite(s) /\ UNCHANGED <<ht, sent, got>> /\ Advance(s)
      /\ Step(s).op \in {"write", "try"} /\ PutPacket(s, Step(s).type, 0)
  BY DEF KexWrite
<1>2. PICK type, m : type = Step(s).type /\ m = PacketOf(s, type, 0)
  OBVIOUS
<1>3. /\ Maps /\ Peer(s) \in Side /\ Peer(s) # s /\ tr[s] \in Ciphers /\ sock[s] \in Sockets
      /\ kex[s] \in Exchanges /\ StepOK(s, kex[s].step, Step(s))
  BY <1>1, Amid
<1>4. type \in Methods(s) \cup {"newkeys"}
  BY <1>1, <1>2, <1>3 DEF StepOK, WriteOK
<1>5. type \in AllTypes /\ type # "data"
  BY <1>4 DEF AllTypes, Methods, Replies
<1>6. m \in Packets /\ m.type # "data"
  BY <1>2, <1>3, <1>5 DEF PacketOf, Packets, Ciphers, Exchanges
<1>7. sock'[Peer(s)] = sock[Peer(s)] /\ sock'[s] = [sock[s] EXCEPT !.wire = Append(@, m)]
  BY <1>1, <1>2, <1>3 DEF PutPacket, PacketOf, Maps
<1>8. sock'[s].wire = Append(sock[s].wire, m)
  BY <1>1, <1>3, <1>6, <1>7, SocketPut
<1>9. tr'[Peer(s)] = tr[Peer(s)] /\ tr'[s].reader = tr[s].reader
  <2>1. CASE type # "newkeys"
    BY <1>1, <1>2, <2>1 DEF PutPacket
  <2>2. CASE type = "newkeys"
    <3>1. PICK x, y : x = tr[s].pendW /\ y = (tr[s].panic \/ tr[s].pendW = NoKey)
      OBVIOUS
    <3>2. /\ tr'[Peer(s)] = tr[Peer(s)]
          /\ tr'[s] = [tr[s] EXCEPT !.writer = x, !.pendW = NoKey, !.panic = y]
      BY <1>1, <1>2, <1>3, <2>2, <3>1 DEF PutPacket, Maps
    <3> QED BY <1>3, <3>2 DEF Ciphers
  <2> QED BY <2>1, <2>2
<1>10. PICK p : pc' = [pc EXCEPT ![s] = p] /\ p.main = pc[s].main
  BY <1>1, AdvanceHand
<1>11. kex'[Peer(s)] = kex[Peer(s)] /\ kex'[s].hand = kex[s].hand
  BY <1>1, AdvanceHand
<1>12. Outgoing(s)
  BY <1>6, <1>8 DEF Outgoing
<1> QED BY <1>1, <1>7, <1>9, <1>10, <1>11, <1>12, QuietThere DEF Ended

LEMMA KexPrepareQuiet ==
    ASSUME Inv, NEW s \in Side, KexPrepare(s)
    PROVE  Quiet(s)
<1>1. /\ pc[s].reader = "kex" /\ Advance(s) /\ UNCHANGED <<sock, sent, got>>
      /\ Maps /\ Peer(s) \in Side /\ Peer(s) # s /\ ht[s] \in Handshakes /\ tr[s] \in Ciphers
  BY Parts DEF KexPrepare
<1>2. PICK id, h, x, y :
        /\ SetHt(s, h) /\ h = [ht[s] EXCEPT !.session = id]
        /\ tr' = [tr EXCEPT ![s].pendR = x, ![s].pendW = y]
  BY DEF KexPrepare
<1>3. h.incoming = ht[s].incoming
  BY <1>1, <1>2 DEF Handshakes
<1>4. /\ tr'[Peer(s)] = tr[Peer(s)]
      /\ tr'[s] = [tr[s] EXCEPT !.pendR = x, !.pendW = y]
  BY <1>1, <1>2 DEF Maps
<1>5. tr'[s].reader = tr[s].reader
  BY <1>1, <1>4 DEF Ciphers
<1>6. PICK p : pc' = [pc EXCEPT ![s] = p] /\ p.main = pc[s].main
  BY <1>1, AdvanceHand
<1>7. kex'[Peer(s)] = kex[Peer(s)] /\ kex'[s].hand = kex[s].hand
  BY <1>1, AdvanceHand
<1>8. Outgoing(s)
  BY <1>1 DEF Outgoing
<1> QED BY <1>1, <1>2, <1>3, <1>4, <1>5, <1>6, <1>7, <1>8, QuietThere DEF Ended

(* Closing a connection leaves on the wire what was written.               *)
LEMMA ClosedWires ==
    ASSUME Inv, NEW s \in Side, CloseConn(s)
    PROVE  Outgoing(s) /\ sock'[Peer(s)].wire = sock[Peer(s)].wire
<1>1. Maps /\ Peer(s) \in Side /\ Peer(s) # s /\ sock[s] \in Sockets
  BY Parts
<1>2. sock'[Peer(s)] = sock[Peer(s)] /\ sock'[s] = [sock[s] EXCEPT !.open = FALSE]
  BY <1>1 DEF CloseConn, Maps
<1>3. sock'[s].wire = sock[s].wire
  BY <1>1, <1>2 DEF Sockets
<1> QED BY <1>2, <1>3 DEF Outgoing

LEMMA MainCloseQuiet ==
    ASSUME Inv, NEW s \in Side, MainClose(s)
    PROVE  Quiet(s)
<1>1. UNCHANGED <<tr, ht, kex, sent, got>> /\ CloseConn(s) /\ Goto(s, "main", "done")
  BY DEF MainClose
<1>2. PICK p : pc' = [pc EXCEPT ![s] = p] /\ p.reader = pc[s].reader /\ p.main = "done"
  BY <1>1, GotoMain
<1> QED BY <1>1, <1>2, ClosedWires, QuietThere DEF Greeting

LEMMA KexFailedQuiet ==
    ASSUME Inv, NEW s \in Side, KexFailed(s)
    PROVE  Quiet(s)
<1>1. /\ pc[s].reader = "kexFailed" /\ CloseConn(s) /\ UNCHANGED <<tr, kex, sent, got>>
      /\ ht[s] \in Handshakes
  BY Parts DEF KexFailed
<1>2. PICK h : /\ SetHt(s, h)
               /\ h = [ht[s] EXCEPT !.writeErr = TRUE, !.sentInit = 0, !.written = 0,
                                    !.mu = NoOne, !.closed = TRUE]
  BY DEF KexFailed
<1>3. h.incoming = ht[s].incoming
  BY <1>1, <1>2 DEF Handshakes
<1>4. PICK p : pc' = [pc EXCEPT ![s] = p] /\ p = [Broadcast(s) EXCEPT !.reader = "end"]
  BY DEF KexFailed
<1>5. p.reader = "end" /\ (p.main \in Greeting => pc[s].main \in Greeting)
  BY <1>4, WokenIs DEF Greeting
<1> QED BY <1>1, <1>2, <1>3, <1>4, <1>5, ClosedWires, QuietThere DEF Ended

LEMMA DeadlineQuiet ==
    ASSUME Inv, DeadlineExpires
    PROVE  Quiet("client")
<1>1. PICK s \in Side : s = "client"
  BY DEF Side
<1>2. /\ Maps /\ Peer(s) \in Side /\ Peer(s) # s /\ sock[s] \in Sockets
      /\ UNCHANGED <<tr, ht, kex, pc, sent, got>>
  BY <1>1, Parts DEF DeadlineExpires
<1>3. sock'[Peer(s)] = sock[Peer(s)] /\ sock'[s] = [sock[s] EXCEPT !.late = TRUE]
  BY <1>1, <1>2 DEF DeadlineExpires, Maps
<1>4. sock'[s].wire = sock[s].wire
  BY <1>2, <1>3 DEF Sockets
<1>5. Quiet(s)
  BY <1>2, <1>3, <1>4, Zenon DEF Quiet, OthersKept, Outgoing
<1> QED BY <1>1, <1>5

(* What an end knows of its queues.                                        *)
LEMMA Queues ==
    ASSUME Deliveries, NEW s \in Side
    PROVE  /\ Inv /\ Maps /\ Peer(s) \in Side /\ Peer(s) # s
           /\ ht[s] \in Handshakes /\ kex[s] \in Exchanges /\ pc[s] \in Labels
           /\ ht[s].incoming \in Seq(Delivered) /\ kex[s].hand \in Seq(Delivered)
           /\ Inbound(s) \in Seq(Packets) /\ got[s] \in Nat /\ sent[Peer(s)] \in Nat
           /\ Handed(ht[s].incoming) /\ Handed(kex[s].hand)
           /\ ReportFirst(tr[s], ht[s], kex[s], pc[s])
           /\ Flow(ht[s].incoming, kex[s].hand, Inbound(s), got[s], sent[Peer(s)])
           /\ Len(kex[s].hand) <= 1 /\ (kex[s].hand # <<>> <=> pc[s].reader = "deliver")
<1>1. /\ Inv /\ Maps /\ Peer(s) \in Side /\ Peer(s) # s /\ ht[s] \in Handshakes
      /\ kex[s] \in Exchanges /\ pc[s] \in Labels /\ LockOK(ht[s], kex[s], pc[s], sock[s])
  BY Parts DEF Deliveries
<1>2. sock[Peer(s)] \in Sockets
  BY <1>1, Parts
<1>3. /\ ht[s].incoming \in Seq(Delivered) /\ kex[s].hand \in Seq(Delivered)
      /\ Inbound(s) \in Seq(Packets) /\ got[s] \in Nat /\ sent[Peer(s)] \in Nat
  BY <1>1, <1>2 DEF Handshakes, Exchanges, Sockets, Inbound, Maps, Deliveries
<1>4. Len(kex[s].hand) <= 1 /\ (kex[s].hand # <<>> <=> pc[s].reader = "deliver")
  BY <1>1 DEF LockOK
<1>5. /\ Handed(ht[s].incoming) /\ Handed(kex[s].hand)
      /\ ReportFirst(tr[s], ht[s], kex[s], pc[s])
      /\ Flow(ht[s].incoming, kex[s].hand, Inbound(s), got[s], sent[Peer(s)])
  BY DEF Deliveries, Served, ServedOK, Inbound
<1> QED BY <1>1, <1>3, <1>4, <1>5

LEMMA DeliverServes ==
    ASSUME Deliveries, Inv', NEW s \in Side, Deliver(s)
    PROVE  Deliveries'
<1>1. PICK u, v : u = ht[s].incoming /\ v = kex[s].hand
  OBVIOUS
<1>2. /\ Inv /\ Maps /\ Peer(s) \in Side /\ Peer(s) # s /\ ht[s] \in Handshakes
      /\ kex[s] \in Exchanges /\ u \in Seq(Delivered) /\ v \in Seq(Delivered)
      /\ got[s] \in Nat /\ sent[Peer(s)] \in Nat /\ Handed(u) /\ Handed(v)
      /\ ReportFirst(tr[s], ht[s], kex[s], pc[s])
      /\ Flow(u, v, Inbound(s), got[s], sent[Peer(s)])
      /\ Len(v) <= 1 /\ (v # <<>> <=> pc[s].reader = "deliver")
  BY <1>1, Queues
<1>3. /\ pc[s].reader = "deliver" /\ UNCHANGED <<sock, tr, sent, got>>
      /\ kex' = [kex EXCEPT ![s].hand = <<>>]
  BY DEF Deliver
<1>4. PICK r, h, l : /\ r = u \o v /\ SetHt(s, h) /\ h = [ht[s] EXCEPT !.incoming = r]
                     /\ Goto(s, "reader", l)
  BY <1>1 DEF Deliver
<1>5. h.incoming = r /\ ht'[s] = h /\ ht'[Peer(s)] = ht[Peer(s)]
  BY <1>2, <1>4 DEF Handshakes, SetHt, Maps
<1>6. kex'[s].hand = <<>> /\ kex'[Peer(s)] = kex[Peer(s)]
  BY <1>2, <1>3 DEF Exchanges, Maps
<1>7. pc'[s].main = pc[s].main /\ pc'[Peer(s)] = pc[Peer(s)]
  BY <1>2, <1>4, GotoReader
<1>8. Joined(r, u, v)
  BY <1>2, <1>4, Pushed
<1>9. Handed(r)
  BY <1>2, <1>8 DEF Handed, Joined
<1>10. /\ r # <<>> /\ (u # <<>> => r[1] = u[1]) /\ (u = <<>> => r = v)
  BY <1>2, <1>3, <1>4
<1>11. ReportFirst(tr'[s], ht'[s], kex'[s], pc'[s])
  BY <1>1, <1>2, <1>3, <1>5, <1>7, <1>10, Zenon DEF ReportFirst
<1>12. Flow(r, <<>>, Inbound(s), got[s], sent[Peer(s)])
  BY <1>2, <1>4, FlowDeliver
<1>13. Handed(<<>>)
  BY DEF Handed
<1>14. ServedOK(tr'[s], ht'[s], kex'[s], pc'[s], sock'[Peer(s)].wire, got'[s], sent[Peer(s)])
  BY <1>3, <1>5, <1>6, <1>9, <1>11, <1>12, <1>13 DEF ServedOK, Inbound
<1>15. OthersKept(s) /\ Outgoing(s) /\ got' \in [Side -> Nat] /\ got'[Peer(s)] = got[Peer(s)]
  BY <1>3, <1>5, <1>6, <1>7 DEF OthersKept, Outgoing, Deliveries
<1> QED BY <1>3, <1>14, <1>15, ServedNext

LEMMA KexDoneServes ==
    ASSUME Deliveries, Inv', NEW s \in Side, KexDone(s)
    PROVE  Deliveries'
<1>1. PICK u, x : u = ht[s].incoming /\ x = [type |-> "newkeys", n |-> 0]
  OBVIOUS
<1>2. /\ Inv /\ Maps /\ Peer(s) \in Side /\ Peer(s) # s /\ ht[s] \in Handshakes
      /\ kex[s] \in Exchanges /\ got[s] \in Nat /\ sent[Peer(s)] \in Nat /\ Handed(u)
      /\ ReportFirst(tr[s], ht[s], kex[s], pc[s])
      /\ Flow(u, kex[s].hand, Inbound(s), got[s], sent[Peer(s)])
      /\ (kex[s].hand # <<>> <=> pc[s].reader = "deliver")
  BY <1>1, Queues
<1>3. pc[s].reader = "kexDone" /\ UNCHANGED <<sock, tr, sent, got>> /\ kex[s].hand = <<>>
  BY <1>2 DEF KexDone
<1>4. PICK first : first = (ht[s].session = NoHash \/ kex[s].hash = ht[s].session)
  OBVIOUS
<1>5. PICK h, k, p, v :
        /\ SetHt(s, h) /\ kex' = [kex EXCEPT ![s] = k] /\ pc' = [pc EXCEPT ![s] = p]
        /\ h = [ht[s] EXCEPT !.sentInit = 0, !.written = 0, !.mu = NoOne, !.readn = 0]
        /\ v = IF first THEN <<x>> ELSE <<>>
        /\ k = [theirs |-> 0, step |-> 0, hash |-> NoHash, hand |-> v]
        /\ p = [Broadcast(s) EXCEPT !.reader = IF first THEN "deliver" ELSE Top(0)]
  BY <1>1, <1>4 DEF KexDone
<1>6. /\ ht'[s] = h /\ h.incoming = u /\ ht'[Peer(s)] = ht[Peer(s)]
  BY <1>1, <1>2, <1>5 DEF Handshakes, SetHt, Maps
<1>7. kex'[s] = k /\ k.hand = v /\ kex'[Peer(s)] = kex[Peer(s)]
  BY <1>2, <1>5 DEF Maps
<1>8. pc'[s] = p /\ pc'[Peer(s)] = pc[Peer(s)] /\ (p.main = pc[s].main \/ p.main = "relock")
  <2>1. p.main = pc[s].main \/ p.main = "relock"
    <3>1. PICK l : p = [Broadcast(s) EXCEPT !.reader = l]
      BY <1>5
    <3> QED BY <3>1 DEF Broadcast, Thread
  <2>2. pc'[s] = p /\ pc'[Peer(s)] = pc[Peer(s)]
    BY <1>2, <1>5 DEF Maps
  <2> QED BY <2>1, <2>2
<1>9. x \in Delivered /\ x.type = "newkeys"
  BY <1>1 DEF Delivered, AllTypes
<1>10. v \in {<<x>>, <<>>} /\ Handed(v) /\ Flow(u, v, Inbound(s), got[s], sent[Peer(s)])
  <2>1. Flow(u, <<>>, Inbound(s), got[s], sent[Peer(s)])
    BY <1>2, <1>3
  <2>2. Flow(u, <<x>>, Inbound(s), got[s], sent[Peer(s)])
    BY <1>2, <1>9, <2>1, FlowReport
  <2>3. Handed(<<x>>) /\ Handed(<<>>)
    BY <1>9 DEF Handed
  <2> QED BY <1>5, <2>1, <2>2, <2>3
<1>11. u = <<>> /\ pc[s].main \in Greeting => v # <<>> /\ v[1].type = "newkeys"
  <2> SUFFICES ASSUME u = <<>>, pc[s].main \in Greeting
      PROVE  v # <<>> /\ v[1].type = "newkeys"
    OBVIOUS
  <2>1. Unkeyed(tr[s], ht[s], kex[s], pc[s])
    BY <1>1, <1>2, <1>3, Zenon DEF ReportFirst
  <2>2. CASE REpoch(tr[s]) = 0
    <3>1. cfg.hello
      BY <1>2, <1>3, <2>2, Parts DEF PlaceOK
    <3>2. ht[s].session = NoHash
      BY <1>2, <3>1, Parts DEF HelloOK
    <3> QED BY <1>4, <1>5, <1>9, <3>2
  <2>3. CASE kex[s].hash = ht[s].session
    BY <1>4, <1>5, <1>9, <2>3
  <2> QED BY <1>3, <2>1, <2>2, <2>3 DEF Unkeyed, Ended
<1>12. p.main \in Greeting => pc[s].main \in Greeting
  BY <1>8 DEF Greeting
<1>13. ReportFirst(tr'[s], ht'[s], kex'[s], pc'[s])
  BY <1>1, <1>2, <1>3, <1>6, <1>7, <1>8, <1>11, <1>12, Zenon DEF ReportFirst
<1>14. ServedOK(tr'[s], ht'[s], kex'[s], pc'[s], sock'[Peer(s)].wire, got'[s], sent[Peer(s)])
  BY <1>2, <1>3, <1>6, <1>7, <1>10, <1>13, Zenon DEF ServedOK, Inbound
<1>15. OthersKept(s) /\ Outgoing(s) /\ got' \in [Side -> Nat] /\ got'[Peer(s)] = got[Peer(s)]
  BY <1>3, <1>6, <1>7, <1>8 DEF OthersKept, Outgoing, Deliveries
<1> QED BY <1>3, <1>14, <1>15, ServedNext

(* The main goroutine takes a packet.                                      *)
LEMMA TakenFirst ==
    ASSUME NEW q \in Seq(Delivered), q # <<>>, Handed(q)
    PROVE  Handed(Tail(q)) /\ Head(q) = q[1] /\ Head(q).type \in {"data", "newkeys"}
<1>1. /\ Head(q) = q[1] /\ Len(Tail(q)) = Len(q) - 1 /\ Len(q) \in Nat \ {0}
      /\ \A i \in 1 .. Len(q) - 1 : Tail(q)[i] = q[i + 1]
  BY Dropped
<1> QED BY <1>1 DEF Handed

LEMMA TakingServes ==
    ASSUME Deliveries, Inv', NEW s \in Side, NEW g, ht[s].incoming # <<>>,
           SetHt(s, [ht[s] EXCEPT !.incoming = Tail(@)]), UNCHANGED <<sock, tr, kex, sent>>,
           pc'[Peer(s)] = pc[Peer(s)], pc'[s].main \notin Greeting,
           got' = [got EXCEPT ![s] = g],
           g = IF Head(ht[s].incoming).type = "data" THEN got[s] + 1 ELSE got[s]
    PROVE  Deliveries'
<1>1. PICK u : u = ht[s].incoming
  OBVIOUS
<1>2. /\ Inv /\ Maps /\ Peer(s) \in Side /\ Peer(s) # s /\ ht[s] \in Handshakes
      /\ u \in Seq(Delivered) /\ u # <<>> /\ got[s] \in Nat /\ sent[Peer(s)] \in Nat /\ Handed(u)
      /\ Handed(kex[s].hand) /\ Flow(u, kex[s].hand, Inbound(s), got[s], sent[Peer(s)])
  BY <1>1, Queues
<1>3. PICK r, h : r = Tail(u) /\ h = [ht[s] EXCEPT !.incoming = r] /\ SetHt(s, h)
  BY <1>1
<1>4. ht'[s] = h /\ h.incoming = r /\ ht'[Peer(s)] = ht[Peer(s)]
  BY <1>2, <1>3 DEF Handshakes, SetHt, Maps
<1>5. Handed(r)
  BY <1>2, <1>3, TakenFirst
<1>6. Flow(r, kex[s].hand, Inbound(s), g, sent[Peer(s)])
  BY <1>1, <1>2, <1>3, FlowTaken
<1>7. got' \in [Side -> Nat] /\ got'[s] = g /\ got'[Peer(s)] = got[Peer(s)]
  <2>1. g \in Nat /\ got \in [Side -> Nat]
    BY <1>2 DEF Deliveries
  <2> QED BY <1>2, <2>1
<1>8. ReportFirst(tr'[s], ht'[s], kex'[s], pc'[s])
  BY Zenon DEF ReportFirst
<1>9. ServedOK(tr'[s], ht'[s], kex'[s], pc'[s], sock'[Peer(s)].wire, got'[s], sent[Peer(s)])
  BY <1>2, <1>4, <1>5, <1>6, <1>7, <1>8, Zenon DEF ServedOK, Inbound
<1>10. OthersKept(s) /\ Outgoing(s)
  BY <1>4 DEF OthersKept, Outgoing
<1> QED BY <1>7, <1>9, <1>10, ServedNext

LEMMA MainKeyedServes ==
    ASSUME Deliveries, Inv', NEW s \in Side, MainKeyed(s)
    PROVE  Deliveries'
<1>1. PICK u : u = ht[s].incoming
  OBVIOUS
<1>2. /\ Inv /\ Maps /\ Peer(s) \in Side /\ Peer(s) # s /\ pc[s] \in Labels
      /\ u \in Seq(Delivered) /\ Handed(u) /\ got \in [Side -> Nat]
      /\ ReportFirst(tr[s], ht[s], kex[s], pc[s])
  BY <1>1, Queues DEF Deliveries
<1>3. pc[s].main = "newkeys" /\ UNCHANGED <<sock, tr, kex, sent, got>>
  BY DEF MainKeyed
<1>4. CASE u # <<>>
  <2>1. u[1].type = "newkeys" /\ Head(u) = u[1]
    <3>1. pc[s].main \in Greeting
      BY <1>3 DEF Greeting
    <3> QED BY <1>1, <1>2, <1>4, <3>1, TakenFirst DEF ReportFirst
  <2>2. /\ SetHt(s, [ht[s] EXCEPT !.incoming = Tail(@)])
        /\ pc' = [pc EXCEPT ![s].main = "loop", ![s].writer = IF @ = "off" THEN "idle" ELSE @]
    BY <1>1, <1>4, <2>1 DEF MainKeyed
  <2>3. pc'[Peer(s)] = pc[Peer(s)] /\ pc'[s].main \notin Greeting
    <3>1. PICK y : y = IF pc[s].writer = "off" THEN "idle" ELSE pc[s].writer
      OBVIOUS
    <3>2. pc'[Peer(s)] = pc[Peer(s)] /\ pc'[s] = [pc[s] EXCEPT !.main = "loop", !.writer = y]
      BY <1>2, <2>2, <3>1 DEF Maps
    <3> QED BY <1>2, <3>2 DEF Labels, Greeting
  <2>4. got' = [got EXCEPT ![s] = got[s]]
    BY <1>2, <1>3
  <2>5. got[s] = IF Head(ht[s].incoming).type = "data" THEN got[s] + 1 ELSE got[s]
    BY <1>1, <2>1
  <2> QED BY <1>1, <1>3, <1>4, <2>2, <2>3, <2>4, <2>5, TakingServes
<1>5. CASE u = <<>>
  <2>1. Goto(s, "main", "close") /\ UNCHANGED ht
    BY <1>1, <1>5 DEF MainKeyed
  <2>2. PICK p : pc' = [pc EXCEPT ![s] = p] /\ p.reader = pc[s].reader /\ p.main = "close"
    BY <1>2, <2>1, GotoMain
  <2>3. Quiet(s)
    BY <1>2, <1>3, <2>1, <2>2, QuietHere DEF Greeting
  <2> QED BY <2>3, QuietKeeps
<1> QED BY <1>4, <1>5

LEMMA MainLoopServes ==
    ASSUME Deliveries, Inv', NEW s \in Side, MainLoop(s)
    PROVE  Deliveries'
<1>1. PICK u : u = ht[s].incoming
  OBVIOUS
<1>2. /\ Inv /\ u \in Seq(Delivered) /\ Handed(u) /\ got \in [Side -> Nat]
  BY <1>1, Queues DEF Deliveries
<1>3. /\ u # <<>> /\ UNCHANGED <<sock, tr, kex, sent>>
      /\ SetHt(s, [ht[s] EXCEPT !.incoming = Tail(@)])
  BY <1>1 DEF MainLoop
<1>4. Head(u).type \in {"data", "newkeys"}
  BY <1>2, <1>3, TakenFirst
<1>5. PICK l : l \in {"loop", "close", "lock"} /\ Goto(s, "main", l)
  BY DEF MainLoop
<1>6. pc'[Peer(s)] = pc[Peer(s)] /\ pc'[s].main = l /\ l \notin Greeting
  BY <1>2, <1>5, GotoMain DEF Greeting
<1>7. PICK g : g = IF Head(u).type = "data" THEN got[s] + 1 ELSE got[s]
  OBVIOUS
<1>8. got' = [got EXCEPT ![s] = g]
  <2>1. CASE Head(u).type = "data"
    BY <1>1, <1>7, <2>1 DEF MainLoop
  <2>2. CASE Head(u).type = "newkeys"
    BY <1>1, <1>2, <1>7, <2>2 DEF MainLoop
  <2> QED BY <1>4, <2>1, <2>2
<1> QED BY <1>1, <1>3, <1>6, <1>7, <1>8, TakingServes

(* What the reader takes from the wire, outside and inside of an exchange. *)
LEMMA ComesIn ==
    ASSUME Inv, NEW s \in Side, pc[s].reader = "read", CanRead(s), NEW m, m = Head(Inbound(s))
    PROVE  /\ m \in Packets /\ m.type \in {"data", "kexinit"} /\ ReadResult(s) = m.type
           /\ Inbound(s) # <<>> /\ (m.type = "data" => REpoch(tr[s]) # 0)
<1>1. Inbound(s) # <<>> /\ sock[s].open /\ Peer(s) \in Side
  BY Parts DEF CanRead, Dead
<1>2. /\ m \in Packets /\ PacketOK(Peer(s), m) /\ Epoch(m.key) = REpoch(tr[s])
      /\ m.key = tr[s].reader
      /\ Reads(pc[s], sock[s]) => RankBefore(m.type) = ReadRank(s, kex[s], pc[s])
  BY <1>1, Received
<1>3. ReadRank(s, kex[s], pc[s]) = 0 /\ (~cfg.hello => Reads(pc[s], sock[s]))
  BY <1>1 DEF ReadRank, Reads, Ended
<1>4. m.type \in {"data", "kexinit"}
  <2>1. CASE cfg.hello
    BY <1>2, <2>1 DEF PacketOK
  <2>2. CASE ~cfg.hello
    <3>1. m.type \in Types(Peer(s)) /\ RankBefore(m.type) = 0
      BY <1>2, <1>3, <2>2 DEF PacketOK
    <3> QED BY <1>1, <3>1, RankZero
  <2> QED BY <2>1, <2>2
<1>5. ReadResult(s) = m.type
  BY <1>2, <1>4 DEF ReadResult
<1>6. m.type = "data" => REpoch(tr[s]) # 0
  BY <1>2 DEF PacketOK
<1> QED BY <1>1, <1>2, <1>4, <1>5, <1>6

LEMMA ComesAmid ==
    ASSUME Inv, NEW s \in Side, pc[s].reader = "kex", CanRead(s), Step(s).op = "read",
           NEW m, m = Head(Inbound(s))
    PROVE  /\ m \in Packets /\ m.type = Step(s).type /\ m.type # "data" /\ Inbound(s) # <<>>
           /\ ReadResult(s) = m.type /\ m.type \notin Bad
           /\ m.type = "newkeys" <=> kex[s].step = Last
           /\ m.type = "newkeys" => tr[s].pendR # NoKey
<1>1. PICK n, d, type : n = kex[s].step /\ d = Peer(s) /\ type = Step(s).type
  OBVIOUS
<1>2. StepOK(s, n, Step(s)) /\ n \in Nat /\ Last \in {5, 7} /\ ~cfg.hello /\ d \in Side
  BY <1>1, Amid
<1>3. /\ type \in Methods(d) \cup {"newkeys"} /\ (type = "newkeys" <=> n = Last)
      /\ \A x \in Types(d) : RankBefore(x) = ReadBy(s, n) => x = type
  BY <1>1, <1>2 DEF StepOK, ReadOK
<1>4. Inbound(s) # <<>> /\ sock[s].open
  BY DEF CanRead, Dead
<1>5. /\ m \in Packets /\ PacketOK(d, m) /\ m.key = tr[s].reader
      /\ Reads(pc[s], sock[s]) => RankBefore(m.type) = ReadRank(s, kex[s], pc[s])
  BY <1>1, <1>4, Received
<1>6. ReadRank(s, kex[s], pc[s]) = ReadBy(s, n) /\ Reads(pc[s], sock[s])
  BY <1>1, <1>2, <1>4 DEF ReadRank, Reads, Ended
<1>7. m.type = type
  <2>1. m.type \in Types(d) /\ RankBefore(m.type) = ReadBy(s, n)
    BY <1>5, <1>6 DEF PacketOK
  <2> QED BY <1>3, <2>1
<1>8. type # "data" /\ type \notin Bad
  BY <1>3 DEF Bad, Methods
<1>9. type = "newkeys" => tr[s].pendR # NoKey
  <2>1. n = Last => n >= Last - 1
    BY <1>2
  <2> QED BY <1>1, <1>3, <2>1, Midway
<1>10. ReadResult(s) = type
  BY <1>5, <1>7, <1>8, <1>9 DEF ReadResult
<1> QED BY <1>1, <1>3, <1>4, <1>5, <1>7, <1>8, <1>9, <1>10

LEMMA TakenWires ==
    ASSUME Inv, NEW s \in Side, TakePacket(s)
    PROVE  Outgoing(s) /\ sock'[Peer(s)].wire = Tail(Inbound(s)) /\ tr'[Peer(s)] = tr[Peer(s)]
<1>1. /\ sock'[s] = sock[s] /\ tr'[Peer(s)] = tr[Peer(s)] /\ Peer(s) \in Side
      /\ sock'[Peer(s)] = [sock[Peer(s)] EXCEPT !.wire = Tail(Inbound(s))]
  BY TakenIs, Parts
<1>2. sock[Peer(s)] \in Sockets
  BY <1>1, Parts
<1>3. sock'[Peer(s)].wire = Tail(Inbound(s))
  BY <1>1, <1>2 DEF Sockets
<1> QED BY <1>1, <1>3 DEF Outgoing

LEMMA readOnePacketServes ==
    ASSUME Deliveries, Inv', NEW s \in Side, readOnePacket(s)
    PROVE  Deliveries'
<1>1. PICK m, u, q, h : /\ m = Head(Inbound(s)) /\ u = ht[s].incoming /\ q = Inbound(s)
                        /\ h = [ht[s] EXCEPT !.readn = @ + 1]
  OBVIOUS
<1>2. /\ Inv /\ Maps /\ Peer(s) \in Side /\ Peer(s) # s /\ ht[s] \in Handshakes
      /\ kex[s] \in Exchanges /\ q \in Seq(Packets) /\ got[s] \in Nat /\ sent[Peer(s)] \in Nat
      /\ Handed(u) /\ Handed(kex[s].hand) /\ ReportFirst(tr[s], ht[s], kex[s], pc[s])
      /\ Flow(u, kex[s].hand, q, got[s], sent[Peer(s)])
      /\ (kex[s].hand # <<>> <=> pc[s].reader = "deliver")
  BY <1>1, Queues
<1>3. /\ pc[s].reader = "read" /\ CanRead(s) /\ TakePacket(s) /\ UNCHANGED <<sent, got>>
  BY DEF readOnePacket
<1>4. /\ m \in Packets /\ m.type \in {"data", "kexinit"} /\ ReadResult(s) = m.type
      /\ q # <<>> /\ (m.type = "data" => REpoch(tr[s]) # 0)
  BY <1>1, <1>2, <1>3, ComesIn
<1>5. Outgoing(s) /\ sock'[Peer(s)].wire = Tail(q) /\ tr' = tr
  BY <1>1, <1>2, <1>3, <1>4, TakenWires, TakenIs
<1>6. h.incoming = u /\ kex[s].hand = <<>>
  BY <1>1, <1>2, <1>3 DEF Handshakes
<1>7. PICK k, l : /\ SetHt(s, h) /\ kex' = [kex EXCEPT ![s] = k] /\ Goto(s, "reader", l)
                  /\ \/ m.type = "kexinit" /\ k = [kex[s] EXCEPT !.theirs = m.n]
                     \/ /\ m.type = "data"
                        /\ k = [kex[s] EXCEPT !.hand = <<[type |-> m.type, n |-> m.n]>>]
  <2>1. CASE m.type = "kexinit"
    <3>1. PICK k : k = [kex[s] EXCEPT !.theirs = m.n]
      OBVIOUS
    <3>2. SetHt(s, h) /\ kex' = [kex EXCEPT ![s].theirs = m.n] /\ Goto(s, "reader", "kexLock")
      BY <1>1, <1>4, <2>1 DEF readOnePacket, Bad
    <3>3. kex' = [kex EXCEPT ![s] = k]
      BY <1>2, <3>1, <3>2 DEF Maps
    <3> QED BY <2>1, <3>1, <3>2, <3>3
  <2>2. CASE m.type = "data"
    <3>1. PICK v, k : v = <<[type |-> m.type, n |-> m.n]>> /\ k = [kex[s] EXCEPT !.hand = v]
      OBVIOUS
    <3>2. SetHt(s, h) /\ kex' = [kex EXCEPT ![s].hand = v] /\ Goto(s, "reader", "deliver")
      BY <1>1, <1>4, <2>2, <3>1 DEF readOnePacket, Bad
    <3>3. kex' = [kex EXCEPT ![s] = k]
      BY <1>2, <3>1, <3>2 DEF Maps
    <3> QED BY <2>2, <3>1, <3>2, <3>3
  <2> QED BY <1>4, <2>1, <2>2
<1>8. /\ ht'[s] = h /\ ht'[Peer(s)] = ht[Peer(s)] /\ kex'[s] = k /\ kex'[Peer(s)] = kex[Peer(s)]
  BY <1>2, <1>7 DEF SetHt, Maps
<1>9. /\ pc'[s].main = pc[s].main /\ pc'[Peer(s)] = pc[Peer(s)]
  BY <1>2, <1>7, GotoReader
<1>10. OthersKept(s) /\ got' \in [Side -> Nat] /\ got'[Peer(s)] = got[Peer(s)]
  BY <1>3, <1>5, <1>8, <1>9 DEF OthersKept, Deliveries
<1>11. Unkeyed(tr[s], ht[s], kex[s], pc[s]) => REpoch(tr[s]) = 0
  BY <1>3 DEF Unkeyed, Ended
<1>12. CASE m.type = "kexinit"
  <2>1. k.hand = <<>>
    BY <1>2, <1>6, <1>7, <1>12 DEF Exchanges
  <2>2. ReportFirst(tr'[s], ht'[s], kex'[s], pc'[s])
    BY <1>1, <1>2, <1>5, <1>6, <1>8, <1>9, <1>11, <2>1, Zenon DEF ReportFirst, Unkeyed
  <2>3. Flow(u, <<>>, Tail(q), got[s], sent[Peer(s)])
    BY <1>1, <1>2, <1>4, <1>6, <1>12, FlowIn
  <2>4. ServedOK(tr'[s], ht'[s], kex'[s], pc'[s], sock'[Peer(s)].wire, got'[s], sent[Peer(s)])
    BY <1>2, <1>3, <1>5, <1>6, <1>8, <2>1, <2>2, <2>3, Zenon DEF ServedOK
  <2> QED BY <1>3, <1>5, <1>10, <2>4, ServedNext
<1>13. CASE m.type = "data"
  <2>1. PICK x : x = [type |-> m.type, n |-> m.n]
    OBVIOUS
  <2>2. x \in Delivered /\ x.type = "data" /\ x.n = m.n
    BY <1>4, <1>13, <2>1 DEF Delivered, Packets
  <2>3. k.hand = <<x>>
    BY <1>2, <1>7, <1>13, <2>1 DEF Exchanges
  <2>4. pc[s].main \in Greeting => u # <<>> /\ u[1].type = "newkeys"
    BY <1>1, <1>2, <1>4, <1>6, <1>11, <1>13, Zenon DEF ReportFirst
  <2>5. ReportFirst(tr'[s], ht'[s], kex'[s], pc'[s])
    BY <1>6, <1>8, <1>9, <2>4, Zenon DEF ReportFirst
  <2>6. Flow(u, <<x>>, Tail(q), got[s], sent[Peer(s)])
    BY <1>1, <1>2, <1>4, <1>6, <1>13, <2>2, FlowIn
  <2>7. Handed(<<x>>)
    BY <2>2 DEF Handed
  <2>8. ServedOK(tr'[s], ht'[s], kex'[s], pc'[s], sock'[Peer(s)].wire, got'[s], sent[Peer(s)])
    BY <1>2, <1>3, <1>5, <1>6, <1>8, <2>3, <2>5, <2>6, <2>7, Zenon DEF ServedOK
  <2> QED BY <1>3, <1>5, <1>10, <2>8, ServedNext
<1> QED BY <1>4, <1>12, <1>13

LEMMA KexReadServes ==
    ASSUME Deliveries, Inv', NEW s \in Side, KexRead(s)
    PROVE  Deliveries'
<1>1. PICK m, u, q : m = Head(Inbound(s)) /\ u = ht[s].incoming /\ q = Inbound(s)
  OBVIOUS
<1>2. /\ Inv /\ Maps /\ Peer(s) \in Side /\ Peer(s) # s
      /\ q \in Seq(Packets) /\ got[s] \in Nat /\ sent[Peer(s)] \in Nat
      /\ Handed(u) /\ Handed(kex[s].hand) /\ ReportFirst(tr[s], ht[s], kex[s], pc[s])
      /\ Flow(u, kex[s].hand, q, got[s], sent[Peer(s)])
  BY <1>1, Queues
<1>3. /\ pc[s].reader = "kex" /\ CanRead(s) /\ TakePacket(s) /\ UNCHANGED <<ht, sent, got>>
      /\ Step(s).op = "read"
      /\ IF Verdict(s, m) = "" THEN Advance(s) /\ UNCHANGED why
         ELSE KexFails(s, Verdict(s, m)) /\ UNCHANGED kex
  BY <1>1 DEF KexRead
<1>4. /\ m \in Packets /\ m.type = Step(s).type /\ m.type # "data" /\ q # <<>>
      /\ ReadResult(s) = m.type /\ m.type \notin Bad
      /\ m.type = "newkeys" <=> kex[s].step = Last
      /\ m.type = "newkeys" => tr[s].pendR # NoKey
  BY <1>1, <1>2, <1>3, ComesAmid
<1>5. Outgoing(s) /\ sock'[Peer(s)].wire = Tail(q) /\ tr'[Peer(s)] = tr[Peer(s)]
  BY <1>1, <1>2, <1>3, TakenWires
<1>6. /\ kex'[Peer(s)] = kex[Peer(s)] /\ kex'[s].hand = kex[s].hand /\ kex'[s].hash = kex[s].hash
      /\ pc'[s].main = pc[s].main /\ pc'[Peer(s)] = pc[Peer(s)]
  <2>1. CASE Verdict(s, m) = ""
    <3>1. Advance(s)
      BY <1>3, <2>1
    <3>2. PICK l : Goto(s, "reader", l)
      BY <3>1 DEF Advance
    <3> QED BY <1>2, <3>1, <3>2, AdvanceHand, GotoReader
  <2>2. CASE Verdict(s, m) # ""
    <3>1. Goto(s, "reader", "kexFailed") /\ UNCHANGED kex
      BY <1>3, <2>2 DEF KexFails
    <3> QED BY <1>2, <3>1, GotoReader
  <2> QED BY <2>1, <2>2
<1>7. Unkeyed(tr[s], ht[s], kex[s], pc[s]) => Unkeyed(tr'[s], ht'[s], kex'[s], pc'[s])
  <2> SUFFICES ASSUME Unkeyed(tr[s], ht[s], kex[s], pc[s])
      PROVE  Unkeyed(tr'[s], ht'[s], kex'[s], pc'[s])
    OBVIOUS
  <2>1. REpoch(tr[s]) = 0
    BY <1>3 DEF Unkeyed, Ended
  <2>2. CASE m.type # "newkeys"
    <3>1. tr' = tr
      BY <1>2, <1>3, <1>4, <2>2, TakenIs
    <3> QED BY <2>1, <3>1 DEF Unkeyed
  <2>3. CASE m.type = "newkeys"
    <3>1. Verdict(s, m) = ""
      BY <1>4, <2>3 DEF Verdict
    <3>2. kex[s].step = Last /\ Len(Script(s, Agreed)) = Last
      BY <1>2, <1>3, <1>4, <2>3, Amid
    <3>3. Goto(s, "reader", "kexDone")
      BY <1>3, <3>1, <3>2 DEF Advance
    <3>4. pc'[s].reader = "kexDone"
      BY <1>2, <3>3, GotoReader
    <3>5. kex[s].hash = HashOf(s, 1)
      <4>1. REpoch(tr[s]) + 1 = 1
        BY <2>1
      <4> QED BY <1>2, <1>3, <4>1, Midway
    <3>6. ht[s].session = HashOf(s, 1)
      <4>1. KeysOK(s, tr[s], ht[s])
        BY <1>2, Parts
      <4> QED BY <1>4, <2>3, <4>1 DEF KeysOK
    <3> QED BY <1>3, <1>6, <3>4, <3>5, <3>6 DEF Unkeyed
  <2> QED BY <2>2, <2>3
<1>8. ReportFirst(tr'[s], ht'[s], kex'[s], pc'[s])
  BY <1>2, <1>3, <1>6, <1>7, Zenon DEF ReportFirst
<1>9. Flow(u, kex[s].hand, Tail(q), got[s], sent[Peer(s)])
  BY <1>1, <1>2, <1>4, FlowIn
<1>10. ServedOK(tr'[s], ht'[s], kex'[s], pc'[s], sock'[Peer(s)].wire, got'[s], sent[Peer(s)])
  BY <1>1, <1>2, <1>3, <1>5, <1>6, <1>8, <1>9, Zenon DEF ServedOK
<1>11. OthersKept(s) /\ got' \in [Side -> Nat] /\ got'[Peer(s)] = got[Peer(s)]
  BY <1>3, <1>5, <1>6 DEF OthersKept, Deliveries
<1> QED BY <1>3, <1>5, <1>10, <1>11, ServedNext

LEMMA WritePutServes ==
    ASSUME Deliveries, Inv', NEW s \in Side, NEW t \in {"main", "writer"}, WritePut(s, t)
    PROVE  Deliveries'
<1>1. /\ Inv /\ Maps /\ Peer(s) \in Side /\ Peer(s) # s /\ ht[s] \in Handshakes
      /\ Peer(Peer(s)) = s
  BY Queues, Sides
<1>2. UNCHANGED <<kex, got>>
  BY DEF WritePut
<1>3. PICK h : SetHt(s, h) /\ h = [ht[s] EXCEPT !.mu = NoOne]
  BY DEF WritePut
<1>4. h.incoming = ht[s].incoming /\ h.session = ht[s].session
  BY <1>1, <1>3 DEF Handshakes
<1>5. ASSUME NEW l, Goto(s, t, l), l \notin Greeting
      PROVE  \E p : /\ pc' = [pc EXCEPT ![s] = p] /\ p.reader = pc[s].reader
                    /\ p.main \in Greeting => pc[s].main \in Greeting
  <2>1. PICK p : /\ pc' = [pc EXCEPT ![s] = p] /\ p.reader = pc[s].reader
                 /\ p.main = IF t = "main" THEN l ELSE pc[s].main
    BY <1>1, <1>5, GotoMain
  <2> QED BY <1>5, <2>1
<1>6. CASE /\ Goto(s, t, IF t = "main" THEN "close" ELSE "failed")
           /\ UNCHANGED <<sock, tr, sent>>
  <2>1. PICK l : Goto(s, t, l) /\ l \notin Greeting
    BY <1>6 DEF Greeting
  <2>2. PICK p : /\ pc' = [pc EXCEPT ![s] = p] /\ p.reader = pc[s].reader
                 /\ p.main \in Greeting => pc[s].main \in Greeting
    BY <1>5, <2>1
  <2>3. Quiet(s)
    BY <1>1, <1>2, <1>3, <1>4, <1>6, <2>2, QuietHere
  <2> QED BY <2>3, QuietKeeps
<1>7. CASE /\ CanWrite(s) /\ sent' = [sent EXCEPT ![s] = @ + 1]
           /\ PutPacket(s, "data", sent[s] + 1) /\ Goto(s, t, Idle(t))
  <2>1. PICK p : /\ pc' = [pc EXCEPT ![s] = p] /\ p.reader = pc[s].reader
                 /\ p.main \in Greeting => pc[s].main \in Greeting
    <3>1. Idle(t) \notin Greeting
      BY DEF Idle, Greeting
    <3> QED BY <1>5, <1>7, <3>1
  <2>2. PICK n, m : n = sent[s] + 1 /\ m = PacketOf(s, "data", n)
    OBVIOUS
  <2>3. sent[s] \in Nat /\ n \in Nat /\ sock[s] \in Sockets /\ tr[s] \in Ciphers
    BY <1>1, <2>2, Parts DEF Maps
  <2>4. m \in Packets /\ m.type = "data" /\ m.n = n
    BY <2>2, <2>3 DEF PacketOf, Packets, Ciphers, AllTypes, Replies
  <2>5. /\ sock'[Peer(s)] = sock[Peer(s)] /\ sock'[s] = [sock[s] EXCEPT !.wire = Append(@, m)]
        /\ tr' = tr
    BY <1>1, <1>7, <2>2 DEF PutPacket, PacketOf, Maps
  <2>6. sock'[s].wire = Append(sock[s].wire, m)
    BY <1>7, <2>3, <2>4, <2>5, SocketPut
  <2>7. sent'[s] = n /\ sent'[Peer(s)] = sent[Peer(s)]
    BY <1>1, <1>7, <2>2 DEF Maps
  <2>8. /\ ht'[s] = h /\ ht'[Peer(s)] = ht[Peer(s)] /\ pc'[s] = p /\ pc'[Peer(s)] = pc[Peer(s)]
    BY <1>1, <1>3, <2>1 DEF SetHt, Maps
  <2>9. Flow(ht[Peer(s)].incoming, kex[Peer(s)].hand, sock'[s].wire, got[Peer(s)], sent'[s])
    <3>1. /\ Flow(ht[Peer(s)].incoming, kex[Peer(s)].hand, sock[s].wire, got[Peer(s)], sent[s])
          /\ got[Peer(s)] \in Nat /\ sock[s].wire \in Seq(Packets)
      BY <1>1, Queues DEF Inbound
    <3> QED BY <2>2, <2>3, <2>4, <2>6, <2>7, <3>1, FlowOut
  <2>10. ServedOK(tr[s], ht[s], kex[s], pc[s], sock[Peer(s)].wire, got[s], sent[Peer(s)])
    BY DEF Deliveries, Served
  <2>11. ServedOK(tr'[s], ht'[s], kex'[s], pc'[s], sock'[Peer(s)].wire, got'[s], sent'[Peer(s)])
    <3>1. Unkeyed(tr[s], ht[s], kex[s], pc[s]) => Unkeyed(tr[s], h, kex[s], p)
      BY <1>4, <2>1, Zenon DEF Unkeyed
    <3>2. ReportFirst(tr[s], h, kex[s], p)
      BY <1>4, <2>1, <2>10, <3>1, Zenon DEF ReportFirst, ServedOK
    <3>3. ServedOK(tr[s], h, kex[s], p, sock[Peer(s)].wire, got[s], sent[Peer(s)])
      BY <1>4, <2>10, <3>2, Zenon DEF ServedOK
    <3> QED BY <1>2, <2>5, <2>7, <2>8, <3>3
  <2>12. OthersKept(s) /\ got' \in [Side -> Nat] /\ got'[Peer(s)] = got[Peer(s)]
    BY <1>2, <2>5, <2>8 DEF OthersKept, Deliveries
  <2> QED BY <2>9, <2>11, <2>12, ServedBoth
<1> QED BY <1>6, <1>7 DEF WritePut

LEMMA NextDeliveries == ASSUME Deliveries, [Next]_vars PROVE Deliveries'
<1>1. Inv /\ Inv'
  BY NextInv DEF Deliveries
<1>2. ASSUME NEW s \in Side, ReaderStep(s) PROVE Deliveries'
  <2>1. CASE readOnePacket(s) \/ Deliver(s) \/ KexRead(s) \/ KexDone(s)
    BY <1>1, <2>1, readOnePacketServes, DeliverServes, KexReadServes, KexDoneServes
  <2>2. CASE ~(readOnePacket(s) \/ Deliver(s) \/ KexRead(s) \/ KexDone(s))
    <3>1. Quiet(s)
      BY <1>1, <1>2, <2>2, RequestLockQuiet, requestKeyChangeQuiet, ReadErrorQuiet,
         readLoopEndsQuiet, KexLockQuiet, KexBeginQuiet, KexWriteQuiet, KexWriteErrorQuiet,
         KexReadErrorQuiet, KexPrepareQuiet, KexFailedQuiet DEF ReaderStep
    <3> QED BY <1>1, <3>1, QuietKeeps
  <2> QED BY <2>1, <2>2
<1>3. ASSUME NEW s \in Side, MainStep(s) PROVE Deliveries'
  <2>1. CASE MainKeyed(s) \/ MainLoop(s)
    BY <1>1, <2>1, MainKeyedServes, MainLoopServes
  <2>2. CASE ~(MainKeyed(s) \/ MainLoop(s))
    <3>1. Quiet(s)
      BY <1>1, <1>3, <2>2, MainStartQuiet, sendKexInitQuiet, MainLoopEndsQuiet, MainCloseQuiet
         DEF MainStep
    <3> QED BY <1>1, <3>1, QuietKeeps
  <2> QED BY <2>1, <2>2
<1>4. ASSUME NEW s \in Side, NEW t \in {"main", "writer"}, WriteStep(s, t) PROVE Deliveries'
  <2>1. CASE WritePut(s, t)
    BY <1>1, <2>1, WritePutServes
  <2>2. CASE ~WritePut(s, t)
    <3>1. Quiet(s)
      BY <1>1, <1>4, <2>2, WriteLockQuiet, WriteRekeyQuiet DEF WriteStep
    <3> QED BY <1>1, <3>1, QuietKeeps
  <2> QED BY <2>1, <2>2
<1>5. ASSUME NEW s \in Side, UserWrites(s) PROVE Deliveries'
  BY <1>1, <1>5, UserWritesQuiet, QuietKeeps
<1>6. CASE DeadlineExpires
  <2>1. "client" \in Side
    BY DEF Side
  <2> QED BY <1>1, <1>6, <2>1, DeadlineQuiet, QuietKeeps
<1>7. CASE UNCHANGED vars
  <2>1. PICK s \in Side : s = "client"
    BY DEF Side
  <2>2. Quiet(s)
    BY <1>7 DEF vars, Quiet, OthersKept, Outgoing
  <2> QED BY <1>1, <2>2, QuietKeeps
<1> QED BY <1>2, <1>3, <1>4, <1>5, <1>6, <1>7 DEF Next

(* What an end writes above the transport reaches the other end's main     *)
(* goroutine once and in the order it was written, whatever key exchanges  *)
(* come in between and whenever a goroutine stops: what is in the channel, *)
(* in the reader's hand and on the wire is what was sent and not taken     *)
(* (handshake.go, readLoop, readOnePacket and writePacket). Exchanges fail *)
(* for reasons of their own only, and nobody waits for a loop that ended.  *)
THEOREM TransportDelivers == Spec => []PacketsDelivered
<1>1. Spec => []Deliveries
  BY InitDeliveries, NextDeliveries, PTL DEF Spec
<1>2. Deliveries => NothingLost
  BY DEF Deliveries, Served, ServedOK, Flow, NothingLost, Inbound
<1> QED BY <1>1, <1>2, TransportErrorsAreHonest, NobodyIsForgotten, PTL DEF PacketsDelivered
=============================================================================
