------------------------ MODULE SshConnectionProofs -------------------------
(***************************************************************************)
(* Theorems about user authentication as SshConnection runs it, for every  *)
(* list of methods, retries and keys, every set of callbacks and every     *)
(* answer they give; and about the multiplexers after it, for every        *)
(* scenario of their users and whatever a peer sends.                      *)
(***************************************************************************)
EXTENDS SshConnection, FiniteSetTheorems, SequenceTheorems, WellFoundedInduction, TLAPS

(* The types of the two ends' locals and of what is on the wire.           *)
AnyKey == Keys \cup {NoKey}
AnyMethod == Methods \cup {"none"}
Asking == {"query", "ack", "sign", "reply"}
Clients ==
    [pc : {"start", "accept", "try", "done"} \cup Asking, i : Nat, tried : SUBSET AnyMethod,
     methods : SUBSET Methods, keys : Seq(Keys), valid : Seq(Keys), signed : SUBSET Keys, round : Nat,
     calls : [Methods -> Nat], out : {"", "ok", "failed", "skipped", "logged"}]
Grants == [method : AnyMethod \cup {""}, key : AnyKey]
Servers ==
    [pc : {"service", "loop", "challenge", "done"},
     cache : SUBSET [key : AnyKey, ok : BOOLEAN],
     said : SUBSET [key : AnyKey, ok : BOOLEAN],
     perms : Grants, granted : Grants, out : {"", "ok", "failed"}]
Requests == [type : {"request"}, method : AnyMethod, key : AnyKey, sig : SigKinds \cup {NoSig}]

(* A valid signature is its owner's.                                       *)
Owned(m) == m.sig = "valid" => m.key \in cl.signed

Typed == acfg \in AuthConfigs /\ cl \in Clients /\ sv \in Servers

(* The last packet of an answer of the server, and what the server has     *)
(* done when it is on its way.                                             *)
Verdicts == {Packet("info"), Packet("success"), Failure(acfg.offers)} \cup {PubKeyOk(k) : k \in AnyKey}
Consistent(m) ==
    /\ m.type \in {"failure", "pkok"} => sv.pc = "loop"
    /\ m.type = "info" => sv.pc = "challenge"
    /\ m.type = "success" => sv.out = "ok"

Quiet == toServer = <<>> /\ toClient = <<>>
Requested == /\ sv.pc = "loop" /\ toClient = <<>>
             /\ \E m \in Requests : Owned(m) /\ toServer = <<m>>
Challenged == sv.pc = "challenge" /\ toClient = <<>> /\ toServer = <<Packet("answer")>>
Answered == /\ toServer = <<>>
            /\ \E m \in Verdicts : /\ Consistent(m)
                                   /\ toClient \in {<<m>>, <<Packet("banner"), m>>}

(* The two ends take turns: what is on the wire, and where the server is,  *)
(* for each place the client can be in.                                    *)
TurnsInv ==
    /\ cl.pc = "start" => Quiet /\ sv.pc = "service"
    /\ cl.pc = "accept" =>
         \/ toServer = <<Packet("service")>> /\ toClient = <<>> /\ sv.pc = "service"
         \/ toServer = <<>> /\ toClient = <<Packet("accept")>> /\ sv.pc = "loop"
    /\ cl.pc \in {"try", "query", "sign"} => Quiet /\ sv.pc = "loop"
    /\ cl.pc \in {"ack", "reply"} =>
         Requested \/ Challenged \/ Answered \/ (Quiet /\ sv.pc = "done")
    /\ cl.pc = "done" => toServer = <<>> /\ (toClient = <<>> \/ \E m \in Verdicts : toClient = <<m>>)
    /\ cl.pc = "ack" => cl.keys # <<>>
    /\ cl.pc = "sign" => cl.valid # <<>>
    /\ cl.out # "" => cl.pc = "done"
    /\ cl.out = "ok" => sv.out = "ok"

(* How often the client has tried what: nothing that was not on offer, no  *)
(* method again under a later entry, and in the entry it is at as many     *)
(* times as rounds are over.                                               *)
EntryInv ==
    cl.i # 0 =>
      LET a == acfg.Auth[cl.i] IN
      /\ cl.i \in DOMAIN acfg.Auth /\ FirstOfItsMethod(cl.i)
      /\ a.method \in acfg.offers /\ a.method \notin cl.tried
      /\ a.max # 0 =>
           /\ cl.pc = "try" => cl.round = cl.calls[a.method] /\ cl.round < a.max
           /\ cl.pc \in Asking => cl.round = cl.calls[a.method] + 1 /\ cl.round <= a.max
TriesInv ==
    /\ cl.methods \subseteq acfg.offers
    /\ \A x \in Methods : x \notin cl.tried \cup {Method} => cl.calls[x] = 0
    /\ cl.pc \in {"start", "accept"} => cl.i = 0
    /\ EntryInv /\ UntriedMethodsOnly

(* The server's grant is the one of its last round.                        *)
GrantInv ==
    /\ sv.out # "" <=> sv.pc = "done"
    /\ sv.out # "ok" => sv.granted = Nobody
    /\ sv.pc = "challenge" => "keyboard-interactive" \in acfg.offers
    /\ AuthAgrees /\ KeysAreProven

(* What was said of a key is what the cache says of it, unless the cache   *)
(* was full before the key was first seen.                                 *)
Remembers(cache, said) ==
    /\ IsFiniteSet(cache) /\ Cardinality(cache) <= MaxCachedPubKeys
    /\ \A c, d \in cache : c.key = d.key => c = d
    /\ \A d \in said : \/ [key |-> d.key, ok |-> d.ok] \in cache
                       \/ /\ Cardinality(cache) = MaxCachedPubKeys
                          /\ \A c \in cache : c.key # d.key
CacheInv == Remembers(sv.cache, sv.said)

AuthInv == Typed /\ TurnsInv /\ TriesInv /\ GrantInv /\ CacheInv

(* A client whose multiplexer is alone has returned from authentication.   *)
AloneInv == phase = "alone" => cl.out # ""

-----------------------------------------------------------------------------
(* What the proofs need of configurations, of numbers and of the wire.     *)
LEMMA SeqFacts ==
    ASSUME NEW S, NEW q \in Seq(S)
    PROVE  Len(q) \in Nat /\ DOMAIN q = 1 .. Len(q) /\ \A i \in DOMAIN q : q[i] \in S
OBVIOUS

LEMMA Configured ==
    ASSUME acfg \in AuthConfigs
    PROVE  /\ acfg \in AuthConfig
           /\ acfg.Auth \in Seq([method : Methods, max : Nat]) /\ acfg.keys \in Seq(Keys)
           /\ acfg.offers \subseteq Methods /\ acfg.open \in BOOLEAN
           /\ acfg.offers = {} => acfg.open
           /\ Len(acfg.Auth) \in Nat /\ DOMAIN acfg.Auth = 1 .. Len(acfg.Auth)
           /\ \A i \in DOMAIN acfg.Auth : /\ acfg.Auth[i].method \in Methods
                                          /\ acfg.Auth[i].max \in Nat
<1>1. acfg \in AuthConfig /\ (acfg.open \/ acfg.offers # {})
  BY AuthAssumption
<1>2. /\ acfg.Auth \in Seq([method : Methods, max : Nat]) /\ acfg.keys \in Seq(Keys)
      /\ acfg.offers \subseteq Methods /\ acfg.open \in BOOLEAN
  BY <1>1 DEF AuthConfig
<1>3. /\ Len(acfg.Auth) \in Nat /\ DOMAIN acfg.Auth = 1 .. Len(acfg.Auth)
      /\ \A i \in DOMAIN acfg.Auth : acfg.Auth[i] \in [method : Methods, max : Nat]
  BY <1>2, SeqFacts
<1> QED BY <1>1, <1>2, <1>3

LEMMA LeastExists ==
    ASSUME NEW n \in Nat, NEW T, T \subseteq 1 .. n, T # {}
    PROVE  \E i \in T : \A j \in T : i <= j
<1>1. T \subseteq Nat
  OBVIOUS
<1>2. PICK i \in T : \A j \in T : ~(<<j, i>> \in OpToRel(<, Nat))
  BY <1>1, WFMin, NatLessThanWellFounded, Zenon
<1>3. ASSUME NEW j \in T PROVE i <= j
  <2>1. i \in Nat /\ j \in Nat
    BY <1>1
  <2>2. ~(j < i)
    BY <1>2, <2>1 DEF OpToRel
  <2> QED BY <2>1, <2>2
<1> QED BY <1>3

LEMMA Popped ==
    ASSUME NEW S, NEW q \in Seq(S), q # <<>>, NEW r \in Seq(S)
    PROVE  Head(q) \in S /\ Tail(q) \in Seq(S) /\ Append(r, Head(q)) \in Seq(S)
<1>1. Head(q) \in S
  OBVIOUS
<1>2. Tail(q) \in Seq(S)
  BY HeadTailProperties
<1> QED BY <1>1, <1>2

LEMMA HeadsAndTails ==
    ASSUME NEW a, NEW b
    PROVE  /\ Head(<<a>>) = a /\ Tail(<<a>>) = <<>> /\ <<a>> # <<>>
           /\ Head(<<a, b>>) = a /\ Tail(<<a, b>>) = <<b>>
           /\ Append(<<>>, a) = <<a>> /\ <<>> \o <<a>> = <<a>> /\ <<>> \o <<a, b>> = <<a, b>>
           /\ <<a>> \o <<b>> = <<a, b>>
<1>1. Head(<<a>>) = a /\ Head(<<a, b>>) = a
  OBVIOUS
<1>2. Tail(<<a>>) = <<>>
  OBVIOUS
<1>3. <<a>> # <<>>
  OBVIOUS
<1>4. Tail(<<a, b>>) = <<b>>
  OBVIOUS
<1>5. Append(<<>>, a) = <<a>>
  OBVIOUS
<1>6. <<>> \o <<a>> = <<a>>
  OBVIOUS
<1>7. <<>> \o <<a, b>> = <<a, b>>
  OBVIOUS
<1>8. <<a>> \o <<b>> = <<a, b>>
  <2>1. <<a>> \in Seq({a, b}) /\ <<b>> \in Seq({a, b}) /\ <<a, b>> \in Seq({a, b})
    OBVIOUS
  <2>2. /\ <<a>> \o <<b>> \in Seq({a, b})
        /\ Len(<<a>> \o <<b>>) = 2 /\ Len(<<a, b>>) = 2
        /\ (<<a>> \o <<b>>)[1] = a /\ (<<a>> \o <<b>>)[2] = b
    BY <2>1, ConcatProperties
  <2>3. \A i \in 1 .. 2 : (<<a>> \o <<b>>)[i] = <<a, b>>[i]
    BY <2>2
  <2> QED BY <2>1, <2>2, <2>3, SeqEqual
<1> QED BY <1>1, <1>2, <1>3, <1>4, <1>5, <1>6, <1>7, <1>8

LEMMA Lengths ==
    /\ Len(<<>>) <= 1 /\ Len(<<>>) <= 2
    /\ \A a : Len(<<a>>) <= 1 /\ Len(<<a>>) <= 2
    /\ \A a, b : Len(<<a, b>>) <= 2
OBVIOUS

LEMMA Positive == ASSUME NEW n \in Nat, n # 0 PROVE 0 < n
OBVIOUS

LEMMA IndexFacts ==
    ASSUME NEW n \in Nat, NEW k \in 1 .. n
    PROVE  k \in Nat /\ k # 0 /\ \A j \in 1 .. k - 1 : j \in 1 .. n /\ ~(k <= j)
OBVIOUS

(* Two entries that are the first of one method are the same entry.        *)
LEMMA FirstIsUnique ==
    ASSUME acfg \in AuthConfigs, NEW i \in DOMAIN acfg.Auth, NEW j \in DOMAIN acfg.Auth,
           FirstOfItsMethod(i), FirstOfItsMethod(j), acfg.Auth[i].method = acfg.Auth[j].method
    PROVE  i = j
<1>1. i \in Nat /\ j \in Nat /\ 1 <= i /\ 1 <= j
  BY Configured
<1>2. ~(i < j) /\ ~(j < i)
  BY <1>1 DEF FirstOfItsMethod
<1> QED BY <1>1, <1>2

LEMMA Initially == Init => AuthInv
<1> SUFFICES ASSUME Init PROVE AuthInv
  OBVIOUS
<1>1. AuthInit
  BY DEF Init
<1>2. acfg.offers \subseteq Methods
  BY <1>1, Configured DEF AuthInit
<1>3. /\ cl.pc = "start" /\ cl.i = 0 /\ cl.methods = {} /\ cl.round = 0
      /\ cl.calls = [x \in Methods |-> 0] /\ sv.cache = {} /\ sv.said = {}
  BY <1>1 DEF AuthInit
<1>4. Typed
  <2>1. [x \in Methods |-> 0] \in [Methods -> Nat]
    OBVIOUS
  <2>2. <<>> \in Seq(Keys) /\ 0 \in Nat
    OBVIOUS
  <2>3. cl \in Clients
    BY <1>1, <2>1, <2>2 DEF AuthInit, Clients, Asking
  <2>4. sv \in Servers
    BY <1>1 DEF AuthInit, Servers, Grants, Nobody, AnyKey
  <2> QED BY <1>1, <2>3, <2>4 DEF AuthInit, Typed
<1>5. TurnsInv
  BY <1>1 DEF AuthInit, TurnsInv, Quiet
<1>6. TriesInv
  <2>1. acfg \in AuthConfigs
    BY <1>4 DEF Typed
  <2>2. UntriedMethodsOnly
    BY <1>3, <2>1, Configured DEF UntriedMethodsOnly
  <2>3. EntryInv
    BY <1>3 DEF EntryInv
  <2> QED BY <1>3, <2>2, <2>3 DEF TriesInv
<1>7. GrantInv
  BY <1>1 DEF AuthInit, GrantInv, AuthAgrees, KeysAreProven, Nobody
<1>8. CacheInv
  <2>1. IsFiniteSet({}) /\ Cardinality({}) = 0
    BY FS_EmptySet
  <2> QED BY <1>3, <2>1, AuthAssumption DEF CacheInv, Remembers
<1> QED BY <1>4, <1>5, <1>6, <1>7, <1>8 DEF AuthInv


-----------------------------------------------------------------------------
(* The client. Its steps leave the server's locals alone.                  *)

LEMMA MethodTyped ==
    ASSUME Typed, EntryInv
    PROVE  Method \in AnyMethod /\ (cl.i # 0 => Method \in Methods)
<1>1. cl.i # 0 => acfg.Auth[cl.i].method \in Methods
  BY Configured DEF Typed, EntryInv
<1> QED BY <1>1 DEF Method, AnyMethod

(* The fields of the client's locals by their types.                       *)
LEMMA ClientFields ==
    ASSUME Typed
    PROVE  /\ cl.i \in Nat /\ cl.round \in Nat /\ cl.calls \in [Methods -> Nat]
           /\ cl.tried \subseteq AnyMethod /\ cl.methods \subseteq Methods
           /\ cl.keys \in Seq(Keys) /\ cl.valid \in Seq(Keys) /\ cl.signed \subseteq Keys
           /\ acfg \in AuthConfigs
BY DEF Typed, Clients

(* A method's end in an entry with a limit: one more call is counted, and  *)
(* it is still within the limit.                                           *)
LEMMA CountedCalls ==
    ASSUME Typed, TriesInv, cl.pc \in Asking, cl.i # 0, acfg.Auth[cl.i].max # 0,
           NEW calls, calls = [cl.calls EXCEPT ![Method] = @ + 1]
    PROVE  /\ calls \in [Methods -> Nat]
           /\ calls[Method] = cl.round
           /\ \A x \in Methods : calls[x] # 0 => x \in acfg.offers
           /\ \A x \in Methods : x \notin cl.tried \cup {Method} => calls[x] = 0
           /\ \A j \in DOMAIN acfg.Auth :
                FirstOfItsMethod(j) /\ acfg.Auth[j].max # 0
                  => calls[acfg.Auth[j].method] <= acfg.Auth[j].max
<1>1. /\ cl.i \in DOMAIN acfg.Auth /\ FirstOfItsMethod(cl.i) /\ Method = acfg.Auth[cl.i].method
      /\ Method \in acfg.offers
      /\ cl.round = cl.calls[Method] + 1 /\ cl.round <= acfg.Auth[cl.i].max
  BY DEF TriesInv, EntryInv, Method
<1>2. Method \in Methods /\ cl.calls \in [Methods -> Nat] /\ cl.round \in Nat
  BY MethodTyped, ClientFields DEF TriesInv
<1>3. calls \in [Methods -> Nat] /\ calls[Method] = cl.round
  BY <1>1, <1>2
<1>4. \A x \in Methods : x # Method => calls[x] = cl.calls[x]
  BY <1>2
<1>5. ASSUME NEW j \in DOMAIN acfg.Auth, FirstOfItsMethod(j), acfg.Auth[j].max # 0
      PROVE  calls[acfg.Auth[j].method] <= acfg.Auth[j].max
  <2>1. CASE acfg.Auth[j].method = Method
    <3>1. j = cl.i
      BY <1>1, <1>5, <2>1, FirstIsUnique DEF Typed
    <3> QED BY <1>1, <1>3, <3>1
  <2>2. CASE acfg.Auth[j].method # Method
    <3>1. acfg.Auth[j].method \in Methods
      BY <1>5, Configured DEF Typed
    <3> QED BY <1>4, <1>5, <2>2, <3>1 DEF TriesInv, UntriedMethodsOnly
  <2> QED BY <2>1, <2>2
<1>6. \A x \in Methods : calls[x] # 0 => x \in acfg.offers
  BY <1>1, <1>4 DEF TriesInv, UntriedMethodsOnly
<1>7. \A x \in Methods : x \notin cl.tried \cup {Method} => calls[x] = 0
  BY <1>4 DEF TriesInv
<1> QED BY <1>3, <1>5, <1>6, <1>7


(* The end of a method that did not succeed, whichever way it goes on.     *)
LEMMA MethodFailedKeeps ==
    ASSUME Typed, TriesInv, cl.pc \in Asking, cl.out = "", acfg' = acfg,
           NEW methods \in {{}, acfg.offers}, MethodFailed(cl, methods)
    PROVE  /\ cl' \in Clients /\ TriesInv'
           /\ \/ cl'.pc = "try" /\ cl'.out = ""
              \/ cl'.pc = "done" /\ cl'.out \in {"failed", "logged"}
<1> DEFINE max == acfg.Auth[cl.i].max
           limited == cl.i # 0 /\ max # 0
           again == cl.i # 0 /\ (max = 0 \/ cl.round < max)
           tried == cl.tried \cup {Method}
           known == IF methods = {} THEN cl.methods ELSE methods
           next == Untried(tried, known)
           calls == IF limited THEN [cl.calls EXCEPT ![Method] = @ + 1] ELSE cl.calls
<1>1. /\ cl.i \in Nat /\ cl.round \in Nat /\ cl.calls \in [Methods -> Nat]
      /\ cl.tried \subseteq AnyMethod /\ acfg \in AuthConfigs
      /\ Method \in AnyMethod /\ (cl.i # 0 => Method \in Methods)
  BY ClientFields, MethodTyped DEF TriesInv
<1>2. /\ calls \in [Methods -> Nat]
      /\ limited => calls[Method] = cl.round
      /\ \A x \in Methods : calls[x] # 0 => x \in acfg.offers
      /\ \A x \in Methods : x \notin tried => calls[x] = 0
      /\ \A j \in DOMAIN acfg.Auth :
           FirstOfItsMethod(j) /\ acfg.Auth[j].max # 0
             => calls[acfg.Auth[j].method] <= acfg.Auth[j].max
  <2>1. CASE limited
    BY <2>1, CountedCalls
  <2>2. CASE ~limited
    BY <1>1, <2>2 DEF TriesInv, UntriedMethodsOnly
  <2> QED BY <2>1, <2>2
<1>3. known \subseteq acfg.offers /\ known \subseteq Methods /\ tried \subseteq AnyMethod
  BY <1>1, Configured DEF TriesInv
<1>4. CASE again
  <2>1. cl' = [cl EXCEPT !.pc = "try", !.calls = calls]
    BY <1>4 DEF MethodFailed, Typed, Clients
  <2>2. cl' \in Clients
    BY <1>2, <2>1 DEF Typed, Clients
  <2>3. /\ cl'.pc = "try" /\ cl'.i = cl.i /\ cl'.tried = cl.tried /\ cl'.methods = cl.methods
        /\ cl'.round = cl.round /\ cl'.calls = calls /\ cl'.out = ""
    BY <2>1 DEF Typed, Clients
  <2>4. Method' = Method
    BY <2>3 DEF Method
  <2>5. UntriedMethodsOnly'
    BY <1>2, <2>3 DEF UntriedMethodsOnly, FirstOfItsMethod
  <2>6. EntryInv'
    BY <1>2, <1>4, <2>3 DEF TriesInv, EntryInv, Method, FirstOfItsMethod, Asking
  <2>7. TriesInv'
    BY <1>2, <2>3, <2>4, <2>5, <2>6 DEF TriesInv
  <2> QED BY <2>2, <2>3, <2>7
<1>5. CASE ~again /\ acfg.dont
  <2>1. cl' = [cl EXCEPT !.pc = "done", !.out = "logged"]
    BY <1>5 DEF MethodFailed
  <2>2. cl' \in Clients /\ cl'.pc = "done" /\ cl'.out = "logged"
    BY <2>1 DEF Typed, Clients
  <2>3. /\ cl'.i = cl.i /\ cl'.tried = cl.tried /\ cl'.methods = cl.methods
        /\ cl'.round = cl.round /\ cl'.calls = cl.calls
    BY <2>1 DEF Typed, Clients
  <2>4. TriesInv'
    BY <2>2, <2>3 DEF TriesInv, EntryInv, UntriedMethodsOnly, Method, FirstOfItsMethod, Asking
  <2> QED BY <2>2, <2>4
<1>6. CASE ~again /\ ~acfg.dont /\ next = {}
  <2>1. cl' = [cl EXCEPT !.pc = "done", !.out = "failed", !.calls = calls]
    BY <1>6 DEF MethodFailed, Typed, Clients
  <2>2. cl' \in Clients
    BY <1>2, <2>1 DEF Typed, Clients
  <2>3. /\ cl'.pc = "done" /\ cl'.i = cl.i /\ cl'.tried = cl.tried /\ cl'.methods = cl.methods
        /\ cl'.round = cl.round /\ cl'.calls = calls /\ cl'.out = "failed"
    BY <2>1 DEF Typed, Clients
  <2>4. Method' = Method
    BY <2>3 DEF Method
  <2>5. UntriedMethodsOnly'
    BY <1>2, <2>3 DEF UntriedMethodsOnly, FirstOfItsMethod
  <2>6. EntryInv'
    BY <2>3 DEF TriesInv, EntryInv, Method, FirstOfItsMethod, Asking
  <2>7. TriesInv'
    BY <1>2, <2>3, <2>4, <2>5, <2>6 DEF TriesInv
  <2> QED BY <2>2, <2>3, <2>7
<1>7. CASE ~again /\ ~acfg.dont /\ next # {}
  <2>1. next \subseteq 1 .. Len(acfg.Auth) /\ Len(acfg.Auth) \in Nat
    BY <1>1, Configured DEF Untried
  <2>2. PICK k \in next : /\ \A j \in next : k <= j
                          /\ k = CHOOSE i \in next : \A j \in next : i <= j
    BY <1>7, <2>1, LeastExists
  <2>3. /\ k \in DOMAIN acfg.Auth /\ k \in Nat /\ k # 0
        /\ acfg.Auth[k].method \notin tried /\ acfg.Auth[k].method \in acfg.offers
        /\ acfg.Auth[k].method \in Methods /\ acfg.Auth[k].max \in Nat
    <3>1. k \in Nat /\ k # 0
      BY <2>1, <2>2, IndexFacts, Zenon
    <3>2. k \in DOMAIN acfg.Auth /\ acfg.Auth[k].method \notin tried /\ acfg.Auth[k].method \in known
      BY <2>2 DEF Untried
    <3>3. acfg.Auth[k].method \in Methods /\ acfg.Auth[k].max \in Nat
      BY <1>1, <3>2, Configured
    <3> HIDE DEF tried, known
    <3> QED BY <1>3, <3>1, <3>2, <3>3
  <2>4. ASSUME NEW j \in 1 .. k - 1 PROVE acfg.Auth[j].method # acfg.Auth[k].method
    <3>1. j \in DOMAIN acfg.Auth /\ ~(k <= j)
      <4>1. DOMAIN acfg.Auth = 1 .. Len(acfg.Auth) /\ Len(acfg.Auth) \in Nat
        BY <1>1, Configured
      <4> QED BY <2>1, <2>2, <4>1, IndexFacts, Zenon
    <3>2. j \notin next
      BY <2>2, <3>1
    <3> QED BY <2>2, <3>1, <3>2 DEF Untried
  <2>5. cl' = [cl EXCEPT !.calls = calls, !.pc = "try", !.tried = tried, !.methods = known,
                         !.round = 0, !.i = k]
    BY <1>7, <2>2 DEF MethodFailed, Typed, Clients
  <2>6. cl' \in Clients
    BY <1>2, <1>3, <2>3, <2>5 DEF Typed, Clients
  <2>7. /\ cl'.pc = "try" /\ cl'.i = k /\ cl'.tried = tried /\ cl'.methods = known
        /\ cl'.round = 0 /\ cl'.calls = calls /\ cl'.out = ""
    BY <2>5 DEF Typed, Clients
  <2>8. calls[acfg.Auth[k].method] = 0
    BY <1>2, <2>3
  <2>9. UntriedMethodsOnly'
    BY <1>2, <2>7 DEF UntriedMethodsOnly, FirstOfItsMethod
  <2>10. EntryInv'
    <3> HIDE DEF tried, known, calls
    <3>1. FirstOfItsMethod(k)'
      BY <2>4 DEF FirstOfItsMethod
    <3>2. acfg.Auth[k].max # 0 => 0 < acfg.Auth[k].max
      BY <2>3, Positive, Zenon
    <3>3. cl'.i = k /\ cl'.pc = "try" /\ cl'.tried = tried /\ cl'.round = 0
      BY <2>7
    <3>4. cl'.calls[acfg.Auth[k].method] = 0
      BY <2>7, <2>8
    <3> QED BY <2>3, <3>1, <3>2, <3>3, <3>4 DEF EntryInv, Asking
  <2>11. TriesInv'
    BY <1>2, <1>3, <2>3, <2>7, <2>9, <2>10 DEF TriesInv
  <2> QED BY <2>6, <2>7, <2>11
<1> QED BY <1>4, <1>5, <1>6, <1>7


(* A step that stays in its entry, and counts nothing.                     *)
LEMMA SameEntry ==
    ASSUME Typed, TriesInv, acfg' = acfg,
           cl'.i = cl.i, cl'.tried = cl.tried, cl'.methods = cl.methods,
           cl'.calls = cl.calls, cl'.round = cl.round,
           \/ cl'.pc \in {cl.pc, "done"}
           \/ cl.pc \in Asking /\ cl'.pc \in Asking
           \/ cl.pc = "start" /\ cl'.pc = "accept"
           \/ cl.pc = "accept" /\ cl'.pc = "try"
    PROVE  TriesInv'
<1>1. Method' = Method
  BY DEF Method
<1>2. UntriedMethodsOnly'
  BY DEF TriesInv, UntriedMethodsOnly, FirstOfItsMethod
<1>3. EntryInv'
  BY DEF TriesInv, EntryInv, FirstOfItsMethod, Asking
<1> QED BY <1>1, <1>2, <1>3 DEF TriesInv, Asking

LEMMA EndsKeeps ==
    ASSUME Typed, TriesInv, acfg' = acfg, NEW out \in {"ok", "failed", "skipped"}, Ends(out)
    PROVE  cl' \in Clients /\ TriesInv' /\ cl'.pc = "done" /\ cl'.out = out
<1>1. cl' \in Clients /\ cl'.pc = "done" /\ cl'.out = out
  BY DEF Ends, Typed, Clients
<1>2. /\ cl'.i = cl.i /\ cl'.tried = cl.tried /\ cl'.methods = cl.methods
      /\ cl'.calls = cl.calls /\ cl'.round = cl.round
  BY DEF Ends, Typed, Clients
<1> QED BY <1>1, <1>2, SameEntry

LEMMA VerdictTypes ==
    ASSUME NEW m \in Verdicts
    PROVE  /\ m.type \in {"info", "success", "failure", "pkok"}
           /\ m.type = "failure" => m.methods = acfg.offers
BY DEF Verdicts, Packet, Failure, PubKeyOk

(* What the client finds when it waits for an answer and there is one.     *)
LEMMA AnswerArrived ==
    ASSUME TurnsInv, cl.pc \in {"ack", "reply"}, toClient # <<>>
    PROVE  /\ toServer = <<>>
           /\ \E m \in Verdicts :
                /\ Consistent(m)
                /\ \/ Head(toClient) = m /\ Tail(toClient) = <<>>
                   \/ Head(toClient) = Packet("banner") /\ Tail(toClient) = <<m>>
<1>1. Answered
  BY DEF TurnsInv, Requested, Challenged, Quiet
<1>2. PICK m \in Verdicts : Consistent(m) /\ toClient \in {<<m>>, <<Packet("banner"), m>>}
  BY <1>1 DEF Answered
<1>3. \/ Head(toClient) = m /\ Tail(toClient) = <<>>
      \/ Head(toClient) = Packet("banner") /\ Tail(toClient) = <<m>>
  <2>1. CASE toClient = <<m>>
    BY <2>1, HeadsAndTails, Zenon
  <2>2. CASE toClient = <<Packet("banner"), m>>
    BY <2>2, HeadsAndTails, Zenon
  <2> QED BY <1>2, <2>1, <2>2
<1> QED BY <1>1, <1>2, <1>3 DEF Answered

LEMMA AsksKeeps ==
    ASSUME Typed, TurnsInv, sv' = sv, cl.pc \in {"try", "query", "sign"},
           NEW m \in Requests, Owned(m)', ToServer(m), toClient' = toClient,
           cl'.pc \in {"ack", "reply"}, cl'.out = "", cl'.pc = "ack" => cl'.keys # <<>>
    PROVE  TurnsInv'
<1>1. toServer = <<>> /\ toClient = <<>> /\ sv.pc = "loop"
  BY DEF TurnsInv, Quiet
<1>2. toServer' = <<m>> /\ toClient' = <<>> /\ sv'.pc = "loop"
  BY <1>1, HeadsAndTails, Zenon DEF ToServer
<1>3. Requested'
  BY <1>2 DEF Requested
<1> QED BY <1>3 DEF TurnsInv

LEMMA RestsKeeps ==
    ASSUME Typed, sv' = sv, toServer' = <<>>, toClient' = <<>>, sv.pc = "loop",
           cl'.out = "", cl'.pc \in {"try", "query", "sign"},
           cl'.pc = "sign" => cl'.valid # <<>>
    PROVE  TurnsInv'
BY DEF TurnsInv, Quiet

LEMMA DoneKeeps ==
    ASSUME sv' = sv, acfg' = acfg, cl'.pc = "done", cl'.out = "ok" => sv.out = "ok",
           toServer' = <<>>, toClient' = <<>> \/ \E m \in Verdicts : toClient' = <<m>>
    PROVE  TurnsInv'
<1>1. Verdicts' = Verdicts
  BY DEF Verdicts
<1> QED BY <1>1 DEF TurnsInv


ClientStep ==
    \/ clientAuthenticate \/ ServiceAccepted \/ TryMethod \/ QueryKey \/ confirmKeyAck
    \/ SignWithKey \/ handleAuthResponse \/ ClientEOF

LEMMA RequestTyped ==
    ASSUME NEW method \in AnyMethod, NEW key \in AnyKey, NEW sig \in SigKinds \cup {NoSig}
    PROVE  /\ Request(method, key, sig) \in Requests
           /\ (sig = "valid" => key \in cl'.signed) => Owned(Request(method, key, sig))'
BY DEF Request, Requests, Owned

LEMMA QueryTyped ==
    ASSUME NEW method \in AnyMethod, NEW key \in AnyKey
    PROVE  Request(method, key, NoSig) \in Requests /\ Owned(Request(method, key, NoSig))'
<1>1. NoSig \in SigKinds \cup {NoSig} /\ NoSig # "valid"
  BY DEF NoSig
<1> QED BY <1>1, RequestTyped

LEMMA TryMethodKeeps ==
    ASSUME Typed, TurnsInv, TriesInv, TryMethod
    PROVE  cl' \in Clients /\ TurnsInv' /\ TriesInv'
<1>1. /\ cl.pc = "try" /\ acfg' = acfg /\ sv' = sv /\ toClient' = toClient
  BY DEF TryMethod
<1>2. cl.out = "" /\ toServer = <<>> /\ toClient = <<>> /\ sv.pc = "loop"
  BY <1>1 DEF TurnsInv, Quiet
<1>3. cl.round \in Nat /\ cl.i \in Nat /\ Method \in AnyMethod /\ acfg.keys \in Seq(Keys)
  BY ClientFields, MethodTyped, Configured DEF TriesInv
<1>4. Round \in Nat
  BY <1>3 DEF Round
<1>5. ASSUME NEW pc \in {"query", "reply"}, cl'.pc = pc, cl'.round = Round,
             cl'.i = cl.i, cl'.tried = cl.tried, cl'.methods = cl.methods, cl'.calls = cl.calls
      PROVE  TriesInv'
  <2>1. UntriedMethodsOnly'
    BY <1>1, <1>5 DEF TriesInv, UntriedMethodsOnly, FirstOfItsMethod
  <2>2. EntryInv'
    <3>1. CASE cl.i = 0
      BY <1>5, <3>1 DEF EntryInv
    <3>2. CASE cl.i # 0
      <4> DEFINE a == acfg.Auth[cl.i]
      <4>1. /\ cl.i \in DOMAIN acfg.Auth /\ FirstOfItsMethod(cl.i)
            /\ a.method \in acfg.offers /\ a.method \notin cl.tried
            /\ a.max # 0 => cl.round = cl.calls[a.method] /\ cl.round < a.max
        BY <1>1, <3>2 DEF TriesInv, EntryInv
      <4>2. a.max \in Nat
        BY <4>1, Configured DEF Typed
      <4>3. a.max # 0 => Round = cl.calls[a.method] + 1 /\ Round <= a.max
        BY <1>3, <3>2, <4>1, <4>2 DEF Round
      <4>4. FirstOfItsMethod(cl.i)'
        BY <1>1, <1>5, <4>1 DEF FirstOfItsMethod
      <4> QED BY <1>1, <1>5, <4>1, <4>3, <4>4 DEF EntryInv
    <3> QED BY <3>1, <3>2
  <2>3. Method' = Method
    BY <1>1, <1>5 DEF Method
  <2> QED BY <1>1, <1>5, <2>1, <2>2, <2>3 DEF TriesInv
<1>6. CASE /\ Method # "publickey"
           /\ ToServer(Request(Method, NoKey, NoSig))
           /\ cl' = [cl EXCEPT !.pc = "reply", !.round = Round]
  <2>1. cl' \in Clients /\ cl'.pc = "reply" /\ cl'.out = ""
    BY <1>2, <1>4, <1>6 DEF Typed, Clients, Asking
  <2>2. /\ cl'.round = Round /\ cl'.i = cl.i /\ cl'.tried = cl.tried
        /\ cl'.methods = cl.methods /\ cl'.calls = cl.calls
    BY <1>6 DEF Typed, Clients
  <2>3. PICK method \in AnyMethod, key \in AnyKey : method = Method /\ key = NoKey
    BY <1>3 DEF AnyKey
  <2>4. PICK m : m = Request(method, key, NoSig)
    OBVIOUS
  <2>5. m \in Requests /\ Owned(m)' /\ ToServer(m)
    BY <1>6, <2>3, <2>4, QueryTyped
  <2>6. TurnsInv'
    BY <1>1, <2>1, <2>5, AsksKeeps
  <2> QED BY <1>5, <2>1, <2>2, <2>6
<1>7. CASE /\ Method = "publickey"
           /\ cl' = [cl EXCEPT !.pc = "query", !.keys = acfg.keys, !.valid = <<>>, !.round = Round]
           /\ UNCHANGED toServer
  <2>1. cl' \in Clients /\ cl'.pc = "query" /\ cl'.out = ""
    <3>1. <<>> \in Seq(Keys)
      OBVIOUS
    <3> QED BY <1>2, <1>3, <1>4, <1>7, <3>1 DEF Typed, Clients, Asking
  <2>2. /\ cl'.round = Round /\ cl'.i = cl.i /\ cl'.tried = cl.tried
        /\ cl'.methods = cl.methods /\ cl'.calls = cl.calls
    BY <1>7 DEF Typed, Clients
  <2>3. TurnsInv'
    BY <1>1, <1>2, <1>7, <2>1, RestsKeeps
  <2> QED BY <1>5, <2>1, <2>2, <2>3
<1>8. CASE Ends("failed") /\ UNCHANGED toServer
  <2>1. cl' \in Clients /\ TriesInv' /\ cl'.pc = "done" /\ cl'.out = "failed"
    BY <1>1, <1>8, EndsKeeps
  <2> QED BY <1>1, <1>2, <1>8, <2>1, DoneKeeps
<1> QED BY <1>6, <1>7, <1>8 DEF TryMethod

LEMMA QueryKeyKeeps ==
    ASSUME Typed, TurnsInv, TriesInv, QueryKey
    PROVE  cl' \in Clients /\ TurnsInv' /\ TriesInv'
<1>1. /\ cl.pc = "query" /\ acfg' = acfg /\ sv' = sv /\ toClient' = toClient
  BY DEF QueryKey
<1>2. cl.out = "" /\ toServer = <<>> /\ toClient = <<>> /\ sv.pc = "loop"
  BY <1>1 DEF TurnsInv, Quiet
<1>3. cl.keys \in Seq(Keys)
  BY ClientFields
<1>4. CASE cl.keys # <<>>
  <2>1. /\ ToServer(Request("publickey", Head(cl.keys), NoSig))
        /\ cl' = [cl EXCEPT !.pc = "ack"]
    BY <1>4 DEF QueryKey
  <2>2. cl' \in Clients /\ cl'.pc = "ack" /\ cl'.out = ""
    BY <1>2, <2>1 DEF Typed, Clients, Asking
  <2>3. /\ cl'.round = cl.round /\ cl'.i = cl.i /\ cl'.tried = cl.tried
        /\ cl'.methods = cl.methods /\ cl'.calls = cl.calls /\ cl'.keys = cl.keys
    BY <2>1 DEF Typed, Clients
  <2>4. Head(cl.keys) \in Keys
    BY <1>3, <1>4
  <2>5. PICK m : m \in Requests /\ Owned(m)' /\ ToServer(m)
    <3>1. PICK key \in AnyKey, method \in AnyMethod : key = Head(cl.keys) /\ method = "publickey"
      BY <2>4 DEF AnyKey, AnyMethod, Methods
    <3>2. PICK q : q = Request(method, key, NoSig)
      OBVIOUS
    <3>3. q \in Requests /\ Owned(q)' /\ ToServer(q)
      BY <2>1, <3>1, <3>2, QueryTyped
    <3> QED BY <3>3
  <2>6. TurnsInv'
    BY <1>1, <1>4, <2>1, <2>2, <2>3, <2>5, AsksKeeps
  <2>7. TriesInv'
    BY <1>1, <2>2, <2>3, SameEntry DEF Asking
  <2> QED BY <2>2, <2>6, <2>7
<1>5. CASE cl.keys = <<>> /\ cl.valid # <<>>
  <2>1. cl' = [cl EXCEPT !.pc = "sign"] /\ toServer' = toServer
    BY <1>5 DEF QueryKey
  <2>2. cl' \in Clients /\ cl'.pc = "sign" /\ cl'.out = ""
    BY <1>2, <2>1 DEF Typed, Clients, Asking
  <2>3. /\ cl'.round = cl.round /\ cl'.i = cl.i /\ cl'.tried = cl.tried
        /\ cl'.methods = cl.methods /\ cl'.calls = cl.calls /\ cl'.valid = cl.valid
    BY <2>1 DEF Typed, Clients
  <2>4. TurnsInv'
    BY <1>1, <1>2, <1>5, <2>1, <2>2, <2>3, RestsKeeps
  <2>5. TriesInv'
    BY <1>1, <2>2, <2>3, SameEntry DEF Asking
  <2> QED BY <2>2, <2>4, <2>5
<1>6. CASE cl.keys = <<>> /\ cl.valid = <<>>
  <2>1. MethodFailed(cl, {}) /\ toServer' = toServer
    BY <1>6 DEF QueryKey
  <2>2. /\ cl' \in Clients /\ TriesInv'
        /\ \/ cl'.pc = "try" /\ cl'.out = ""
           \/ cl'.pc = "done" /\ cl'.out \in {"failed", "logged"}
    BY <1>1, <1>2, <2>1, MethodFailedKeeps DEF Asking
  <2>3. TurnsInv'
    BY <1>1, <1>2, <2>1, <2>2, RestsKeeps, DoneKeeps
  <2> QED BY <2>2, <2>3
<1> QED BY <1>4, <1>5, <1>6


LEMMA confirmKeyAckKeeps ==
    ASSUME Typed, TurnsInv, TriesInv, confirmKeyAck
    PROVE  cl' \in Clients /\ TurnsInv' /\ TriesInv'
<1>1. /\ cl.pc = "ack" /\ toClient # <<>> /\ toClient' = Tail(toClient)
      /\ acfg' = acfg /\ sv' = sv /\ toServer' = toServer
  BY DEF confirmKeyAck
<1>2. cl.out = "" /\ toServer = <<>> /\ cl \in Clients
  BY <1>1, AnswerArrived DEF TurnsInv, Typed
<1>3. PICK m \in Verdicts :
        /\ Consistent(m)
        /\ \/ Head(toClient) = m /\ Tail(toClient) = <<>>
           \/ Head(toClient) = Packet("banner") /\ Tail(toClient) = <<m>>
  BY <1>1, AnswerArrived
<1>4. Verdicts' = Verdicts /\ Consistent(m)'
  BY <1>1, <1>3 DEF Verdicts, Consistent
<1>5. CASE Head(toClient).type = "banner"
  <2>1. cl' = cl
    BY <1>5 DEF confirmKeyAck
  <2>2. toClient' = <<m>>
    BY <1>1, <1>3, <1>5, VerdictTypes
  <2>3. Answered'
    BY <1>1, <1>2, <1>4, <2>2 DEF Answered
  <2>4. TurnsInv'
    BY <1>1, <2>1, <2>3, <1>2 DEF TurnsInv
  <2>5. TriesInv'
    BY <1>1, <2>1, SameEntry
  <2> QED BY <1>2, <2>1, <2>4, <2>5
<1>6. CASE Head(toClient).type \in {"pkok", "failure"}
  <2>1. Tail(cl.keys) \in Seq(Keys) /\ Append(cl.valid, Head(cl.keys)) \in Seq(Keys)
    BY <1>1, ClientFields, Popped DEF TurnsInv
  <2>2. PICK keys \in Seq(Keys), valid \in Seq(Keys) :
          cl' = [cl EXCEPT !.pc = "query", !.keys = keys, !.valid = valid]
    <3>1. \E valid \in {cl.valid, Append(cl.valid, Head(cl.keys))} :
            cl' = [cl EXCEPT !.pc = "query", !.keys = Tail(@), !.valid = valid]
      BY <1>6 DEF confirmKeyAck
    <3>2. cl.valid \in Seq(Keys)
      BY ClientFields
    <3> QED BY <2>1, <3>1, <3>2
  <2>3. cl' \in Clients /\ cl'.pc = "query" /\ cl'.out = ""
    BY <1>2, <2>1, <2>2 DEF Clients, Asking
  <2>4. /\ cl'.round = cl.round /\ cl'.i = cl.i /\ cl'.tried = cl.tried
        /\ cl'.methods = cl.methods /\ cl'.calls = cl.calls
    BY <1>2, <2>2 DEF Clients
  <2>5. Head(toClient) = m /\ toClient' = <<>> /\ sv.pc = "loop"
    BY <1>1, <1>3, <1>6 DEF Packet, Consistent
  <2>6. TurnsInv'
    BY <1>1, <1>2, <2>3, <2>5, RestsKeeps
  <2>7. TriesInv'
    BY <1>1, <2>3, <2>4, SameEntry DEF Asking
  <2> QED BY <2>3, <2>6, <2>7
<1>7. CASE Head(toClient).type \notin {"banner", "pkok", "failure"}
  <2>1. Ends("failed")
    BY <1>7 DEF confirmKeyAck
  <2>2. cl' \in Clients /\ TriesInv' /\ cl'.pc = "done" /\ cl'.out = "failed"
    BY <1>1, <2>1, EndsKeeps
  <2>3. toClient' = <<>>
    BY <1>1, <1>3, <1>7 DEF Packet
  <2> QED BY <1>1, <1>2, <2>2, <2>3, DoneKeeps
<1> QED BY <1>5, <1>6, <1>7

LEMMA SignWithKeyKeeps ==
    ASSUME Typed, TurnsInv, TriesInv, SignWithKey
    PROVE  cl' \in Clients /\ TurnsInv' /\ TriesInv'
<1>1. cl.pc = "sign" /\ acfg' = acfg /\ sv' = sv /\ toClient' = toClient
  BY DEF SignWithKey
<1>2. cl.out = "" /\ cl.valid \in Seq(Keys) /\ cl.valid # <<>> /\ cl.signed \subseteq Keys
  BY <1>1, ClientFields DEF TurnsInv
<1>3. Tail(cl.valid) \in Seq(Keys) /\ Head(cl.valid) \in Keys
  BY <1>2, Popped
<1>4. ASSUME NEW key \in Keys, NEW sig \in SigKinds, ToServer(Request("publickey", key, sig)),
             NEW signed, signed = IF sig = "valid" THEN cl.signed \cup {key} ELSE cl.signed,
             cl' = [cl EXCEPT !.pc = "reply", !.valid = Tail(@), !.signed = signed]
      PROVE  cl' \in Clients /\ TurnsInv' /\ TriesInv'
  <2>1. cl' \in Clients /\ cl'.pc = "reply" /\ cl'.out = "" /\ cl'.signed = signed
    BY <1>2, <1>3, <1>4 DEF Typed, Clients, Asking
  <2>2. /\ cl'.round = cl.round /\ cl'.i = cl.i /\ cl'.tried = cl.tried
        /\ cl'.methods = cl.methods /\ cl'.calls = cl.calls
    BY <1>4 DEF Typed, Clients
  <2>3. "publickey" \in AnyMethod /\ key \in AnyKey /\ sig \in SigKinds \cup {NoSig}
    BY DEF AnyKey, AnyMethod, Methods
  <2>4. sig = "valid" => key \in cl'.signed
    <3>1. signed = IF sig = "valid" THEN cl.signed \cup {key} ELSE cl.signed
      BY <1>4
    <3>2. sig = "valid" => key \in signed
      BY <3>1
    <3> QED BY <2>1, <3>2
  <2>5. Request("publickey", key, sig) \in Requests /\ Owned(Request("publickey", key, sig))'
    BY <2>3, <2>4, RequestTyped
  <2>6. TurnsInv'
    BY <1>1, <1>4, <2>1, <2>5, AsksKeeps
  <2>7. TriesInv'
    BY <1>1, <2>1, <2>2, SameEntry DEF Asking
  <2> QED BY <2>1, <2>6, <2>7
<1>5. CASE Ends("failed") /\ UNCHANGED toServer
  <2>1. cl' \in Clients /\ TriesInv' /\ cl'.pc = "done" /\ cl'.out = "failed"
    BY <1>1, <1>5, EndsKeeps
  <2>2. toServer = <<>> /\ toClient = <<>>
    BY <1>1 DEF TurnsInv, Quiet
  <2> QED BY <1>1, <1>5, <2>1, <2>2, DoneKeeps
<1> QED BY <1>4, <1>5 DEF SignWithKey

LEMMA handleAuthResponseKeeps ==
    ASSUME Typed, TurnsInv, TriesInv, handleAuthResponse
    PROVE  cl' \in Clients /\ TurnsInv' /\ TriesInv'
<1>1. /\ cl.pc = "reply" /\ toClient # <<>> /\ toClient' = Tail(toClient)
      /\ acfg' = acfg /\ sv' = sv
  BY DEF handleAuthResponse
<1>2. cl.out = "" /\ toServer = <<>> /\ cl \in Clients
  BY <1>1, AnswerArrived DEF TurnsInv, Typed
<1>3. PICK m \in Verdicts :
        /\ Consistent(m)
        /\ \/ Head(toClient) = m /\ Tail(toClient) = <<>>
           \/ Head(toClient) = Packet("banner") /\ Tail(toClient) = <<m>>
  BY <1>1, AnswerArrived
<1>4. Verdicts' = Verdicts /\ Consistent(m)'
  BY <1>1, <1>3 DEF Verdicts, Consistent
<1>5. toClient' = <<>> \/ toClient' = <<m>>
  BY <1>1, <1>3
<1>6. Head(toClient).type # "banner" => Head(toClient) = m /\ toClient' = <<>>
  BY <1>1, <1>3 DEF Packet
<1>7. ASSUME UNCHANGED toServer, NEW out \in {"ok", "failed"}, Ends(out),
             out = "ok" => sv.out = "ok"
      PROVE  cl' \in Clients /\ TurnsInv' /\ TriesInv'
  <2>1. cl' \in Clients /\ TriesInv' /\ cl'.pc = "done" /\ cl'.out = out
    BY <1>1, <1>7, EndsKeeps
  <2>2. toServer' = <<>>
    BY <1>2, <1>7
  <2> QED BY <1>1, <1>5, <1>7, <2>1, <2>2, DoneKeeps
<1>8. CASE Head(toClient).type = "banner" /\ UNCHANGED <<cl, toServer>>
  <2>1. toClient' = <<m>>
    BY <1>1, <1>3, <1>8, VerdictTypes
  <2>2. Answered'
    BY <1>1, <1>2, <1>4, <1>8, <2>1 DEF Answered
  <2>3. TurnsInv'
    BY <1>1, <1>2, <1>8, <2>2 DEF TurnsInv
  <2>4. TriesInv'
    BY <1>1, <1>8, SameEntry
  <2> QED BY <1>2, <1>8, <2>3, <2>4
<1>9. CASE Head(toClient).type = "success" /\ Ends("ok") /\ UNCHANGED toServer
  <2>1. sv.out = "ok"
    BY <1>3, <1>6, <1>9 DEF Consistent
  <2> QED BY <1>7, <1>9, <2>1
<1>10. CASE /\ Head(toClient).type = "failure" /\ UNCHANGED toServer
            /\ cl.valid # <<>> /\ cl' = [cl EXCEPT !.pc = "sign"]
  <2>1. toClient' = <<>> /\ toServer' = <<>> /\ sv.pc = "loop"
    BY <1>2, <1>3, <1>6, <1>10 DEF Consistent
  <2>2. cl' \in Clients /\ cl'.pc = "sign" /\ cl'.out = "" /\ cl'.valid # <<>>
    BY <1>2, <1>10 DEF Clients, Asking
  <2>3. /\ cl'.round = cl.round /\ cl'.i = cl.i /\ cl'.tried = cl.tried
        /\ cl'.methods = cl.methods /\ cl'.calls = cl.calls
    BY <1>2, <1>10 DEF Clients
  <2>4. TurnsInv'
    BY <1>1, <2>1, <2>2, RestsKeeps
  <2>5. TriesInv'
    BY <1>1, <2>2, <2>3, SameEntry DEF Asking
  <2> QED BY <2>2, <2>4, <2>5
<1>11. CASE /\ Head(toClient).type = "failure" /\ UNCHANGED toServer
            /\ MethodFailed(cl, Head(toClient).methods)
  <2>1. toClient' = <<>> /\ toServer' = <<>> /\ sv.pc = "loop"
    BY <1>2, <1>3, <1>6, <1>11 DEF Consistent
  <2>2. Head(toClient).methods = acfg.offers
    BY <1>3, <1>6, <1>11, VerdictTypes
  <2>3. /\ cl' \in Clients /\ TriesInv'
        /\ \/ cl'.pc = "try" /\ cl'.out = ""
           \/ cl'.pc = "done" /\ cl'.out \in {"failed", "logged"}
    BY <1>1, <1>2, <1>11, <2>2, MethodFailedKeeps DEF Asking
  <2>4. TurnsInv'
    BY <1>1, <2>1, <2>3, RestsKeeps, DoneKeeps
  <2> QED BY <2>3, <2>4
<1>12. CASE /\ Head(toClient).type = "info"
            /\ ToServer(Packet("answer")) /\ UNCHANGED cl
  <2>1. toClient' = <<>> /\ sv.pc = "challenge"
    BY <1>3, <1>6, <1>12 DEF Consistent
  <2>2. toServer' = <<Packet("answer")>>
    BY <1>2, <1>12, HeadsAndTails, Zenon DEF ToServer
  <2>3. Challenged'
    BY <1>1, <2>1, <2>2 DEF Challenged
  <2>4. TurnsInv'
    BY <1>1, <1>2, <1>12, <2>3 DEF TurnsInv
  <2>5. TriesInv'
    BY <1>1, <1>12, SameEntry
  <2> QED BY <1>2, <1>12, <2>4, <2>5
<1>13. CASE Ends("failed") /\ UNCHANGED toServer
  BY <1>7, <1>13
<1> QED BY <1>8, <1>9, <1>10, <1>11, <1>12, <1>13 DEF handleAuthResponse


(* The owners who have signed remain so.                                   *)
LEMMA SignedGrows ==
    ASSUME Typed, ClientStep
    PROVE  cl.signed \subseteq cl'.signed
<1>1. cl \in Clients
  BY DEF Typed
<1>2. ASSUME NEW out, Ends(out) PROVE cl'.signed = cl.signed
  BY <1>1, <1>2 DEF Ends, Clients
<1>3. ASSUME NEW methods, MethodFailed(cl, methods) PROVE cl'.signed = cl.signed
  BY <1>1, <1>3 DEF MethodFailed, Clients
<1>4. CASE clientAuthenticate \/ ServiceAccepted
  BY <1>1, <1>2, <1>4 DEF clientAuthenticate, ServiceAccepted, Clients
<1>5. CASE TryMethod
  BY <1>1, <1>2, <1>5 DEF TryMethod, Clients
<1>6. CASE QueryKey
  BY <1>1, <1>3, <1>6 DEF QueryKey, Clients
<1>7. CASE confirmKeyAck
  BY <1>1, <1>2, <1>7 DEF confirmKeyAck, Clients
<1>8. CASE SignWithKey
  <2>1. ASSUME NEW key, NEW sig, NEW signed, NEW valid,
               signed = IF sig = "valid" THEN cl.signed \cup {key} ELSE cl.signed,
               cl' = [cl EXCEPT !.pc = "reply", !.valid = valid, !.signed = signed]
        PROVE  cl.signed \subseteq cl'.signed
    <3>1. cl.signed \subseteq signed
      BY <2>1
    <3>2. cl'.signed = signed
      BY <1>1, <2>1 DEF Clients
    <3> QED BY <3>1, <3>2
  <2> QED BY <1>2, <1>8, <2>1 DEF SignWithKey
<1>9. CASE handleAuthResponse
  BY <1>1, <1>2, <1>3, <1>9 DEF handleAuthResponse, Clients
<1>10. CASE ClientEOF
  BY <1>2, <1>10 DEF ClientEOF
<1> QED BY <1>4, <1>5, <1>6, <1>7, <1>8, <1>9, <1>10 DEF ClientStep

(* Every step of the client.                                               *)
LEMMA ClientKeeps ==
    ASSUME Typed, TurnsInv, TriesInv, GrantInv, ClientStep
    PROVE  /\ Typed' /\ TurnsInv' /\ TriesInv' /\ acfg' = acfg /\ sv' = sv
           /\ cl.signed \subseteq cl'.signed
<1>1. acfg' = acfg /\ sv' = sv
  BY DEF ClientStep, clientAuthenticate, ServiceAccepted, TryMethod, QueryKey, confirmKeyAck,
         SignWithKey, handleAuthResponse, ClientEOF
<1>0. cl.signed \subseteq cl'.signed
  BY SignedGrows
<1> SUFFICES cl' \in Clients /\ TurnsInv' /\ TriesInv'
  BY <1>0, <1>1 DEF Typed
<1>2. CASE clientAuthenticate
  <2>1. cl.pc = "start" /\ toClient' = toClient
    BY <1>2 DEF clientAuthenticate
  <2>2. cl.out = "" /\ toServer = <<>> /\ toClient = <<>> /\ sv.pc = "service"
    BY <2>1 DEF TurnsInv, Quiet
  <2>3. CASE Ends("skipped") /\ UNCHANGED toServer
    <3>1. cl' \in Clients /\ TriesInv' /\ cl'.pc = "done" /\ cl'.out = "skipped"
      BY <1>1, <2>3, EndsKeeps
    <3> QED BY <1>1, <2>1, <2>2, <2>3, <3>1, DoneKeeps
  <2>4. CASE cl' = [cl EXCEPT !.pc = "accept"] /\ ToServer(Packet("service"))
    <3>1. cl' \in Clients /\ cl'.pc = "accept" /\ cl'.out = ""
      BY <2>2, <2>4 DEF Typed, Clients
    <3>2. /\ cl'.round = cl.round /\ cl'.i = cl.i /\ cl'.tried = cl.tried
          /\ cl'.methods = cl.methods /\ cl'.calls = cl.calls
      BY <2>4 DEF Typed, Clients
    <3>3. TriesInv'
      BY <1>1, <2>1, <3>1, <3>2, SameEntry
    <3>4. toServer' = <<Packet("service")>>
      BY <2>2, <2>4, HeadsAndTails, Zenon DEF ToServer
    <3>5. TurnsInv'
      BY <1>1, <2>1, <2>2, <3>1, <3>4 DEF TurnsInv
    <3> QED BY <3>1, <3>3, <3>5
  <2> QED BY <1>2, <2>3, <2>4 DEF clientAuthenticate
<1>3. CASE ServiceAccepted
  <2>1. /\ cl.pc = "accept" /\ toClient # <<>> /\ toClient' = Tail(toClient)
        /\ toServer' = toServer
    BY <1>3 DEF ServiceAccepted
  <2>2. /\ cl.out = "" /\ toServer = <<>> /\ toClient = <<Packet("accept")>>
        /\ sv.pc = "loop"
    BY <2>1 DEF TurnsInv
  <2>3. Head(toClient) = Packet("accept") /\ toClient' = <<>>
    BY <2>1, <2>2, HeadsAndTails, Zenon
  <2>4. cl' = [cl EXCEPT !.pc = "try"]
    BY <1>3, <2>3 DEF ServiceAccepted, Packet
  <2>5. cl' \in Clients /\ cl'.pc = "try" /\ cl'.out = ""
    BY <2>2, <2>4 DEF Typed, Clients
  <2>6. /\ cl'.round = cl.round /\ cl'.i = cl.i /\ cl'.tried = cl.tried
        /\ cl'.methods = cl.methods /\ cl'.calls = cl.calls
    BY <2>4 DEF Typed, Clients
  <2>7. TurnsInv'
    BY <1>1, <2>1, <2>2, <2>3, <2>5, RestsKeeps
  <2>8. TriesInv'
    BY <1>1, <2>1, <2>5, <2>6, SameEntry
  <2> QED BY <2>5, <2>7, <2>8
<1>4. CASE ClientEOF
  <2>1. /\ cl.pc \in {"accept", "ack", "reply"} /\ toClient = <<>> /\ sv.out = "failed"
        /\ Ends("failed") /\ toServer' = toServer /\ toClient' = toClient
    BY <1>4 DEF ClientEOF
  <2>2. sv.pc = "done"
    BY <2>1 DEF GrantInv
  <2>3. toServer = <<>>
    BY <2>1, <2>2 DEF TurnsInv, Requested, Challenged, Answered, Quiet
  <2>4. cl' \in Clients /\ TriesInv' /\ cl'.pc = "done" /\ cl'.out = "failed"
    BY <1>1, <2>1, EndsKeeps
  <2> QED BY <1>1, <2>1, <2>3, <2>4, DoneKeeps
<1> QED BY <1>2, <1>3, <1>4, TryMethodKeeps, QueryKeyKeeps, confirmKeyAckKeeps, SignWithKeyKeeps,
           handleAuthResponseKeeps DEF ClientStep


-----------------------------------------------------------------------------
(* The server. Its steps leave the client's locals alone.                  *)
ServerStep ==
    \/ ServiceRequest \/ ServeNone \/ ServePassword \/ ServeKeyboard \/ ServeAnswer
    \/ ServePublicKey \/ ServerEOF

(* What the server finds when it is in its loop and there is a packet.     *)
LEMMA Asked ==
    ASSUME Typed, TurnsInv, sv.pc \in {"loop", "challenge"}, toServer # <<>>
    PROVE  /\ cl.pc \in {"ack", "reply"} /\ cl.out = "" /\ toClient = <<>>
           /\ Tail(toServer) = <<>>
           /\ sv.pc = "loop" => Head(toServer) \in Requests /\ Owned(Head(toServer))
<1>1. cl.pc \in {"start", "accept", "try", "done"} \cup Asking
  BY DEF Typed, Clients
<1>2. cl.pc \in {"ack", "reply"} /\ (Requested \/ Challenged)
  BY <1>1 DEF TurnsInv, Asking, Quiet, Answered
<1>3. toClient = <<>> /\ cl.out = ""
  BY <1>2 DEF Requested, Challenged, TurnsInv
<1>4. CASE Requested
  <2>1. PICK m \in Requests : Owned(m) /\ toServer = <<m>>
    BY <1>4 DEF Requested
  <2>2. Head(toServer) = m /\ Tail(toServer) = <<>>
    BY <2>1, HeadsAndTails, Zenon
  <2> QED BY <1>2, <1>3, <2>1, <2>2
<1>5. CASE Challenged
  <2>1. Tail(toServer) = <<>> /\ sv.pc # "loop"
    BY <1>5, HeadsAndTails, Zenon DEF Challenged
  <2> QED BY <1>2, <1>3, <2>1
<1> QED BY <1>2, <1>4, <1>5

LEMMA ServerFields ==
    ASSUME Typed
    PROVE  /\ sv.cache \subseteq [key : AnyKey, ok : BOOLEAN]
           /\ sv.said \subseteq [key : AnyKey, ok : BOOLEAN]
           /\ sv.perms \in Grants /\ sv.granted \in Grants
           /\ acfg \in AuthConfigs
BY DEF Typed, Servers

(* The grant that Answer makes is due: by a method on offer, with the      *)
(* permissions of this round, and by a key that was proven.                *)
Due(s, method, key) ==
    /\ method \in {"none"} \cup acfg.offers
    /\ method = "none" => acfg.open /\ s.perms = Nobody
    /\ method # "none" => s.perms = [method |-> method, key |-> key]
    /\ method = "publickey" => key \in cl.signed /\ [key |-> key, ok |-> TRUE] \in s.said

LEMMA GrantFields ==
    ASSUME NEW g, NEW method, NEW key, g = [method |-> method, key |-> key]
    PROVE  g.method = method /\ g.key = key
OBVIOUS

LEMMA NobodysMethod == ASSUME NEW g, g = Nobody PROVE g.method = ""
BY DEF Nobody

LEMMA AnswerKeeps ==
    ASSUME Typed, TurnsInv, GrantInv, acfg' = acfg, cl' = cl,
           sv.pc \in {"loop", "challenge"}, toServer # <<>>, toServer' = Tail(toServer),
           NEW s \in Servers, s.out = "", s.granted = Nobody,
           NEW ok \in BOOLEAN, NEW method \in AnyMethod, NEW key \in AnyKey,
           ok => Due(s, method, key),
           Answer(s, ok, method, key)
    PROVE  /\ sv' \in Servers /\ TurnsInv' /\ GrantInv'
           /\ sv'.cache = s.cache /\ sv'.said = s.said
<1>1. /\ cl.pc \in {"ack", "reply"} /\ cl.out = "" /\ toClient = <<>> /\ toServer' = <<>>
  BY Asked
<1>2. Verdicts' = Verdicts
  BY DEF Verdicts
<1>3. ASSUME NEW m \in Verdicts, ToClient(Banner \o <<m>>), Consistent(m)' PROVE Answered'
  <2>1. toClient' \in {<<m>>, <<Packet("banner"), m>>}
    <3>1. CASE acfg.banner
      <4>1. Banner \o <<m>> = <<Packet("banner"), m>>
        BY <3>1, HeadsAndTails, Zenon DEF Banner
      <4>2. toClient' = <<>> \o <<Packet("banner"), m>>
        BY <1>1, <1>3, <4>1, Zenon DEF ToClient
      <4>3. <<>> \o <<Packet("banner"), m>> = <<Packet("banner"), m>>
        BY HeadsAndTails, Zenon
      <4> QED BY <4>2, <4>3
    <3>2. CASE ~acfg.banner
      <4>1. Banner \o <<m>> = <<m>>
        BY <3>2, HeadsAndTails, Zenon DEF Banner
      <4>2. toClient' = <<m>>
        BY <1>1, <1>3, <4>1, HeadsAndTails, Zenon DEF ToClient
      <4> QED BY <4>2
    <3> QED BY <3>1, <3>2
  <2> QED BY <1>1, <1>2, <1>3, <2>1 DEF Answered
<1>4. CASE ok
  <2>1. /\ sv' = [s EXCEPT !.pc = "done", !.out = "ok",
                           !.granted = [method |-> method, key |-> key]]
        /\ ToClient(Banner \o <<Packet("success")>>)
    BY <1>4 DEF Answer
  <2>2. [method |-> method, key |-> key] \in Grants
    BY DEF Grants
  <2>3. sv' \in Servers
    BY <2>1, <2>2 DEF Servers
  <2>4. /\ sv'.pc = "done" /\ sv'.out = "ok" /\ sv'.granted = [method |-> method, key |-> key]
        /\ sv'.cache = s.cache /\ sv'.said = s.said /\ sv'.perms = s.perms
    BY <2>1 DEF Servers
  <2>5. Packet("success") \in Verdicts /\ Consistent(Packet("success"))'
    BY <2>4 DEF Verdicts, Consistent, Packet
  <2>6. TurnsInv'
    BY <1>1, <1>3, <2>1, <2>4, <2>5 DEF TurnsInv
  <2>7. GrantInv'
    <3>1. Due(s, method, key)
      BY <1>4
    <3>2. sv'.granted.method = method /\ sv'.granted.key = key
      <4>1. PICK g : g = sv'.granted
        OBVIOUS
      <4>2. g = [method |-> method, key |-> key]
        BY <2>4, <4>1
      <4>3. g.method = method /\ g.key = key
        BY <4>2, GrantFields, Zenon
      <4> QED BY <4>1, <4>3
    <3>3. AuthAgrees'
      BY <1>1, <2>4, <3>1, <3>2 DEF AuthAgrees, Due
    <3>4. KeysAreProven'
      BY <2>4, <3>1, <3>2 DEF KeysAreProven, Due
    <3> QED BY <2>4, <3>3, <3>4 DEF GrantInv
  <2> QED BY <2>3, <2>4, <2>6, <2>7
<1>5. CASE ~ok /\ acfg.offers = {}
  <2>1. sv' = [s EXCEPT !.pc = "done", !.out = "failed"] /\ toClient' = toClient
    BY <1>5 DEF Answer
  <2>2. sv' \in Servers
    BY <2>1 DEF Servers
  <2>3. /\ sv'.pc = "done" /\ sv'.out = "failed" /\ sv'.granted = Nobody
        /\ sv'.cache = s.cache /\ sv'.said = s.said
    BY <2>1 DEF Servers
  <2>4. TurnsInv'
    BY <1>1, <2>1, <2>3 DEF TurnsInv, Quiet
  <2>5. GrantInv'
    <3>1. sv'.granted.method = ""
      BY <2>3, NobodysMethod
    <3>2. AuthAgrees'
      BY <1>1, <2>3 DEF AuthAgrees
    <3>3. KeysAreProven'
      BY <3>1 DEF KeysAreProven
    <3> QED BY <2>3, <3>2, <3>3 DEF GrantInv
  <2> QED BY <2>2, <2>3, <2>4, <2>5
<1>6. CASE ~ok /\ acfg.offers # {}
  <2>1. sv' = [s EXCEPT !.pc = "loop"] /\ ToClient(Banner \o <<Failure(acfg.offers)>>)
    BY <1>6 DEF Answer
  <2>2. sv' \in Servers
    BY <2>1 DEF Servers
  <2>3. /\ sv'.pc = "loop" /\ sv'.out = "" /\ sv'.granted = Nobody
        /\ sv'.cache = s.cache /\ sv'.said = s.said
    BY <2>1 DEF Servers
  <2>4. Failure(acfg.offers) \in Verdicts /\ Consistent(Failure(acfg.offers))'
    BY <2>3 DEF Verdicts, Consistent, Failure
  <2>5. TurnsInv'
    BY <1>1, <1>3, <2>1, <2>3, <2>4 DEF TurnsInv
  <2>6. GrantInv'
    <3>1. sv'.granted.method = ""
      BY <2>3, NobodysMethod
    <3>2. AuthAgrees'
      BY <1>1, <2>3 DEF AuthAgrees
    <3>3. KeysAreProven'
      BY <3>1 DEF KeysAreProven
    <3> QED BY <2>3, <3>2, <3>3 DEF GrantInv
  <2> QED BY <2>2, <2>3, <2>5, <2>6
<1> QED BY <1>4, <1>5, <1>6


LEMMA SameCache ==
    ASSUME CacheInv, sv'.cache = sv.cache, sv'.said = sv.said
    PROVE  CacheInv'
BY DEF CacheInv

LEMMA GrantsTyped ==
    /\ Nobody \in Grants
    /\ \A method \in AnyMethod, key \in AnyKey : Allowed(method, key) \in Grants
BY DEF Nobody, Grants, AnyKey, Allowed

(* A round starts with no permissions, and with nothing granted so far.    *)
LEMMA FreshFacts ==
    ASSUME Typed, GrantInv, sv.pc \in {"loop", "challenge"}, NEW perms \in Grants,
           NEW t, t = [sv EXCEPT !.perms = perms]
    PROVE  /\ t \in Servers /\ t.out = "" /\ t.granted = Nobody /\ t.perms = perms
           /\ t.cache = sv.cache /\ t.said = sv.said
<1>1. sv.out = "" /\ sv.granted = Nobody
  BY DEF GrantInv, Typed, Servers
<1> QED BY <1>1 DEF Typed, Servers

LEMMA FreshServer ==
    ASSUME Typed, GrantInv, sv.pc \in {"loop", "challenge"}
    PROVE  /\ Fresh \in Servers /\ Fresh.out = "" /\ Fresh.granted = Nobody
           /\ Fresh.perms = Nobody /\ Fresh.cache = sv.cache /\ Fresh.said = sv.said
<1>1. PICK t : t = [sv EXCEPT !.perms = Nobody]
  OBVIOUS
<1>2. t = Fresh
  BY <1>1 DEF Fresh
<1>3. Nobody \in Grants
  BY GrantsTyped
<1>4. /\ t \in Servers /\ t.out = "" /\ t.granted = Nobody
      /\ t.perms = Nobody /\ t.cache = sv.cache /\ t.said = sv.said
  BY <1>1, <1>3, FreshFacts
<1> QED BY <1>2, <1>4, Zenon

(* The callback's answer ok to a method that needs no key.                 *)
LEMMA CallbackKeeps ==
    ASSUME Typed, TurnsInv, GrantInv, CacheInv, acfg' = acfg, cl' = cl,
           sv.pc \in {"loop", "challenge"}, toServer # <<>>, toServer' = Tail(toServer),
           NEW s \in {Fresh, sv}, NEW ok \in BOOLEAN,
           NEW method \in {"password", "keyboard-interactive"},
           ok => method \in acfg.offers,
           Answer([s EXCEPT !.perms = IF ok THEN Allowed(method, NoKey) ELSE @], ok, method, NoKey)
    PROVE  sv' \in Servers /\ TurnsInv' /\ GrantInv' /\ CacheInv'
<1> DEFINE perms == IF ok THEN Allowed(method, NoKey) ELSE s.perms
           t == [s EXCEPT !.perms = perms]
<1>1. s.perms \in Grants
  BY GrantsTyped DEF Fresh, Typed, Servers
<1>2. perms \in Grants /\ method \in AnyMethod /\ NoKey \in AnyKey
  BY <1>1, GrantsTyped DEF AnyMethod, Methods, AnyKey
<1>3. t = [s EXCEPT !.perms = perms]
  OBVIOUS
<1>4. Answer(t, ok, method, NoKey)
  OBVIOUS
<1>5. perms = IF ok THEN Allowed(method, NoKey) ELSE s.perms
  OBVIOUS
<1> HIDE DEF t, perms
<1>6. /\ t \in Servers /\ t.out = "" /\ t.granted = Nobody /\ t.perms = perms
      /\ t.cache = sv.cache /\ t.said = sv.said
  <2>1. t = [sv EXCEPT !.perms = perms]
    BY <1>3 DEF Fresh, Typed, Servers
  <2> QED BY <1>2, <2>1, FreshFacts
<1>7. ok => Due(t, method, NoKey)
  BY <1>5, <1>6 DEF Due, Allowed
<1>8. /\ sv' \in Servers /\ TurnsInv' /\ GrantInv'
      /\ sv'.cache = t.cache /\ sv'.said = t.said
  BY <1>2, <1>4, <1>6, <1>7, AnswerKeeps
<1> QED BY <1>6, <1>8, SameCache

LEMMA ServeNoneKeeps ==
    ASSUME Typed, TurnsInv, GrantInv, CacheInv, ServeNone
    PROVE  sv' \in Servers /\ TurnsInv' /\ GrantInv' /\ CacheInv'
<1>1. /\ sv.pc = "loop" /\ toServer # <<>> /\ toServer' = Tail(toServer)
      /\ acfg' = acfg /\ cl' = cl /\ Answer(Fresh, acfg.open, "none", NoKey)
  BY DEF ServeNone
<1>2. /\ Fresh \in Servers /\ Fresh.out = "" /\ Fresh.granted = Nobody /\ Fresh.perms = Nobody
      /\ Fresh.cache = sv.cache /\ Fresh.said = sv.said
  BY <1>1, FreshServer
<1>3. acfg.open => Due(Fresh, "none", NoKey)
  BY <1>2 DEF Due
<1>4. acfg.open \in BOOLEAN /\ "none" \in AnyMethod /\ NoKey \in AnyKey
  BY Configured DEF Typed, AnyMethod, AnyKey
<1>5. /\ sv' \in Servers /\ TurnsInv' /\ GrantInv'
      /\ sv'.cache = Fresh.cache /\ sv'.said = Fresh.said
  BY <1>1, <1>2, <1>3, <1>4, AnswerKeeps
<1> QED BY <1>2, <1>5, SameCache

LEMMA ServePasswordKeeps ==
    ASSUME Typed, TurnsInv, GrantInv, CacheInv, ServePassword
    PROVE  sv' \in Servers /\ TurnsInv' /\ GrantInv' /\ CacheInv'
<1>1. /\ sv.pc = "loop" /\ toServer # <<>> /\ toServer' = Tail(toServer)
      /\ acfg' = acfg /\ cl' = cl
  BY DEF ServePassword
<1>2. PICK ok \in BOOLEAN :
        /\ ok => "password" \in acfg.offers
        /\ Answer([Fresh EXCEPT !.perms = IF ok THEN Allowed("password", NoKey) ELSE @],
                  ok, "password", NoKey)
  BY DEF ServePassword
<1> QED BY <1>1, <1>2, CallbackKeeps

LEMMA ServeKeyboardKeeps ==
    ASSUME Typed, TurnsInv, GrantInv, CacheInv, ServeKeyboard
    PROVE  sv' \in Servers /\ TurnsInv' /\ GrantInv' /\ CacheInv'
<1>1. /\ sv.pc = "loop" /\ toServer # <<>> /\ toServer' = Tail(toServer)
      /\ acfg' = acfg /\ cl' = cl
  BY DEF ServeKeyboard
<1>2. CASE /\ "keyboard-interactive" \in acfg.offers
           /\ sv' = [Fresh EXCEPT !.pc = "challenge"]
           /\ ToClient(<<Packet("info")>>)
  <2>1. /\ Fresh \in Servers /\ Fresh.out = "" /\ Fresh.granted = Nobody
        /\ Fresh.cache = sv.cache /\ Fresh.said = sv.said
    BY <1>1, FreshServer
  <2>2. /\ sv' \in Servers /\ sv'.pc = "challenge" /\ sv'.out = "" /\ sv'.granted = Nobody
        /\ sv'.cache = sv.cache /\ sv'.said = sv.said
    BY <1>2, <2>1 DEF Servers
  <2>3. /\ cl.pc \in {"ack", "reply"} /\ cl.out = "" /\ toClient = <<>> /\ toServer' = <<>>
    BY <1>1, Asked
  <2>4. toClient' = <<Packet("info")>>
    BY <1>2, <2>3, HeadsAndTails, Zenon DEF ToClient
  <2>5. Packet("info") \in Verdicts' /\ Consistent(Packet("info"))'
    BY <2>2 DEF Verdicts, Consistent, Packet
  <2>6. Answered'
    BY <2>3, <2>4, <2>5 DEF Answered
  <2>7. TurnsInv'
    BY <1>1, <2>2, <2>3, <2>6 DEF TurnsInv
  <2>8. GrantInv'
    <3>1. sv'.granted.method = ""
      BY <2>2, NobodysMethod
    <3>2. AuthAgrees' /\ KeysAreProven'
      BY <1>1, <2>2, <2>3, <3>1 DEF AuthAgrees, KeysAreProven
    <3> QED BY <1>1, <1>2, <2>2, <3>2 DEF GrantInv
  <2> QED BY <2>2, <2>7, <2>8, SameCache
<1>3. ASSUME NEW ok \in BOOLEAN, ok => "keyboard-interactive" \in acfg.offers,
             Answer([Fresh EXCEPT !.perms = IF ok THEN Allowed("keyboard-interactive", NoKey) ELSE @],
                    ok, "keyboard-interactive", NoKey)
      PROVE  sv' \in Servers /\ TurnsInv' /\ GrantInv' /\ CacheInv'
  BY <1>1, <1>3, CallbackKeeps
<1> QED BY <1>2, <1>3 DEF ServeKeyboard

LEMMA ServeAnswerKeeps ==
    ASSUME Typed, TurnsInv, GrantInv, CacheInv, ServeAnswer
    PROVE  sv' \in Servers /\ TurnsInv' /\ GrantInv' /\ CacheInv'
<1>1. /\ sv.pc = "challenge" /\ toServer # <<>> /\ toServer' = Tail(toServer)
      /\ acfg' = acfg /\ cl' = cl /\ "keyboard-interactive" \in acfg.offers
  BY DEF ServeAnswer, GrantInv
<1>2. PICK ok \in BOOLEAN :
        Answer([sv EXCEPT !.perms = IF ok THEN Allowed("keyboard-interactive", NoKey) ELSE @],
               ok, "keyboard-interactive", NoKey)
  BY DEF ServeAnswer
<1> QED BY <1>1, <1>2, CallbackKeeps


(* A decision e about a key, found in the cache or made now, is added to   *)
(* what was said; in the second case it is cached if there is room.        *)
LEMMA DecisionKeeps ==
    ASSUME Typed, CacheInv, NEW key \in AnyKey,
           NEW e \in [key : AnyKey, ok : BOOLEAN], e.key = key,
           Cached(key) # {} => e \in sv.cache,
           NEW cache, cache = IF Cached(key) # {} THEN sv.cache ELSE AddToCache(e),
           NEW said, said = sv.said \cup {e}
    PROVE  /\ Remembers(cache, said)
           /\ cache \subseteq [key : AnyKey, ok : BOOLEAN]
           /\ said \subseteq [key : AnyKey, ok : BOOLEAN]
<1>1. /\ sv.cache \subseteq [key : AnyKey, ok : BOOLEAN]
      /\ sv.said \subseteq [key : AnyKey, ok : BOOLEAN]
  BY ServerFields
<1>2. /\ IsFiniteSet(sv.cache) /\ Cardinality(sv.cache) \in Nat /\ MaxCachedPubKeys \in Nat
      /\ Cardinality(sv.cache) <= MaxCachedPubKeys
  BY FS_CardinalityType, AuthAssumption DEF CacheInv, Remembers
<1>3. said \subseteq [key : AnyKey, ok : BOOLEAN]
  BY <1>1
<1>4. e = [key |-> e.key, ok |-> e.ok]
  OBVIOUS
<1>5. CASE Cached(key) # {}
  <2>1. cache = sv.cache /\ e \in cache
    BY <1>5
  <2>2. Remembers(cache, said)
    BY <1>4, <2>1 DEF CacheInv, Remembers
  <2> QED BY <1>1, <1>3, <2>1, <2>2
<1>6. CASE Cached(key) = {} /\ Cardinality(sv.cache) < MaxCachedPubKeys
  <2>1. cache = sv.cache \cup {e} /\ \A c \in sv.cache : c.key # key
    BY <1>6 DEF AddToCache, Cached
  <2>2. e \notin sv.cache
    BY <2>1
  <2>3. IsFiniteSet(cache) /\ Cardinality(cache) = Cardinality(sv.cache) + 1
    BY <1>2, <2>1, <2>2, FS_AddElement
  <2>4. Cardinality(cache) <= MaxCachedPubKeys
    BY <1>2, <1>6, <2>3
  <2>5. \A c, d \in cache : c.key = d.key => c = d
    BY <2>1 DEF CacheInv, Remembers
  <2>6. ASSUME NEW d \in sv.said PROVE [key |-> d.key, ok |-> d.ok] \in cache
    <3>1. Cardinality(sv.cache) # MaxCachedPubKeys
      BY <1>2, <1>6
    <3>2. [key |-> d.key, ok |-> d.ok] \in sv.cache
      BY <3>1, Zenon DEF CacheInv, Remembers
    <3> QED BY <2>1, <3>2, Zenon
  <2>7. ASSUME NEW d \in said PROVE [key |-> d.key, ok |-> d.ok] \in cache
    <3>1. CASE d \in sv.said
      BY <2>6, <3>1, Zenon
    <3>2. CASE d = e
      BY <1>4, <2>1, <3>2
    <3> QED BY <3>1, <3>2
  <2>8. Remembers(cache, said)
    BY <2>3, <2>4, <2>5, <2>7 DEF Remembers
  <2> QED BY <1>1, <1>3, <2>1, <2>8
<1>7. CASE Cached(key) = {} /\ ~(Cardinality(sv.cache) < MaxCachedPubKeys)
  <2>1. cache = sv.cache /\ \A c \in sv.cache : c.key # key
    BY <1>7 DEF AddToCache, Cached
  <2>2. Cardinality(sv.cache) = MaxCachedPubKeys
    BY <1>2, <1>7
  <2>3. Remembers(cache, said)
    BY <2>1, <2>2 DEF CacheInv, Remembers
  <2> QED BY <1>1, <1>3, <2>1, <2>3
<1> QED BY <1>5, <1>6, <1>7

(* The server gives the client up.                                         *)
LEMMA RefuseKeeps ==
    ASSUME Typed, TurnsInv, GrantInv, acfg' = acfg, cl' = cl,
           sv.pc \in {"loop", "challenge"}, toServer # <<>>, toServer' = Tail(toServer),
           NEW s \in Servers, s.out = "", s.granted = Nobody, Refuse(s)
    PROVE  /\ sv' \in Servers /\ TurnsInv' /\ GrantInv'
           /\ sv'.cache = s.cache /\ sv'.said = s.said
<1>1. /\ cl.pc \in {"ack", "reply"} /\ cl.out = "" /\ toClient = <<>> /\ toServer' = <<>>
  BY Asked
<1>2. sv' = [s EXCEPT !.pc = "done", !.out = "failed"] /\ toClient' = toClient
  BY DEF Refuse
<1>3. sv' \in Servers
  BY <1>2 DEF Servers
<1>4. /\ sv'.pc = "done" /\ sv'.out = "failed" /\ sv'.granted = Nobody
      /\ sv'.cache = s.cache /\ sv'.said = s.said
  BY <1>2 DEF Servers
<1>5. TurnsInv'
  BY <1>1, <1>2, <1>4 DEF TurnsInv, Quiet
<1>6. sv'.granted.method = ""
  BY <1>4, NobodysMethod
<1>7. AuthAgrees' /\ KeysAreProven'
  BY <1>1, <1>4, <1>6 DEF AuthAgrees, KeysAreProven
<1> QED BY <1>3, <1>4, <1>5, <1>7 DEF GrantInv

LEMMA ServePublicKeyKeeps ==
    ASSUME Typed, TurnsInv, GrantInv, CacheInv, ServePublicKey
    PROVE  sv' \in Servers /\ TurnsInv' /\ GrantInv' /\ CacheInv'
<1>0. PICK m : m = Head(toServer)
  OBVIOUS
<1>1. /\ sv.pc = "loop" /\ toServer # <<>> /\ toServer' = Tail(toServer)
      /\ acfg' = acfg /\ cl' = cl
  BY DEF ServePublicKey
<1>2. /\ cl.pc \in {"ack", "reply"} /\ cl.out = "" /\ toClient = <<>> /\ toServer' = <<>>
      /\ m \in Requests /\ m.key \in AnyKey /\ (m.sig = "valid" => m.key \in cl.signed)
  BY <1>0, <1>1, Asked DEF Requests, Owned
<1>3. /\ Fresh \in Servers /\ Fresh.out = "" /\ Fresh.granted = Nobody /\ Fresh.perms = Nobody
      /\ Fresh.cache = sv.cache /\ Fresh.said = sv.said
  BY <1>1, FreshServer
<1>4. "publickey" \in AnyMethod /\ NoKey \in AnyKey
  BY DEF AnyMethod, Methods, AnyKey
<1>5. CASE "publickey" \notin acfg.offers \/ m.sig = "oddAlgo"
  <2>1. Answer(Fresh, FALSE, "publickey", NoKey)
    BY <1>0, <1>5 DEF ServePublicKey
  <2>2. /\ sv' \in Servers /\ TurnsInv' /\ GrantInv'
        /\ sv'.cache = Fresh.cache /\ sv'.said = Fresh.said
    BY <1>1, <1>3, <1>4, <2>1, AnswerKeeps
  <2> QED BY <1>3, <2>2, SameCache
<1>6. CASE "publickey" \in acfg.offers /\ m.sig # "oddAlgo"
  <2> DEFINE hit == Cached(m.key)
             Decided(e) == [Fresh EXCEPT !.cache = IF hit # {} THEN @ ELSE AddToCache(e),
                                         !.said = @ \cup {e}]
  <2>1. PICK e \in IF hit # {} THEN hit ELSE {[key |-> m.key, ok |-> b] : b \in BOOLEAN} :
          \/ m.sig = NoSig /\ e.ok /\ sv' = Decided(e) /\ ToClient(<<PubKeyOk(m.key)>>)
          \/ Answer(Decided(e), FALSE, "publickey", m.key)
          \/ Refuse(Decided(e))
          \/ /\ Verified(m)
             /\ Answer([Decided(e) EXCEPT !.perms = Allowed("publickey", m.key)],
                       e.ok, "publickey", m.key)
    BY <1>0, <1>6 DEF ServePublicKey
  <2>2. e \in [key : AnyKey, ok : BOOLEAN] /\ e.key = m.key /\ (hit # {} => e \in sv.cache)
    <3> HIDE DEF Decided
    <3>1. CASE hit # {}
      <4>1. e \in sv.cache /\ e.key = m.key
        BY <2>1, <3>1, Zenon DEF Cached
      <4> QED BY <4>1, ServerFields
    <3>2. CASE hit = {}
      <4>1. PICK b \in BOOLEAN : e = [key |-> m.key, ok |-> b]
        BY <2>1, <3>2, Zenon
      <4> QED BY <1>2, <3>2, <4>1
    <3> QED BY <3>1, <3>2
  <2>3. PICK cache : cache = IF hit # {} THEN sv.cache ELSE AddToCache(e)
    OBVIOUS
  <2>4. PICK said : said = sv.said \cup {e}
    OBVIOUS
  <2>5. PICK s : s = [Fresh EXCEPT !.cache = cache, !.said = said]
    OBVIOUS
  <2>6. s = Decided(e)
    BY <1>3, <2>3, <2>4, <2>5
  <2>7. /\ Remembers(cache, said) /\ cache \subseteq [key : AnyKey, ok : BOOLEAN]
        /\ said \subseteq [key : AnyKey, ok : BOOLEAN]
    <3>1. PICK key \in AnyKey : key = m.key
      BY <1>2
    <3>2. /\ e \in [key : AnyKey, ok : BOOLEAN] /\ e.key = key
          /\ (Cached(key) # {} => e \in sv.cache)
          /\ cache = IF Cached(key) # {} THEN sv.cache ELSE AddToCache(e)
          /\ said = sv.said \cup {e}
      BY <2>2, <2>3, <2>4, <3>1, Zenon
    <3> HIDE DEF hit, Decided
    <3> QED BY <3>2, DecisionKeeps
  <2>8. /\ s \in Servers /\ s.out = "" /\ s.granted = Nobody /\ s.perms = Nobody
        /\ s.cache = cache /\ s.said = said /\ s.pc = "loop"
    BY <1>1, <1>3, <2>5, <2>7 DEF Servers, Fresh
  <2> HIDE DEF Decided, hit
  <2>9. ASSUME NEW t, t.cache = cache, t.said = said, sv'.cache = t.cache, sv'.said = t.said
        PROVE  CacheInv'
    BY <2>7, <2>9 DEF CacheInv
  <2>10. CASE m.sig = NoSig /\ e.ok /\ sv' = s /\ ToClient(<<PubKeyOk(m.key)>>)
    <3>1. toClient' = <<PubKeyOk(m.key)>>
      BY <1>2, <2>10, HeadsAndTails, Zenon DEF ToClient
    <3>2. Answered'
      <4>1. PICK p : p = PubKeyOk(m.key)
        OBVIOUS
      <4>2. p \in Verdicts' /\ Consistent(p)' /\ toClient' = <<p>>
        BY <1>2, <2>8, <2>10, <3>1, <4>1 DEF Verdicts, Consistent, PubKeyOk
      <4> QED BY <1>2, <4>2 DEF Answered
    <3>3. TurnsInv'
      BY <1>1, <1>2, <2>8, <2>10, <3>2 DEF TurnsInv
    <3>4. sv'.granted.method = ""
      BY <2>8, <2>10, NobodysMethod
    <3>5. AuthAgrees' /\ KeysAreProven'
      BY <1>1, <1>2, <2>8, <2>10, <3>4 DEF AuthAgrees, KeysAreProven
    <3>6. GrantInv'
      BY <1>1, <2>8, <2>10, <3>5 DEF GrantInv
    <3> QED BY <2>8, <2>9, <2>10, <3>3, <3>6
  <2>11. CASE Answer(s, FALSE, "publickey", m.key)
    <3>1. /\ sv' \in Servers /\ TurnsInv' /\ GrantInv' /\ sv'.cache = s.cache /\ sv'.said = s.said
      BY <1>1, <1>2, <1>4, <2>8, <2>11, AnswerKeeps
    <3> QED BY <2>8, <2>9, <3>1
  <2>12. CASE Refuse(s)
    <3>1. /\ sv' \in Servers /\ TurnsInv' /\ GrantInv' /\ sv'.cache = s.cache /\ sv'.said = s.said
      BY <1>1, <2>8, <2>12, RefuseKeeps
    <3> QED BY <2>8, <2>9, <3>1
  <2>13. CASE /\ Verified(m)
              /\ Answer([s EXCEPT !.perms = Allowed("publickey", m.key)],
                        e.ok, "publickey", m.key)
    <3>1. PICK perms, t : /\ perms = Allowed("publickey", m.key)
                          /\ t = [s EXCEPT !.perms = perms]
      OBVIOUS
    <3>2. perms \in Grants
      BY <1>2, <1>4, <3>1, GrantsTyped
    <3>3. /\ t \in Servers /\ t.out = "" /\ t.granted = Nobody /\ t.perms = perms
          /\ t.cache = cache /\ t.said = said
      BY <2>8, <3>1, <3>2 DEF Servers
    <3>4. Answer(t, e.ok, "publickey", m.key)
      BY <2>13, <3>1
    <3>5. m.key \in cl.signed
      BY <1>2, <2>13 DEF Verified
    <3>6. e.ok \in BOOLEAN /\ (e.ok => [key |-> m.key, ok |-> TRUE] \in said)
      BY <2>2, <2>4
    <3>7. e.ok => Due(t, "publickey", m.key)
      BY <1>6, <3>1, <3>3, <3>5, <3>6 DEF Due, Allowed
    <3>8. /\ sv' \in Servers /\ TurnsInv' /\ GrantInv' /\ sv'.cache = t.cache /\ sv'.said = t.said
      BY <1>1, <1>2, <1>4, <3>3, <3>4, <3>6, <3>7, AnswerKeeps
    <3> QED BY <2>9, <3>3, <3>8
  <2> QED BY <2>1, <2>6, <2>10, <2>11, <2>12, <2>13
<1> QED BY <1>5, <1>6

(* Every step of the server.                                               *)
LEMMA ServerKeeps ==
    ASSUME Typed, TurnsInv, GrantInv, CacheInv, ServerStep
    PROVE  Typed' /\ TurnsInv' /\ GrantInv' /\ CacheInv' /\ acfg' = acfg /\ cl' = cl
<1>1. acfg' = acfg /\ cl' = cl
  BY DEF ServerStep, ServiceRequest, ServeNone, ServePassword, ServeKeyboard, ServeAnswer,
         ServePublicKey, ServerEOF
<1> SUFFICES sv' \in Servers /\ TurnsInv' /\ GrantInv' /\ CacheInv'
  BY <1>1 DEF Typed
<1>2. CASE ServiceRequest
  <2>1. /\ sv.pc = "service" /\ toServer # <<>> /\ toServer' = Tail(toServer)
        /\ sv' = [sv EXCEPT !.pc = "loop"] /\ ToClient(<<Packet("accept")>>)
    BY <1>2 DEF ServiceRequest
  <2>2. cl.pc \in {"start", "accept", "try", "done"} \cup Asking
    BY DEF Typed, Clients
  <2>3. cl.pc = "accept" /\ toServer = <<Packet("service")>> /\ toClient = <<>> /\ cl.out = ""
    BY <2>1, <2>2 DEF TurnsInv, Asking, Quiet, Requested, Challenged, Answered
  <2>4. toServer' = <<>> /\ toClient' = <<Packet("accept")>>
    BY <2>1, <2>3, HeadsAndTails, Zenon DEF ToClient
  <2>5. /\ sv' \in Servers /\ sv'.pc = "loop" /\ sv'.out = sv.out /\ sv'.granted = sv.granted
        /\ sv'.cache = sv.cache /\ sv'.said = sv.said /\ sv'.perms = sv.perms
    BY <2>1 DEF Typed, Servers
  <2>6. TurnsInv'
    BY <1>1, <2>3, <2>4, <2>5 DEF TurnsInv
  <2>7. GrantInv'
    BY <1>1, <2>1, <2>5 DEF GrantInv, AuthAgrees, KeysAreProven
  <2> QED BY <2>5, <2>6, <2>7, SameCache
<1>3. CASE ServerEOF
  <2>1. /\ sv.pc \in {"service", "loop", "challenge"} /\ cl.out = "failed"
        /\ sv' = [sv EXCEPT !.pc = "done", !.out = "failed"]
        /\ toServer' = toServer /\ toClient' = toClient
    BY <1>3 DEF ServerEOF
  <2>2. cl.pc = "done" /\ sv.out = "" /\ sv.granted = Nobody
    BY <2>1 DEF TurnsInv, GrantInv, Typed, Servers
  <2>3. /\ sv' \in Servers /\ sv'.pc = "done" /\ sv'.out = "failed" /\ sv'.granted = Nobody
        /\ sv'.cache = sv.cache /\ sv'.said = sv.said
    BY <2>1, <2>2 DEF Typed, Servers
  <2>4. Verdicts' = Verdicts
    BY <1>1 DEF Verdicts
  <2>5. TurnsInv'
    BY <1>1, <2>1, <2>2, <2>4 DEF TurnsInv
  <2>6. sv'.granted.method = ""
    BY <2>3, NobodysMethod
  <2>7. AuthAgrees' /\ KeysAreProven'
    BY <1>1, <2>1, <2>3, <2>6 DEF AuthAgrees, KeysAreProven
  <2>8. GrantInv'
    BY <2>3, <2>7 DEF GrantInv
  <2> QED BY <2>3, <2>5, <2>8, SameCache
<1> QED BY <1>2, <1>3, ServeNoneKeeps, ServePasswordKeeps, ServeKeyboardKeeps, ServeAnswerKeeps,
           ServePublicKeyKeeps DEF ServerStep

-----------------------------------------------------------------------------
(* A step that leaves authentication alone.                                *)
LEMMA AuthStutters ==
    ASSUME AuthInv, UNCHANGED authVars
    PROVE  AuthInv'
<1>1. acfg' = acfg /\ cl' = cl /\ sv' = sv /\ toServer' = toServer /\ toClient' = toClient
  BY DEF authVars
<1>2. Typed' /\ CacheInv'
  BY <1>1 DEF AuthInv, Typed, CacheInv
<1>3. TurnsInv'
  BY <1>1 DEF AuthInv, TurnsInv, Quiet, Requested, Owned, Challenged, Answered, Verdicts, Consistent
<1>4. TriesInv'
  BY <1>1, SameEntry DEF AuthInv
<1>5. GrantInv'
  BY <1>1 DEF AuthInv, GrantInv, AuthAgrees, KeysAreProven
<1> QED BY <1>2, <1>3, <1>4, <1>5 DEF AuthInv

(* The server that reads a packet of a multiplexer gives up.               *)
LEMMA StrayKeeps ==
    ASSUME AuthInv, AloneInv, StrayPacket, acfg' = acfg, cl' = cl
    PROVE  AuthInv'
<1>1. /\ sv.pc \in {"service", "loop"} /\ sv' = [sv EXCEPT !.pc = "done", !.out = "failed"]
      /\ toServer' = toServer /\ toClient' = toClient
  BY DEF StrayPacket
<1>2. sv.out = "" /\ sv.granted = Nobody /\ cl.out # "ok"
  BY <1>1 DEF AuthInv, GrantInv, TurnsInv
<1>3. /\ sv' \in Servers /\ sv'.pc = "done" /\ sv'.out = "failed" /\ sv'.granted = Nobody
      /\ sv'.cache = sv.cache /\ sv'.said = sv.said
  BY <1>1, <1>2 DEF AuthInv, Typed, Servers
<1>4. cl.pc = "done"
  BY DEF StrayPacket, AloneInv, AuthInv, TurnsInv
<1>5. Verdicts' = Verdicts
  BY DEF Verdicts
<1>6. TurnsInv'
  BY <1>1, <1>2, <1>4, <1>5 DEF AuthInv, TurnsInv
<1>7. sv'.granted.method = ""
  BY <1>3, NobodysMethod
<1>8. AuthAgrees' /\ KeysAreProven'
  BY <1>2, <1>3, <1>7 DEF AuthAgrees, KeysAreProven
<1>9. GrantInv'
  BY <1>3, <1>8 DEF GrantInv
<1>10. TriesInv'
  BY SameEntry DEF AuthInv
<1>11. Typed' /\ CacheInv'
  BY <1>3, SameCache DEF AuthInv, Typed
<1> QED BY <1>6, <1>9, <1>10, <1>11 DEF AuthInv

LEMMA AuthInductive ==
    ASSUME AuthInv, AloneInv, [Next]_vars
    PROVE  AuthInv' /\ AloneInv'
<1>0. AloneInv'
  BY DEF AloneInv, Next, Authenticate, newMux, StrayPacket, Multiplex, authVars, vars
<1> SUFFICES AuthInv'
  BY <1>0
<1>1. CASE ClientStep
  <2>1. /\ Typed' /\ TurnsInv' /\ TriesInv' /\ acfg' = acfg /\ sv' = sv
        /\ cl.signed \subseteq cl'.signed
    BY <1>1, ClientKeeps DEF AuthInv
  <2>2. CacheInv'
    BY <2>1, SameCache DEF AuthInv
  <2>3. GrantInv'
    BY <2>1 DEF AuthInv, GrantInv, AuthAgrees, KeysAreProven, TurnsInv
  <2> QED BY <2>1, <2>2, <2>3 DEF AuthInv
<1>2. CASE ServerStep
  <2>1. Typed' /\ TurnsInv' /\ GrantInv' /\ CacheInv' /\ acfg' = acfg /\ cl' = cl
    BY <1>2, ServerKeeps DEF AuthInv
  <2>2. TriesInv'
    BY <2>1, SameEntry DEF AuthInv
  <2> QED BY <2>1, <2>2 DEF AuthInv
<1>3. CASE UNCHANGED authVars
  BY <1>3, AuthStutters
<1>4. ClientStep \/ ServerStep \/ UNCHANGED authVars \/ (StrayPacket /\ acfg' = acfg /\ cl' = cl)
  BY DEF Next, Authenticate, newMux, StrayPacket, Multiplex, AuthNext, ClientStep, ServerStep,
         authVars, vars
<1> QED BY <1>1, <1>2, <1>3, <1>4, StrayKeeps

LEMMA InvIsSound == ASSUME AuthInv PROVE AuthSound
<1>1. AuthTypeOK
  <2>1. cl.i \in 0 .. Len(acfg.Auth)
    BY ClientFields, Configured DEF AuthInv, TriesInv, EntryInv
  <2>2. /\ cl.tried \subseteq Methods \cup {"none"}
        /\ cl.out \in {"", "ok", "failed", "skipped", "logged"} /\ sv.out \in {"", "ok", "failed"}
    BY DEF AuthInv, Typed, Clients, Servers, AnyMethod
  <2>3. Len(toServer) <= 1 /\ Len(toClient) <= 2
    <3>1. cl.pc \in {"start", "accept", "try", "done"} \cup Asking
      BY DEF AuthInv, Typed, Clients
    <3>2. /\ toServer = <<>> \/ \E a : toServer = <<a>>
          /\ toClient = <<>> \/ (\E a : toClient = <<a>>) \/ \E a, b : toClient = <<a, b>>
      <4>1. CASE cl.pc \in {"start", "try", "query", "sign"}
        BY <4>1 DEF AuthInv, TurnsInv, Quiet
      <4>2. CASE cl.pc = "accept"
        BY <4>2 DEF AuthInv, TurnsInv
      <4>3. CASE cl.pc = "done"
        BY <4>3 DEF AuthInv, TurnsInv
      <4>4. CASE cl.pc \in {"ack", "reply"}
        <5>1. Requested \/ Challenged \/ Answered \/ Quiet
          BY <4>4 DEF AuthInv, TurnsInv
        <5> QED BY <5>1, Zenon DEF Requested, Challenged, Answered, Quiet
      <4> QED BY <3>1, <4>1, <4>2, <4>3, <4>4 DEF Asking
    <3> QED BY <3>2, Lengths, Zenon
  <2> QED BY <2>1, <2>2, <2>3 DEF AuthTypeOK
<1>2. DecisionsStand
  BY DEF AuthInv, CacheInv, Remembers, DecisionsStand
<1> QED BY <1>1, <1>2 DEF AuthInv, GrantInv, TriesInv, AuthSound

(* Every invariant of authentication that the runs check holds for every   *)
(* configuration of the two ends, however long the list of methods, their  *)
(* retries and the list of keys, and whatever the callbacks answer.        *)
THEOREM AuthenticationSound == Spec => []AuthSound
<1>1. Init => AloneInv
  BY DEF Init, AloneInv
<1>2. Spec => [](AuthInv /\ AloneInv)
  BY <1>1, Initially, AuthInductive, PTL DEF Spec
<1> QED BY <1>2, InvIsSound, PTL

-----------------------------------------------------------------------------
(* The multiplexers.                                                       *)

(* The types of a channel and of a multiplexer.                            *)
Answers == {"confirm", "reject", "reply"}
Channels ==
    [dir : {"in", "out"}, local : Nat, remote : Nat, decided : BOOLEAN,
     state : {"opening", "open", "failed", "rejected"}, maxIncoming : BOOLEAN,
     sentEOF : BOOLEAN, sentClose : BOOLEAN,
     remoteWin : Nat, winClosed : BOOLEAN, granted : Nat, spent : Nat,
     myWindow : Nat, pending : Nat, eof : BOOLEAN,
     msg : Seq(Answers), closed : BOOLEAN, requests : Seq({"request"}),
     writer : {"idle", "send", "failed"}, hold : Nat, sent : Nat,
     reader : {"idle", "credit", "adjust"}, taken : Nat, read : Nat, sawEOF : BOOLEAN,
     asking : BOOLEAN, asked : Nat]
LoopErrors == {"", "eof", "invalid channel", "data", "response", "window"}
Muxes ==
    [loop : {"run", "drop", "close", "done"}, err : LoopErrors, open : BOOLEAN, panic : BOOLEAN,
     chanList : Seq(Nat), incoming : Seq(Nat), requests : Seq({"global"}),
     responses : Seq({"globalReply"}),
     opened : Nat, asking : BOOLEAN, asked : Nat]

(* The books of a channel: its remote window has not wrapped, what it      *)
(* advertised is in the window, pending or in a reader's hands, and the    *)
(* peer has a number for it only once it answered.                         *)
InHands(c) == IF c.reader = "credit" THEN c.taken ELSE 0
Books(c) ==
    /\ c.remoteWin + c.spent = c.granted /\ c.remoteWin < WindowMod
    /\ c.myWindow + c.pending + InHands(c) = WindowSize
    /\ c.dir = "out" /\ ~c.decided => c.remote = 0
Refused(c) == c.dir = "out" /\ c.decided /\ c.remote = 0

(* A slot holds a live channel that knows the slot, the channels offered   *)
(* to the user are the peer's, and a channel without a slot is closed or   *)
(* was refused.                                                            *)
SlotsKnown(list, objs) ==
    \A i \in DOMAIN list : list[i] # 0 =>
      list[i] \in DOMAIN objs /\ objs[list[i]].local = i /\ ~objs[list[i]].closed
OffersAreIn(incoming, objs) ==
    \A k \in DOMAIN incoming : incoming[k] \in DOMAIN objs /\ objs[incoming[k]].dir = "in"
GoneAreDone(list, objs) ==
    \A o \in DOMAIN objs :
      (\A i \in DOMAIN list : list[i] # o) => objs[o].closed \/ Refused(objs[o])

EndOK(m, objs) ==
    /\ ~m.panic /\ Len(m.responses) <= 1
    /\ \A o \in DOMAIN objs : Books(objs[o])
    /\ SlotsKnown(m.chanList, objs) /\ GoneAreDone(m.chanList, objs)
    /\ OffersAreIn(m.incoming, objs)

Types == ChannelPackets \cup {"open", "oddOpen", "global", "globalReply"}
Wires == [End -> Seq(Packets)]
MuxInv ==
    /\ plan \in Scenario /\ rogue \in Seq(Packets) /\ wire \in Wires
    /\ mx \in [End -> Muxes] /\ ch \in [End -> Seq(Channels)]
    /\ \A s \in End : EndOK(mx[s], ch[s])

-----------------------------------------------------------------------------
(* What a step may do to a channel that stays in its slot.                 *)
Goes(c, d) ==
    /\ d \in Channels /\ Books(d)
    /\ d.dir = c.dir /\ d.local = c.local /\ (d.closed <=> c.closed)
    /\ Refused(c) => Refused(d)

LEMMA SetOne ==
    ASSUME NEW S, NEW q \in Seq(S), NEW o \in DOMAIN q, NEW x \in S
    PROVE  /\ [q EXCEPT ![o] = x] \in Seq(S)
           /\ DOMAIN [q EXCEPT ![o] = x] = DOMAIN q
           /\ \A p \in DOMAIN q : [q EXCEPT ![o] = x][p] = IF p = o THEN x ELSE q[p]
OBVIOUS

LEMMA OneChannel ==
    ASSUME NEW m, NEW objs \in Seq(Channels), EndOK(m, objs), NEW o \in DOMAIN objs,
           NEW d, Goes(objs[o], d)
    PROVE  /\ [objs EXCEPT ![o] = d] \in Seq(Channels)
           /\ EndOK(m, [objs EXCEPT ![o] = d])
<1>1. PICK q : q = [objs EXCEPT ![o] = d]
  OBVIOUS
<1>2. /\ q \in Seq(Channels) /\ DOMAIN q = DOMAIN objs
      /\ q[o] = d /\ \A p \in DOMAIN objs : p # o => q[p] = objs[p]
  BY <1>1, SetOne DEF Goes
<1>3. \A p \in DOMAIN q : Books(q[p])
  BY <1>2 DEF Goes, EndOK
<1>4. \A p \in DOMAIN q : /\ q[p].dir = objs[p].dir /\ q[p].local = objs[p].local
                          /\ q[p].closed <=> objs[p].closed
                          /\ Refused(objs[p]) => Refused(q[p])
  BY <1>2 DEF Goes
<1>5. SlotsKnown(m.chanList, q)
  BY <1>2, <1>4 DEF EndOK, SlotsKnown
<1>6. OffersAreIn(m.incoming, q)
  BY <1>2, <1>4 DEF EndOK, OffersAreIn
<1>7. GoneAreDone(m.chanList, q)
  BY <1>2, <1>4 DEF EndOK, GoneAreDone
<1> QED BY <1>1, <1>2, <1>3, <1>5, <1>6, <1>7 DEF EndOK

(* A step of one end.                                                      *)
LEMMA EndStep ==
    ASSUME MuxInv, NEW s \in End, NEW m \in Muxes, NEW objs \in Seq(Channels), EndOK(m, objs),
           mx' = [mx EXCEPT ![s] = m], ch' = [ch EXCEPT ![s] = objs],
           wire' \in Wires, plan' = plan, rogue' = rogue
    PROVE  MuxInv'
<1>1. mx' \in [End -> Muxes] /\ ch' \in [End -> Seq(Channels)]
  BY DEF MuxInv
<1>2. \A t \in End : EndOK(mx'[t], ch'[t])
  <2>1. mx'[s] = m /\ ch'[s] = objs
    BY DEF MuxInv
  <2>2. \A t \in End : t # s => mx'[t] = mx[t] /\ ch'[t] = ch[t]
    BY DEF MuxInv
  <2> QED BY <2>1, <2>2 DEF MuxInv
<1> QED BY <1>1, <1>2 DEF MuxInv

LEMMA ChannelStep ==
    ASSUME MuxInv, NEW s \in End, NEW o \in Obj(s), NEW d, SetCh(s, o, d), Goes(ch[s][o], d),
           mx' = mx, wire' \in Wires, plan' = plan, rogue' = rogue
    PROVE  MuxInv'
<1>1. PICK objs : objs = [ch[s] EXCEPT ![o] = d]
  OBVIOUS
<1>2. ch' = [ch EXCEPT ![s] = objs]
  BY <1>1 DEF SetCh, MuxInv
<1>3. ch[s] \in Seq(Channels) /\ EndOK(mx[s], ch[s]) /\ mx[s] \in Muxes
  BY DEF MuxInv
<1>4. objs \in Seq(Channels) /\ EndOK(mx[s], objs)
  BY <1>1, <1>3, OneChannel DEF Obj
<1>5. mx' = [mx EXCEPT ![s] = mx[s]]
  BY DEF MuxInv
<1> QED BY <1>2, <1>3, <1>4, <1>5, EndStep

LEMMA MuxStep ==
    ASSUME MuxInv, NEW s \in End, NEW m \in Muxes, SetMx(s, m), EndOK(m, ch[s]), ch' = ch,
           wire' \in Wires, plan' = plan, rogue' = rogue
    PROVE  MuxInv'
<1>1. ch' = [ch EXCEPT ![s] = ch[s]] /\ ch[s] \in Seq(Channels)
  BY DEF MuxInv
<1> QED BY <1>1, EndStep DEF SetMx

(* What is put on the wire and taken from it.                              *)
LEMMA Sending ==
    ASSUME MuxInv, NEW s \in End, NEW m \in Packets, NEW c, Send(s, m) \/ ChanSend(s, c, m)
    PROVE  wire' \in Wires
<1>1. wire' = wire \/ wire' = [wire EXCEPT ![s] = Append(@, m)]
  BY DEF Send, ChanSend
<1>2. Append(wire[s], m) \in Seq(Packets)
  BY DEF MuxInv, Wires
<1> QED BY <1>1, <1>2 DEF MuxInv, Wires

LEMMA Others == ASSUME NEW s \in End PROVE Other(s) \in End /\ Other(s) # s
BY DEF Other, End

LEMMA Reading ==
    ASSUME MuxInv, NEW s \in End, Inbox(s) # <<>>
    PROVE  /\ Read(s) => wire' \in Wires
           /\ Head(Inbox(s)) \in Packets
           /\ Tail(Inbox(s)) \in Seq(Packets)
<1>1. wire[Other(s)] \in Seq(Packets)
  BY Others DEF MuxInv, Wires
<1>2. Head(wire[Other(s)]) \in Packets /\ Tail(wire[Other(s)]) \in Seq(Packets)
  BY <1>1 DEF Inbox
<1> QED BY <1>1, <1>2, Others DEF MuxInv, Wires, Read, Inbox

LEMMA Made ==
    ASSUME NEW t \in Types, NEW i \in Nat, NEW f \in Nat, NEW n \in Nat
    PROVE  Msg(t, i, f, n) \in Packets
BY DEF Msg, Packets, Types

LEMMA Arithmetic ==
    ASSUME NEW M \in Nat, M > 0, NEW r \in Nat, r < M, NEW n \in Nat, ~((r + n) % M < n)
    PROVE  (r + n) % M = r + n /\ r + n < M
<1>1. (r + n) % M \in 0 .. M - 1
  OBVIOUS
<1>2. n < M
  BY <1>1
<1>3. CASE r + n < M
  BY <1>3
<1>4. CASE r + n >= M
  <2>1. r + n - M \in 0 .. M - 1
    BY <1>2, <1>4
  <2>2. (r + n) % M = r + n - M
    BY <2>1
  <2> QED BY <2>2
<1> QED BY <1>3, <1>4

LEMMA Windows ==
    ASSUME NEW c \in Channels, Books(c), NEW n \in Nat
    PROVE  Goes(c, Added(c, n)) /\ Added(c, n).decided = c.decided /\ Added(c, n).remote = c.remote
           /\ Added(c, n).closed = c.closed /\ Added(c, n).msg = c.msg
<1>1. CASE n = 0 \/ Wraps(c, n)
  BY <1>1 DEF Added, Goes
<1>2. CASE ~(n = 0 \/ Wraps(c, n))
  <2>1. PICK w : w = (c.remoteWin + n) % WindowMod
    OBVIOUS
  <2>2. c.remoteWin \in Nat /\ c.granted \in Nat /\ c.spent \in Nat /\ c.remoteWin < WindowMod
    BY DEF Channels, InHands, Books
  <2>3. w = c.remoteWin + n /\ w < WindowMod
    BY <1>2, <2>1, <2>2, Arithmetic, MuxAssumption DEF Wraps
  <2>4. PICK g, d : g = c.granted + n /\ d = [c EXCEPT !.remoteWin = w, !.granted = g]
    OBVIOUS
  <2>5. Added(c, n) = d
    BY <1>2, <2>1, <2>4 DEF Added
  <2>6. d \in Channels
    <3>1. w \in Nat /\ g \in Nat
      BY <2>2, <2>3, <2>4
    <3> QED BY <2>4, <3>1 DEF Channels
  <2>7. /\ d.remoteWin = w /\ d.granted = g /\ d.spent = c.spent
        /\ d.dir = c.dir /\ d.local = c.local /\ d.closed = c.closed /\ d.decided = c.decided
        /\ InHands(d) = InHands(c)
        /\ d.remote = c.remote /\ d.myWindow = c.myWindow /\ d.pending = c.pending /\ d.msg = c.msg
    BY <2>4 DEF Channels, InHands
  <2>8. Books(d)
    BY <2>2, <2>3, <2>4, <2>7 DEF Books
  <2> QED BY <2>5, <2>6, <2>7, <2>8 DEF Goes, Refused
<1> QED BY <1>1, <1>2

LEMMA ChanFields ==
    ASSUME NEW c \in Channels
    PROVE  /\ c.local \in Nat /\ c.remote \in Nat /\ c.hold \in Nat /\ c.taken \in Nat
           /\ c.sent \in Nat /\ c.asked \in Nat /\ c.myWindow \in Nat /\ c.remoteWin \in Nat
BY DEF Channels

LEMMA HandsFacts == ASSUME NEW c \in Channels PROVE InHands(c) \in Nat
BY DEF Channels, InHands

LEMMA ChanQueues ==
    ASSUME NEW c \in Channels
    PROVE  /\ c.msg \in Seq(Answers) /\ c.requests \in Seq({"request"})
           /\ c.msg # <<>> => Tail(c.msg) \in Seq(Answers)
           /\ c.requests # <<>> => Tail(c.requests) \in Seq({"request"})
<1>1. c.msg \in Seq(Answers) /\ c.requests \in Seq({"request"})
  BY DEF Channels
<1> QED BY <1>1

LEMMA Says ==
    ASSUME NEW c \in Channels, NEW t \in Types, NEW f \in Nat, NEW n \in Nat
    PROVE  Msg(t, c.remote, f, n) \in Packets
<1>1. c.remote \in Nat
  BY ChanFields
<1> QED BY <1>1, Made

LEMMA ChanFacts ==
    ASSUME MuxInv, NEW s \in End, NEW o \in Obj(s)
    PROVE  ch[s][o] \in Channels /\ Books(ch[s][o])
<1>1. ch[s] \in Seq(Channels) /\ EndOK(mx[s], ch[s])
  BY DEF MuxInv
<1> QED BY <1>1 DEF Obj, EndOK

(* Updates that leave the books and the slot alone.                        *)
Untouched(c, d) ==
    /\ d.dir = c.dir /\ d.local = c.local /\ d.closed = c.closed /\ d.decided = c.decided
    /\ InHands(d) = InHands(c)
    /\ d.remote = c.remote /\ d.myWindow = c.myWindow /\ d.pending = c.pending
    /\ d.remoteWin = c.remoteWin /\ d.spent = c.spent /\ d.granted = c.granted

LEMMA UntouchedGoes ==
    ASSUME NEW c \in Channels, Books(c), NEW d \in Channels, Untouched(c, d)
    PROVE  Goes(c, d)
BY DEF Untouched, Books, Goes, Refused

LEMMA OpenedKeeps ==
    ASSUME MuxInv, NEW s \in End, NEW o \in Obj(s), Opened(s, o)
    PROVE  MuxInv'
<1>1. PICK c : c = ch[s][o]
  OBVIOUS
<1>2. c \in Channels /\ Books(c)
  BY <1>1, ChanFacts
<1>3. PICK d : /\ SetCh(s, o, d)
               /\ \/ /\ c.msg # <<>>
                     /\ d = [c EXCEPT !.msg = Tail(@),
                               !.state = IF Head(c.msg) = "confirm" THEN "open" ELSE "failed"]
                  \/ d = [c EXCEPT !.state = "failed"]
  BY <1>1 DEF Opened
<1>4. PICK q : q = IF c.msg # <<>> THEN Tail(c.msg) ELSE c.msg
  OBVIOUS
<1>5. PICK st : /\ st \in {"opening", "open", "failed", "rejected"}
                /\ d = [c EXCEPT !.state = st] \/ d = [c EXCEPT !.msg = q, !.state = st]
  BY <1>3, <1>4
<1>6. d \in Channels /\ Untouched(c, d)
  <2>1. q \in Seq(Answers)
    BY <1>2, <1>4, ChanQueues
  <2>2. CASE d = [c EXCEPT !.state = st]
    BY <1>2, <1>5, <2>2 DEF Channels, InHands, Untouched
  <2>3. CASE d = [c EXCEPT !.msg = q, !.state = st]
    <3>1. d \in Channels
      BY <1>2, <1>5, <2>1, <2>3 DEF Channels
    <3>2. Untouched(c, d)
      BY <1>2, <2>3 DEF Channels, Untouched, InHands
    <3> QED BY <3>1, <3>2
  <2> QED BY <1>5, <2>2, <2>3
<1> QED BY <1>1, <1>2, <1>3, <1>6, UntouchedGoes, ChannelStep DEF Opened, MuxInv

LEMMA ReserveKeeps ==
    ASSUME MuxInv, NEW s \in End, NEW o \in Obj(s), Reserve(s, o)
    PROVE  MuxInv'
<1>1. PICK c : c = ch[s][o]
  OBVIOUS
<1>2. c \in Channels /\ Books(c)
  BY <1>1, ChanFacts
<1>3. PICK n, h, w, d :
        /\ n = IF c.remoteWin < plan.data[s] - c.sent THEN c.remoteWin ELSE plan.data[s] - c.sent
        /\ h = IF c.winClosed THEN 0 ELSE n
        /\ w = IF c.winClosed THEN "failed" ELSE "send"
        /\ d = [c EXCEPT !.remoteWin = @ - n, !.spent = @ + n, !.hold = h, !.writer = w]
        /\ SetCh(s, o, d)
  BY <1>1 DEF Reserve
<1>4. /\ c.remoteWin \in Nat /\ c.spent \in Nat /\ c.granted \in Nat /\ c.sent \in Nat
      /\ plan.data[s] \in Nat
  BY <1>2 DEF Channels, MuxInv, Scenario
<1>5. n \in Nat /\ n <= c.remoteWin
  BY <1>1, <1>3, <1>4 DEF Reserve
<1>6. h \in Nat /\ w \in {"idle", "send", "failed"}
  BY <1>3, <1>5
<1>7. PICK r, p : r = c.remoteWin - n /\ p = c.spent + n
  OBVIOUS
<1>8. d = [c EXCEPT !.remoteWin = r, !.spent = p, !.hold = h, !.writer = w]
  BY <1>3, <1>7
<1>9. /\ d \in Channels /\ d.remoteWin = r /\ d.spent = p /\ d.granted = c.granted
      /\ d.dir = c.dir /\ d.local = c.local /\ d.closed = c.closed /\ d.decided = c.decided
      /\ InHands(d) = InHands(c)
      /\ d.remote = c.remote /\ d.myWindow = c.myWindow /\ d.pending = c.pending
  <2>1. r \in Nat /\ p \in Nat
    BY <1>4, <1>5, <1>7
  <2>2. d \in Channels
    BY <1>2, <1>6, <1>8, <2>1 DEF Channels, InHands
  <2> QED BY <1>2, <1>8, <2>2 DEF Channels, InHands
<1>10. Books(d)
  BY <1>2, <1>4, <1>5, <1>7, <1>9, HandsFacts, MuxAssumption DEF Books
<1>11. Goes(c, d)
  BY <1>9, <1>10 DEF Goes, Refused
<1> QED BY <1>1, <1>3, <1>11, ChannelStep DEF Reserve, MuxInv

LEMMA WriteExtendedKeeps ==
    ASSUME MuxInv, NEW s \in End, NEW o \in Obj(s), WriteExtended(s, o)
    PROVE  MuxInv'
<1>1. PICK c : c = ch[s][o]
  OBVIOUS
<1>2. c \in Channels /\ Books(c)
  BY <1>1, ChanFacts
<1>3. PICK n, w, d :
        /\ n = IF CanSend(c) /\ mx[s].open THEN c.sent + c.hold ELSE c.sent
        /\ w = IF CanSend(c) /\ mx[s].open THEN "idle" ELSE "failed"
        /\ d = [c EXCEPT !.hold = 0, !.sent = n, !.writer = w]
        /\ SetCh(s, o, d)
  BY <1>1 DEF WriteExtended
<1>4. n \in Nat /\ w \in {"idle", "send", "failed"}
  BY <1>2, <1>3, ChanFields
<1>5. d \in Channels /\ Untouched(c, d)
  <2>1. d = [c EXCEPT !.hold = 0, !.sent = n, !.writer = w]
    BY <1>3
  <2>2. d \in Channels
    BY <1>2, <1>4, <2>1 DEF Channels
  <2>3. Untouched(c, d)
    BY <1>2, <2>1 DEF Channels, Untouched, InHands
  <2> QED BY <2>2, <2>3
<1>6. wire' \in Wires
  <2>1. Msg("data", c.remote, 0, c.hold) \in Packets
    BY <1>2, ChanFields, Says DEF Types, ChannelPackets
  <2> QED BY <1>1, <2>1, Sending DEF WriteExtended
<1> QED BY <1>1, <1>2, <1>3, <1>5, <1>6, UntouchedGoes, ChannelStep DEF WriteExtended

LEMMA CloseWriteKeeps ==
    ASSUME MuxInv, NEW s \in End, NEW o \in Obj(s), CloseWrite(s, o)
    PROVE  MuxInv'
<1>1. PICK c, d : c = ch[s][o] /\ d = [c EXCEPT !.sentEOF = TRUE] /\ SetCh(s, o, d)
  BY DEF CloseWrite
<1>2. c \in Channels /\ Books(c)
  BY <1>1, ChanFacts
<1>3. d \in Channels /\ Untouched(c, d)
  BY <1>1, <1>2 DEF Channels, Untouched, InHands
<1>4. wire' \in Wires
  <2>1. Msg("eof", c.remote, 0, 0) \in Packets
    BY <1>2, Says DEF Types, ChannelPackets
  <2> QED BY <1>1, <2>1, Sending DEF CloseWrite
<1> QED BY <1>1, <1>2, <1>3, <1>4, UntouchedGoes, ChannelStep DEF CloseWrite

LEMMA CloseChannelKeeps ==
    ASSUME MuxInv, NEW s \in End, NEW o \in Obj(s), CloseChannel(s, o)
    PROVE  MuxInv'
<1>1. PICK c, d : c = ch[s][o] /\ d = [c EXCEPT !.sentClose = TRUE] /\ SetCh(s, o, d)
  BY DEF CloseChannel
<1>2. c \in Channels /\ Books(c)
  BY <1>1, ChanFacts
<1>3. d \in Channels /\ Untouched(c, d)
  BY <1>1, <1>2 DEF Channels, Untouched, InHands
<1>4. wire' \in Wires
  <2>1. Msg("close", c.remote, 0, 0) \in Packets
    BY <1>2, Says DEF Types, ChannelPackets
  <2> QED BY <1>1, <2>1, Sending DEF CloseChannel
<1> QED BY <1>1, <1>2, <1>3, <1>4, UntouchedGoes, ChannelStep DEF CloseChannel

LEMMA ReadExtendedKeeps ==
    ASSUME MuxInv, NEW s \in End, NEW o \in Obj(s), ReadExtended(s, o)
    PROVE  MuxInv'
<1>1. PICK c, d :
        /\ c = ch[s][o] /\ SetCh(s, o, d) /\ c.reader = "idle"
        /\ \/ d = [c EXCEPT !.pending = 0, !.taken = c.pending, !.read = @ + c.pending,
                     !.reader = "credit"]
           \/ d = [c EXCEPT !.sawEOF = TRUE]
  BY DEF ReadExtended
<1>2. c \in Channels /\ Books(c)
  BY <1>1, ChanFacts
<1>3. CASE d = [c EXCEPT !.sawEOF = TRUE]
  <2>1. d \in Channels /\ Untouched(c, d)
    BY <1>2, <1>3 DEF Channels, Untouched, InHands
  <2> QED BY <1>1, <1>2, <2>1, UntouchedGoes, ChannelStep DEF ReadExtended, MuxInv
<1>4. CASE d = [c EXCEPT !.pending = 0, !.taken = c.pending, !.read = @ + c.pending,
                  !.reader = "credit"]
  <2>1. c.pending \in Nat /\ c.read \in Nat /\ c.myWindow \in Nat /\ InHands(c) = 0
    BY <1>1, <1>2 DEF Channels, InHands
  <2>2. PICK p, r : p = c.pending /\ r = c.read + c.pending
    OBVIOUS
  <2>3. d = [c EXCEPT !.pending = 0, !.taken = p, !.read = r, !.reader = "credit"]
    BY <1>4, <2>2
  <2>4. /\ d \in Channels /\ d.remoteWin = c.remoteWin /\ d.spent = c.spent /\ d.granted = c.granted
        /\ d.dir = c.dir /\ d.local = c.local /\ d.closed = c.closed /\ d.decided = c.decided
        /\ d.remote = c.remote /\ d.myWindow = c.myWindow /\ d.pending = 0 /\ InHands(d) = p
    <3>1. p \in Nat /\ r \in Nat
      BY <2>1, <2>2
    <3>2. d \in Channels
      BY <1>2, <2>3, <3>1 DEF Channels
    <3> QED BY <1>2, <2>3, <3>2 DEF Channels, InHands
  <2>5. Books(d)
    BY <1>2, <2>1, <2>2, <2>4, MuxAssumption DEF Books
  <2>6. Goes(c, d)
    BY <2>4, <2>5 DEF Goes, Refused
  <2> QED BY <1>1, <2>6, ChannelStep DEF ReadExtended, MuxInv
<1> QED BY <1>1, <1>3, <1>4

LEMMA creditWindowKeeps ==
    ASSUME MuxInv, NEW s \in End, NEW o \in Obj(s), creditWindow(s, o)
    PROVE  MuxInv'
<1>1. PICK c : c = ch[s][o] /\ c.reader = "credit"
  BY DEF creditWindow
<1>2. c \in Channels /\ Books(c)
  BY <1>1, ChanFacts
<1>3. PICK w, d : /\ w = c.myWindow + c.taken /\ SetCh(s, o, d)
                  /\ d = [c EXCEPT !.myWindow = w, !.reader = "adjust"]
  BY <1>1 DEF creditWindow
<1>4. c.myWindow \in Nat /\ c.taken \in Nat /\ c.pending \in Nat /\ w \in Nat /\ InHands(c) = c.taken
  <2>1. c.myWindow \in Nat /\ c.taken \in Nat /\ c.pending \in Nat
    BY <1>2 DEF Channels
  <2> QED BY <1>1, <1>3, <2>1 DEF InHands
<1>5. d \in Channels
  BY <1>2, <1>3, <1>4 DEF Channels
<1>6. /\ d.remoteWin = c.remoteWin /\ d.spent = c.spent /\ d.granted = c.granted
      /\ d.dir = c.dir /\ d.local = c.local /\ d.closed = c.closed /\ d.decided = c.decided
      /\ d.remote = c.remote /\ d.myWindow = w /\ d.pending = c.pending /\ InHands(d) = 0
  BY <1>2, <1>3 DEF Channels, InHands
<1>7. Books(d)
  BY <1>2, <1>3, <1>4, <1>6, MuxAssumption DEF Books
<1>8. Goes(c, d)
  BY <1>5, <1>6, <1>7 DEF Goes, Refused
<1> QED BY <1>1, <1>3, <1>8, ChannelStep DEF creditWindow, MuxInv

LEMMA adjustWindowKeeps ==
    ASSUME MuxInv, NEW s \in End, NEW o \in Obj(s), adjustWindow(s, o)
    PROVE  MuxInv'
<1>1. PICK c, d : /\ c = ch[s][o] /\ c.reader = "adjust"
                  /\ d = [c EXCEPT !.taken = 0, !.reader = "idle"] /\ SetCh(s, o, d)
  BY DEF adjustWindow
<1>2. c \in Channels /\ Books(c)
  BY <1>1, ChanFacts
<1>3. d \in Channels /\ Untouched(c, d)
  BY <1>1, <1>2 DEF Channels, Untouched, InHands
<1>4. wire' \in Wires
  <2>1. Msg("adjust", c.remote, 0, c.taken) \in Packets
    BY <1>2, ChanFields, Says DEF Types, ChannelPackets
  <2> QED BY <1>1, <2>1, Sending DEF adjustWindow
<1> QED BY <1>1, <1>2, <1>3, <1>4, UntouchedGoes, ChannelStep DEF adjustWindow

LEMMA SendRequestKeeps ==
    ASSUME MuxInv, NEW s \in End, NEW o \in Obj(s), SendRequest(s, o)
    PROVE  MuxInv'
<1>1. PICK c, a, n, d : /\ c = ch[s][o] /\ a = (CanSend(c) /\ mx[s].open) /\ n = c.asked + 1
                        /\ d = [c EXCEPT !.asked = n, !.asking = a] /\ SetCh(s, o, d)
  BY DEF SendRequest
<1>2. c \in Channels /\ Books(c)
  BY <1>1, ChanFacts
<1>3. a \in BOOLEAN /\ n \in Nat
  BY <1>1, <1>2, ChanFields
<1>4. d \in Channels /\ Untouched(c, d)
  <2>1. d = [c EXCEPT !.asked = n, !.asking = a]
    BY <1>1
  <2>2. d \in Channels
    BY <1>2, <1>3, <2>1 DEF Channels
  <2>3. Untouched(c, d)
    BY <1>2, <2>1 DEF Channels, Untouched, InHands
  <2> QED BY <2>2, <2>3
<1>5. wire' \in Wires
  <2>1. Msg("request", c.remote, 0, 0) \in Packets
    BY <1>2, Says DEF Types, ChannelPackets
  <2> QED BY <1>1, <2>1, Sending DEF SendRequest
<1> QED BY <1>1, <1>2, <1>4, <1>5, UntouchedGoes, ChannelStep DEF SendRequest

LEMMA RepliedKeeps ==
    ASSUME MuxInv, NEW s \in End, NEW o \in Obj(s), Replied(s, o)
    PROVE  MuxInv'
<1>1. PICK c, q, d : /\ c = ch[s][o] /\ q = IF c.msg = <<>> THEN c.msg ELSE Tail(c.msg)
                     /\ d = [c EXCEPT !.msg = q, !.asking = FALSE] /\ SetCh(s, o, d)
  BY DEF Replied
<1>2. c \in Channels /\ Books(c)
  BY <1>1, ChanFacts
<1>3. q \in Seq(Answers)
  BY <1>1, <1>2, ChanQueues
<1>4. d \in Channels /\ Untouched(c, d)
  <2>1. d = [c EXCEPT !.msg = q, !.asking = FALSE]
    BY <1>1
  <2>2. d \in Channels
    BY <1>2, <1>3, <2>1 DEF Channels
  <2>3. Untouched(c, d)
    BY <1>2, <2>1 DEF Channels, Untouched, InHands
  <2> QED BY <2>2, <2>3
<1> QED BY <1>1, <1>2, <1>4, UntouchedGoes, ChannelStep DEF Replied, MuxInv

LEMMA ackRequestKeeps ==
    ASSUME MuxInv, NEW s \in End, NEW o \in Obj(s), ackRequest(s, o)
    PROVE  MuxInv'
<1>1. PICK c, q, d : /\ c = ch[s][o] /\ q = Tail(c.requests)
                     /\ d = [c EXCEPT !.requests = q] /\ SetCh(s, o, d)
  BY DEF ackRequest
<1>2. c \in Channels /\ Books(c)
  BY <1>1, ChanFacts
<1>3. q \in Seq({"request"})
  BY <1>1, <1>2, ChanQueues DEF ackRequest
<1>4. d \in Channels /\ Untouched(c, d)
  <2>1. d = [c EXCEPT !.requests = q]
    BY <1>1
  <2>2. d \in Channels
    BY <1>2, <1>3, <2>1 DEF Channels
  <2>3. Untouched(c, d)
    BY <1>2, <2>1 DEF Channels, Untouched, InHands
  <2> QED BY <2>2, <2>3
<1>5. wire' \in Wires
  <2>1. Msg("reply", c.remote, 0, 0) \in Packets
    BY <1>2, Says DEF Types, ChannelPackets
  <2> QED BY <1>1, <2>1, Sending DEF ackRequest
<1> QED BY <1>1, <1>2, <1>4, <1>5, UntouchedGoes, ChannelStep DEF ackRequest

-----------------------------------------------------------------------------
(* Steps of the multiplexer that leave the list of channels alone.         *)

LEMMA MuxFacts ==
    ASSUME MuxInv, NEW s \in End
    PROVE  mx[s] \in Muxes /\ ch[s] \in Seq(Channels) /\ EndOK(mx[s], ch[s])
BY DEF MuxInv

LEMMA Failing ==
    ASSUME MuxInv, NEW s \in End, NEW e \in LoopErrors, LoopFails(s, e), ch' = ch,
           wire' \in Wires, plan' = plan, rogue' = rogue
    PROVE  MuxInv'
<1>1. PICK m, n : m = mx[s] /\ n = [m EXCEPT !.loop = "drop", !.err = e] /\ SetMx(s, n)
  BY DEF LoopFails
<1>2. m \in Muxes /\ EndOK(m, ch[s])
  BY <1>1, MuxFacts
<1>3. n \in Muxes
  BY <1>1, <1>2 DEF Muxes
<1>4. /\ n.panic = m.panic /\ n.responses = m.responses /\ n.chanList = m.chanList
      /\ n.incoming = m.incoming
  BY <1>1, <1>2 DEF Muxes
<1>5. EndOK(n, ch[s])
  BY <1>2, <1>4 DEF EndOK
<1> QED BY <1>1, <1>3, <1>5, MuxStep

LEMMA LoopEOFKeeps == ASSUME MuxInv, NEW s \in End, LoopEOF(s) PROVE MuxInv'
BY Failing DEF LoopEOF, LoopErrors, MuxInv

LEMMA InvalidChannelKeeps == ASSUME MuxInv, NEW s \in End, InvalidChannel(s) PROVE MuxInv'
<1>1. wire' \in Wires
  BY Reading DEF InvalidChannel, At
<1> QED BY <1>1, Failing DEF InvalidChannel, LoopErrors

LEMMA handleGlobalPacketKeeps == ASSUME MuxInv, NEW s \in End, handleGlobalPacket(s) PROVE MuxInv'
<1>1. wire' \in Wires
  BY Reading DEF handleGlobalPacket, At
<1>2. PICK m : m = mx[s]
  OBVIOUS
<1>3. m \in Muxes /\ EndOK(m, ch[s])
  BY <1>2, MuxFacts
<1>4. m.requests \in Seq({"global"}) /\ m.responses \in Seq({"globalReply"})
  BY <1>3 DEF Muxes
<1>5. CASE SetMx(s, [mx[s] EXCEPT !.requests = Append(@, "global")])
  <2>1. PICK q, n : q = Append(m.requests, "global") /\ n = [m EXCEPT !.requests = q] /\ SetMx(s, n)
    BY <1>2, <1>5
  <2>2. q \in Seq({"global"})
    BY <1>4, <2>1
  <2>3. n \in Muxes
    BY <1>3, <2>1, <2>2 DEF Muxes
  <2>4. /\ n.panic = m.panic /\ n.responses = m.responses /\ n.chanList = m.chanList
        /\ n.incoming = m.incoming
    BY <1>3, <2>1 DEF Muxes
  <2>5. EndOK(n, ch[s])
    BY <1>3, <2>4 DEF EndOK
  <2> QED BY <1>1, <2>1, <2>3, <2>5, MuxStep DEF handleGlobalPacket
<1>6. CASE /\ Len(mx[s].responses) < 1
           /\ SetMx(s, [mx[s] EXCEPT !.responses = Append(@, "globalReply")])
  <2>1. PICK q, n : /\ q = Append(m.responses, "globalReply") /\ n = [m EXCEPT !.responses = q]
                    /\ SetMx(s, n)
    BY <1>2, <1>6
  <2>2. q \in Seq({"globalReply"}) /\ Len(q) <= 1
    BY <1>2, <1>4, <1>6, <2>1
  <2>3. n \in Muxes
    BY <1>3, <2>1, <2>2 DEF Muxes
  <2>4. /\ n.panic = m.panic /\ n.responses = q /\ n.chanList = m.chanList
        /\ n.incoming = m.incoming
    BY <1>3, <2>1 DEF Muxes
  <2>5. EndOK(n, ch[s])
    BY <1>3, <2>2, <2>4 DEF EndOK
  <2> QED BY <1>1, <2>1, <2>3, <2>5, MuxStep DEF handleGlobalPacket
<1> QED BY <1>5, <1>6 DEF handleGlobalPacket

LEMMA loopEndsKeeps == ASSUME MuxInv, NEW s \in End, loopEnds(s) PROVE MuxInv'
<1>1. PICK m, n : m = mx[s] /\ n = [m EXCEPT !.loop = "done", !.open = FALSE] /\ SetMx(s, n)
  BY DEF loopEnds
<1>2. m \in Muxes /\ EndOK(m, ch[s])
  BY <1>1, MuxFacts
<1>3. n \in Muxes
  BY <1>1, <1>2 DEF Muxes
<1>4. /\ n.panic = m.panic /\ n.responses = m.responses /\ n.chanList = m.chanList
      /\ n.incoming = m.incoming
  BY <1>1, <1>2 DEF Muxes
<1>5. EndOK(n, ch[s])
  BY <1>2, <1>4 DEF EndOK
<1> QED BY <1>1, <1>3, <1>5, MuxStep DEF loopEnds, MuxInv

LEMMA HangupKeeps == ASSUME MuxInv, NEW s \in End, Hangup(s) PROVE MuxInv'
<1>1. PICK m, n : m = mx[s] /\ n = [m EXCEPT !.open = FALSE] /\ SetMx(s, n)
  BY DEF Hangup
<1>2. m \in Muxes /\ EndOK(m, ch[s])
  BY <1>1, MuxFacts
<1>3. n \in Muxes
  BY <1>1, <1>2 DEF Muxes
<1>4. /\ n.panic = m.panic /\ n.responses = m.responses /\ n.chanList = m.chanList
      /\ n.incoming = m.incoming
  BY <1>1, <1>2 DEF Muxes
<1>5. EndOK(n, ch[s])
  BY <1>2, <1>4 DEF EndOK
<1> QED BY <1>1, <1>3, <1>5, MuxStep DEF Hangup, MuxInv

LEMMA GlobalRequestKeeps == ASSUME MuxInv, NEW s \in End, GlobalRequest(s) PROVE MuxInv'
<1>1. PICK m, k, a, n : /\ m = mx[s] /\ k = m.asked + 1 /\ a = m.open
                        /\ n = [m EXCEPT !.asked = k, !.asking = a] /\ SetMx(s, n)
  BY DEF GlobalRequest
<1>2. m \in Muxes /\ EndOK(m, ch[s])
  BY <1>1, MuxFacts
<1>3. n \in Muxes
  <2>1. k \in Nat /\ a \in BOOLEAN
    BY <1>1, <1>2 DEF Muxes
  <2> QED BY <1>1, <1>2, <2>1 DEF Muxes
<1>4. /\ n.panic = m.panic /\ n.responses = m.responses /\ n.chanList = m.chanList
      /\ n.incoming = m.incoming
  BY <1>1, <1>2 DEF Muxes
<1>5. EndOK(n, ch[s])
  BY <1>2, <1>4 DEF EndOK
<1>6. wire' \in Wires
  <2>1. Msg("global", 0, 0, 0) \in Packets
    BY Made DEF Types
  <2> QED BY <2>1, Sending DEF GlobalRequest
<1> QED BY <1>1, <1>3, <1>5, <1>6, MuxStep DEF GlobalRequest

LEMMA GlobalRepliedKeeps == ASSUME MuxInv, NEW s \in End, GlobalReplied(s) PROVE MuxInv'
<1>1. PICK m, q, n : /\ m = mx[s]
                     /\ q = IF m.responses # <<>> THEN Tail(m.responses) ELSE m.responses
                     /\ n = [m EXCEPT !.responses = q, !.asking = FALSE] /\ SetMx(s, n)
  <2>1. mx[s] = [mx[s] EXCEPT !.responses = @]
    BY MuxFacts DEF Muxes
  <2>2. [mx[s] EXCEPT !.asking = FALSE] = [mx[s] EXCEPT !.responses = @, !.asking = FALSE]
    BY MuxFacts DEF Muxes
  <2> QED BY <2>2 DEF GlobalReplied
<1>2. m \in Muxes /\ EndOK(m, ch[s])
  BY <1>1, MuxFacts
<1>3. q \in Seq({"globalReply"}) /\ Len(q) <= 1
  <2>1. m.responses \in Seq({"globalReply"}) /\ Len(m.responses) <= 1
    BY <1>2 DEF Muxes, EndOK
  <2> QED BY <1>1, <2>1
<1>4. n \in Muxes
  BY <1>1, <1>2, <1>3 DEF Muxes
<1>5. /\ n.panic = m.panic /\ n.responses = q /\ n.chanList = m.chanList
      /\ n.incoming = m.incoming
  BY <1>1, <1>2 DEF Muxes
<1>6. EndOK(n, ch[s])
  BY <1>2, <1>3, <1>5 DEF EndOK
<1> QED BY <1>1, <1>4, <1>6, MuxStep DEF GlobalReplied, MuxInv

LEMMA handleGlobalRequestsKeeps ==
    ASSUME MuxInv, NEW s \in End, handleGlobalRequests(s)
    PROVE  MuxInv'
<1>1. PICK m, q, n : /\ m = mx[s] /\ q = Tail(m.requests)
                     /\ n = [m EXCEPT !.requests = q] /\ SetMx(s, n)
  BY DEF handleGlobalRequests
<1>2. m \in Muxes /\ EndOK(m, ch[s])
  BY <1>1, MuxFacts
<1>3. q \in Seq({"global"})
  <2>1. m.requests \in Seq({"global"}) /\ m.requests # <<>>
    BY <1>1, <1>2 DEF Muxes, handleGlobalRequests
  <2> QED BY <1>1, <2>1
<1>4. n \in Muxes
  BY <1>1, <1>2, <1>3 DEF Muxes
<1>5. /\ n.panic = m.panic /\ n.responses = m.responses /\ n.chanList = m.chanList
      /\ n.incoming = m.incoming
  BY <1>1, <1>2 DEF Muxes
<1>6. EndOK(n, ch[s])
  BY <1>2, <1>5 DEF EndOK
<1>7. wire' \in Wires
  <2>1. Msg("globalReply", 0, 0, 0) \in Packets
    BY Made DEF Types
  <2> QED BY <2>1, Sending DEF handleGlobalRequests
<1> QED BY <1>1, <1>4, <1>6, <1>7, MuxStep DEF handleGlobalRequests

LEMMA RogueKeeps == ASSUME MuxInv, Rogue PROVE MuxInv'
<1>1. Head(rogue) \in Packets /\ rogue' \in Seq(Packets)
  BY DEF MuxInv, Rogue
<1>2. wire' \in Wires
  <2>1. "server" \in End
    BY DEF End
  <2>2. Append(wire["server"], Head(rogue)) \in Seq(Packets)
    BY <1>1, <2>1 DEF MuxInv, Wires
  <2> QED BY <2>1, <2>2 DEF MuxInv, Wires, Rogue
<1> QED BY <1>1, <1>2 DEF MuxInv, Rogue

-----------------------------------------------------------------------------
(* The list of channels.                                                   *)

LEMMA SlotFacts ==
    ASSUME NEW list \in Seq(Nat)
    PROVE  /\ Slot(list) \in Nat \ {0}
           /\ \/ Slot(list) \in DOMAIN list /\ list[Slot(list)] = 0
              \/ Slot(list) \notin DOMAIN list /\ Slot(list) = Len(list) + 1
<1>1. PICK n, free : n = Len(list) /\ free = {i \in DOMAIN list : list[i] = 0}
  OBVIOUS
<1>2. n \in Nat /\ DOMAIN list = 1 .. n /\ free \subseteq 1 .. n
  BY <1>1
<1>3. CASE free = {}
  <2>1. Slot(list) = n + 1
    BY <1>1, <1>3 DEF Slot
  <2> QED BY <1>1, <1>2, <2>1
<1>4. CASE free # {}
  <2>1. \E i \in free : \A j \in free : i <= j
    BY <1>2, <1>4, LeastExists
  <2>2. Slot(list) = CHOOSE i \in free : \A j \in free : i <= j
    BY <1>1, <1>4 DEF Slot
  <2>3. Slot(list) \in free
    BY <2>1, <2>2
  <2> QED BY <1>1, <1>2, <2>3
<1> QED BY <1>3, <1>4

LEMMA AddFacts ==
    ASSUME NEW list \in Seq(Nat), NEW o \in Nat
    PROVE  /\ add(list, o) \in Seq(Nat)
           /\ Slot(list) \in DOMAIN add(list, o) /\ add(list, o)[Slot(list)] = o
           /\ \A i \in DOMAIN add(list, o) :
                i # Slot(list) => i \in DOMAIN list /\ add(list, o)[i] = list[i]
           /\ \A i \in DOMAIN list : i \in DOMAIN add(list, o) /\ (i = Slot(list) => list[i] = 0)
<1>1. PICK k, q : k = Slot(list) /\ q = add(list, o)
  OBVIOUS
<1>2. CASE k \in DOMAIN list
  <2>1. list[k] = 0 /\ q = [list EXCEPT ![k] = o]
    BY <1>1, <1>2, SlotFacts DEF add
  <2> QED BY <1>1, <1>2, <2>1
<1>3. CASE k \notin DOMAIN list
  <2>1. k = Len(list) + 1 /\ q = Append(list, o)
    BY <1>1, <1>3, SlotFacts DEF add
  <2> QED BY <1>1, <1>3, <2>1
<1> QED BY <1>2, <1>3

(* A new channel takes a free slot.                                        *)
LEMMA Adding ==
    ASSUME NEW m \in Muxes, NEW objs \in Seq(Channels), EndOK(m, objs),
           NEW c \in Channels, Books(c), ~c.closed, c.local = Slot(m.chanList),
           NEW n \in Muxes, ~n.panic, n.responses = m.responses,
           n.chanList = add(m.chanList, Len(objs) + 1),
           \/ n.incoming = m.incoming
           \/ c.dir = "in" /\ n.incoming = Append(m.incoming, Len(objs) + 1)
    PROVE  Append(objs, c) \in Seq(Channels) /\ EndOK(n, Append(objs, c))
<1>1. PICK q, z, list, more : /\ q = Append(objs, c) /\ z = Len(objs) + 1
                              /\ list = m.chanList /\ more = n.chanList
  OBVIOUS
<1>2. /\ q \in Seq(Channels) /\ z \in DOMAIN q /\ z \notin DOMAIN objs /\ q[z] = c /\ z \in Nat
      /\ \A o \in DOMAIN objs : o \in DOMAIN q /\ q[o] = objs[o]
      /\ \A o \in DOMAIN q : o = z \/ o \in DOMAIN objs
  BY <1>1
<1>3. list \in Seq(Nat) /\ m.incoming \in Seq(Nat)
  BY <1>1 DEF Muxes
<1>4. more = add(list, z)
  BY <1>1
<1>5. PICK k : k = Slot(list)
  OBVIOUS
<1>6. /\ k \in DOMAIN more /\ more[k] = z
      /\ \A i \in DOMAIN more : i # k => i \in DOMAIN list /\ more[i] = list[i]
      /\ \A i \in DOMAIN list : i \in DOMAIN more /\ (i = k => list[i] = 0)
  <2>1. z \in Nat /\ list \in Seq(Nat)
    BY <1>2, <1>3
  <2> QED BY <1>4, <1>5, <2>1, AddFacts, Zenon
<1>7. \A o \in DOMAIN q : Books(q[o])
  BY <1>2 DEF EndOK
<1>8. SlotsKnown(more, q)
  <2>1. SUFFICES ASSUME NEW i \in DOMAIN more, more[i] # 0
                 PROVE  more[i] \in DOMAIN q /\ q[more[i]].local = i /\ ~q[more[i]].closed
    BY DEF SlotsKnown
  <2>2. CASE i = k
    BY <1>1, <1>2, <1>5, <1>6, <2>2
  <2>3. CASE i # k
    <3>1. i \in DOMAIN list /\ more[i] = list[i]
      BY <1>6, <2>3
    <3>2. list[i] \in DOMAIN objs /\ objs[list[i]].local = i /\ ~objs[list[i]].closed
      BY <1>1, <2>1, <3>1 DEF EndOK, SlotsKnown
    <3> QED BY <1>2, <3>1, <3>2
  <2> QED BY <2>2, <2>3
<1>9. OffersAreIn(n.incoming, q)
  <2>1. OffersAreIn(m.incoming, q)
    BY <1>2 DEF EndOK, OffersAreIn
  <2>2. CASE c.dir = "in" /\ n.incoming = Append(m.incoming, z)
    <3>1. PICK p, r : p = m.incoming /\ r = n.incoming
      OBVIOUS
    <3>2. r = Append(p, z) /\ p \in Seq(Nat) /\ OffersAreIn(p, q)
      BY <1>3, <2>1, <2>2, <3>1
    <3>3. \A j \in DOMAIN r : r[j] = z \/ (j \in DOMAIN p /\ r[j] = p[j])
      BY <1>2, <3>2
    <3>4. ASSUME NEW j \in DOMAIN r PROVE r[j] \in DOMAIN q /\ q[r[j]].dir = "in"
      <4>1. CASE r[j] = z
        BY <1>2, <2>2, <4>1
      <4>2. CASE j \in DOMAIN p /\ r[j] = p[j]
        BY <3>2, <4>2 DEF OffersAreIn
      <4> QED BY <3>3, <4>1, <4>2
    <3> QED BY <3>1, <3>4 DEF OffersAreIn
  <2> QED BY <1>1, <2>1, <2>2
<1>10. GoneAreDone(more, q)
  <2>1. SUFFICES ASSUME NEW o \in DOMAIN q, \A i \in DOMAIN more : more[i] # o
                 PROVE  q[o].closed \/ Refused(q[o])
    BY DEF GoneAreDone
  <2>2. o \in DOMAIN objs
    BY <1>2, <1>6, <2>1
  <2>3. \A i \in DOMAIN list : list[i] # o
    <3>1. SUFFICES ASSUME NEW i \in DOMAIN list, list[i] = o PROVE FALSE
      OBVIOUS
    <3>2. CASE i = k
      <4>1. o = 0
        BY <1>6, <3>1, <3>2
      <4> QED BY <2>2, <4>1
    <3>3. CASE i # k
      BY <1>6, <2>1, <3>1, <3>3
    <3> QED BY <3>2, <3>3
  <2> QED BY <1>1, <1>2, <2>2, <2>3 DEF EndOK, GoneAreDone
<1> QED BY <1>1, <1>2, <1>7, <1>8, <1>9, <1>10 DEF EndOK

(* A channel leaves its slot, closed or refused.                           *)
LEMMA Removing ==
    ASSUME NEW m \in Muxes, NEW objs \in Seq(Channels), EndOK(m, objs),
           NEW i \in DOMAIN m.chanList, m.chanList[i] # 0,
           NEW d \in Channels, Books(d), d.dir = objs[m.chanList[i]].dir,
           d.closed \/ Refused(d),
           NEW n \in Muxes, ~n.panic, n.responses = m.responses, n.incoming = m.incoming,
           n.chanList = remove(m.chanList, i)
    PROVE  /\ [objs EXCEPT ![m.chanList[i]] = d] \in Seq(Channels)
           /\ EndOK(n, [objs EXCEPT ![m.chanList[i]] = d])
<1>1. PICK list, less, z, q : /\ list = m.chanList /\ less = n.chanList /\ z = list[i]
                              /\ q = [objs EXCEPT ![z] = d]
  OBVIOUS
<1>2. list \in Seq(Nat) /\ less = [list EXCEPT ![i] = 0]
  BY <1>1 DEF Muxes, remove
<1>3. DOMAIN less = DOMAIN list /\ less[i] = 0 /\ \A j \in DOMAIN list : j # i => less[j] = list[j]
  BY <1>1, <1>2
<1>4. z \in DOMAIN objs /\ objs[z].local = i
  BY <1>1 DEF EndOK, SlotsKnown
<1>5. /\ q \in Seq(Channels) /\ DOMAIN q = DOMAIN objs
      /\ q[z] = d /\ \A p \in DOMAIN objs : p # z => q[p] = objs[p]
  BY <1>1, <1>4, SetOne
<1>6. \A o \in DOMAIN q : Books(q[o])
  BY <1>5 DEF EndOK
<1>7. SlotsKnown(less, q)
  <2>1. SUFFICES ASSUME NEW j \in DOMAIN less, less[j] # 0
                 PROVE  less[j] \in DOMAIN q /\ q[less[j]].local = j /\ ~q[less[j]].closed
    BY DEF SlotsKnown
  <2>2. j # i /\ less[j] = list[j] /\ j \in DOMAIN list
    BY <1>3, <2>1
  <2>3. list[j] \in DOMAIN objs /\ objs[list[j]].local = j /\ ~objs[list[j]].closed
    BY <1>1, <2>1, <2>2 DEF EndOK, SlotsKnown
  <2>4. list[j] # z
    BY <1>4, <2>2, <2>3
  <2> QED BY <1>5, <2>2, <2>3, <2>4
<1>8. OffersAreIn(n.incoming, q)
  <2>1. \A o \in DOMAIN objs : q[o].dir = objs[o].dir
    BY <1>1, <1>5
  <2> QED BY <1>5, <2>1 DEF EndOK, OffersAreIn
<1>9. GoneAreDone(less, q)
  <2>1. SUFFICES ASSUME NEW o \in DOMAIN q, \A j \in DOMAIN less : less[j] # o
                 PROVE  q[o].closed \/ Refused(q[o])
    BY DEF GoneAreDone
  <2>2. CASE o = z
    BY <1>5, <2>2
  <2>3. CASE o # z
    <3>1. \A j \in DOMAIN list : list[j] # o
      BY <1>1, <1>3, <2>1, <2>3
    <3> QED BY <1>1, <1>5, <2>3, <3>1 DEF EndOK, GoneAreDone
  <2> QED BY <2>2, <2>3
<1> QED BY <1>1, <1>5, <1>6, <1>7, <1>8, <1>9 DEF EndOK

(* The steps that the packet at the head of the wire is for.               *)

LEMMA TargetFacts ==
    ASSUME MuxInv, NEW s \in End, Target(s) # 0
    PROVE  /\ Head(Inbox(s)).id \in DOMAIN mx[s].chanList
           /\ Target(s) = mx[s].chanList[Head(Inbox(s)).id] /\ Target(s) \in Obj(s)
           /\ ch[s][Target(s)].local = Head(Inbox(s)).id /\ ~ch[s][Target(s)].closed
<1>1. PICK id, list, o : id = Head(Inbox(s)).id /\ list = mx[s].chanList /\ o = Target(s)
  OBVIOUS
<1>2. id \in DOMAIN list /\ o = list[id]
  BY <1>1 DEF Target, getChan
<1>3. SlotsKnown(list, ch[s])
  BY <1>1, MuxFacts DEF EndOK
<1> QED BY <1>1, <1>2, <1>3 DEF SlotsKnown, Obj

LEMMA HeadFacts ==
    ASSUME MuxInv, NEW s \in End, NEW types, At(s, types)
    PROVE  /\ Read(s) => wire' \in Wires
           /\ Head(Inbox(s)).n \in Nat /\ Head(Inbox(s)).from \in Nat
           /\ Head(Inbox(s)).type \in types
<1>1. (Read(s) => wire' \in Wires) /\ Head(Inbox(s)) \in Packets /\ Head(Inbox(s)).type \in types
  BY Reading DEF At
<1> QED BY <1>1 DEF Packets

LEMMA handleDataKeeps == ASSUME MuxInv, NEW s \in End, handleData(s) PROVE MuxInv'
<1>1. PICK o, c, n : o = Target(s) /\ c = ch[s][o] /\ n = Head(Inbox(s)).n
  OBVIOUS
<1>2. wire' \in Wires /\ n \in Nat
  BY <1>1, HeadFacts DEF handleData
<1>3. o \in Obj(s) /\ c \in Channels /\ Books(c)
  BY <1>1, TargetFacts, ChanFacts DEF handleData
<1>4. CASE LoopFails(s, "data") /\ UNCHANGED ch
  BY <1>2, <1>4, Failing DEF handleData, LoopErrors
<1>5. CASE /\ ~(c.myWindow < n)
           /\ SetCh(s, o, [c EXCEPT !.myWindow = @ - n, !.pending = @ + n]) /\ UNCHANGED mx
  <2>1. c.myWindow \in Nat /\ c.pending \in Nat
    BY <1>3 DEF Channels
  <2>2. PICK w, p, d : /\ w = c.myWindow - n /\ p = c.pending + n
                       /\ d = [c EXCEPT !.myWindow = w, !.pending = p] /\ SetCh(s, o, d)
    BY <1>5
  <2>3. w \in Nat /\ p \in Nat
    BY <1>2, <1>5, <2>1, <2>2
  <2>4. d \in Channels
    BY <1>3, <2>2, <2>3 DEF Channels
  <2>5. /\ d.remoteWin = c.remoteWin /\ d.spent = c.spent /\ d.granted = c.granted
        /\ d.dir = c.dir /\ d.local = c.local /\ d.closed = c.closed /\ d.decided = c.decided
        /\ d.remote = c.remote /\ d.myWindow = w /\ d.pending = p /\ InHands(d) = InHands(c)
    BY <1>3, <2>2 DEF Channels, InHands
  <2>6. Books(d)
    BY <1>2, <1>3, <2>1, <2>2, <2>5, HandsFacts, MuxAssumption DEF Books
  <2>7. Goes(c, d)
    BY <2>4, <2>5, <2>6 DEF Goes, Refused
  <2> QED BY <1>1, <1>2, <1>3, <1>5, <2>2, <2>7, ChannelStep DEF handleData
<1> QED BY <1>1, <1>4, <1>5 DEF handleData

LEMMA handleEOFKeeps == ASSUME MuxInv, NEW s \in End, handleEOF(s) PROVE MuxInv'
<1>1. PICK o, c, d : o = Target(s) /\ c = ch[s][o] /\ d = [c EXCEPT !.eof = TRUE] /\ SetCh(s, o, d)
  BY DEF handleEOF
<1>2. wire' \in Wires
  BY HeadFacts DEF handleEOF
<1>3. o \in Obj(s) /\ c \in Channels /\ Books(c)
  BY <1>1, TargetFacts, ChanFacts DEF handleEOF
<1>4. d \in Channels
  BY <1>1, <1>3 DEF Channels
<1>5. Untouched(c, d)
  BY <1>1, <1>3 DEF Channels, Untouched, InHands
<1> QED BY <1>1, <1>2, <1>3, <1>4, <1>5, UntouchedGoes, ChannelStep DEF handleEOF

LEMMA handleAdjustKeeps == ASSUME MuxInv, NEW s \in End, handleAdjust(s) PROVE MuxInv'
<1>1. PICK o, c, n : o = Target(s) /\ c = ch[s][o] /\ n = Head(Inbox(s)).n
  OBVIOUS
<1>2. wire' \in Wires /\ n \in Nat
  BY <1>1, HeadFacts DEF handleAdjust
<1>3. o \in Obj(s) /\ c \in Channels /\ Books(c)
  BY <1>1, TargetFacts, ChanFacts DEF handleAdjust
<1>4. CASE LoopFails(s, "window") /\ UNCHANGED ch
  BY <1>2, <1>4, Failing DEF handleAdjust, LoopErrors
<1>5. CASE SetCh(s, o, Added(c, n)) /\ UNCHANGED mx
  <2>1. Goes(c, Added(c, n))
    BY <1>2, <1>3, Windows
  <2> QED BY <1>1, <1>2, <1>3, <1>5, <2>1, ChannelStep DEF handleAdjust
<1> QED BY <1>1, <1>4, <1>5 DEF handleAdjust

LEMMA handleRequestKeeps == ASSUME MuxInv, NEW s \in End, handleRequest(s) PROVE MuxInv'
<1>1. PICK o, c : o = Target(s) /\ c = ch[s][o]
  OBVIOUS
<1>2. wire' \in Wires
  BY HeadFacts DEF handleRequest
<1>3. o \in Obj(s) /\ c \in Channels /\ Books(c)
  BY <1>1, TargetFacts, ChanFacts DEF handleRequest
<1>4. CASE SetCh(s, o, [c EXCEPT !.requests = Append(@, "request")])
  <2>1. PICK q, d : /\ q = Append(c.requests, "request")
                    /\ d = [c EXCEPT !.requests = q] /\ SetCh(s, o, d)
    BY <1>4
  <2>2. q \in Seq({"request"})
    BY <1>3, <2>1, ChanQueues
  <2>3. d \in Channels
    BY <1>3, <2>1, <2>2 DEF Channels
  <2>4. Untouched(c, d)
    BY <1>3, <2>1 DEF Channels, Untouched, InHands
  <2> QED BY <1>1, <1>2, <1>3, <2>1, <2>3, <2>4, UntouchedGoes, ChannelStep DEF handleRequest
<1>5. CASE SetCh(s, o, [c EXCEPT !.msg = Append(@, "reply")])
  <2>1. PICK q, d : q = Append(c.msg, "reply") /\ d = [c EXCEPT !.msg = q] /\ SetCh(s, o, d)
    BY <1>5
  <2>2. q \in Seq(Answers)
    BY <1>3, <2>1, ChanQueues DEF Answers
  <2>3. d \in Channels
    BY <1>3, <2>1, <2>2 DEF Channels
  <2>4. Untouched(c, d)
    BY <1>3, <2>1 DEF Channels, Untouched, InHands
  <2> QED BY <1>1, <1>2, <1>3, <2>1, <2>3, <2>4, UntouchedGoes, ChannelStep DEF handleRequest
<1> QED BY <1>1, <1>4, <1>5 DEF handleRequest

LEMMA ClosedFacts ==
    ASSUME NEW c \in Channels, Books(c)
    PROVE  /\ Closed(c) \in Channels /\ Books(Closed(c)) /\ Closed(c).closed
           /\ Closed(c).dir = c.dir /\ Closed(c).local = c.local
<1>1. PICK d : d = Closed(c)
  OBVIOUS
<1>2. d = [c EXCEPT !.eof = TRUE, !.closed = TRUE, !.sentClose = TRUE, !.winClosed = TRUE]
  BY <1>1 DEF Closed
<1>3. d \in Channels
  BY <1>2 DEF Channels
<1>4. /\ d.dir = c.dir /\ d.local = c.local /\ d.closed = TRUE /\ d.decided = c.decided
      /\ InHands(d) = InHands(c)
      /\ d.remote = c.remote /\ d.myWindow = c.myWindow /\ d.pending = c.pending
      /\ d.remoteWin = c.remoteWin /\ d.spent = c.spent /\ d.granted = c.granted
  BY <1>2 DEF Channels, InHands
<1>5. Books(d)
  BY <1>4 DEF Books
<1> QED BY <1>1, <1>3, <1>4, <1>5

(* The packet's channel leaves its slot.                                   *)
LEMMA TargetLeaves ==
    ASSUME MuxInv, NEW s \in End, Target(s) # 0, NEW d \in Channels, Books(d),
           d.dir = ch[s][Target(s)].dir, d.closed \/ Refused(d), NEW n \in Muxes,
           ~n.panic, n.responses = mx[s].responses, n.incoming = mx[s].incoming,
           n.chanList = remove(mx[s].chanList, Head(Inbox(s)).id),
           SetCh(s, Target(s), d), SetMx(s, n), wire' \in Wires, plan' = plan, rogue' = rogue
    PROVE  MuxInv'
<1>1. PICK m, objs, i : m = mx[s] /\ objs = ch[s] /\ i = Head(Inbox(s)).id
  OBVIOUS
<1>2. m \in Muxes /\ objs \in Seq(Channels) /\ EndOK(m, objs)
  BY <1>1, MuxFacts
<1>3. i \in DOMAIN m.chanList /\ Target(s) = m.chanList[i]
  BY <1>1, TargetFacts
<1>4. PICK q : q = [objs EXCEPT ![m.chanList[i]] = d]
  OBVIOUS
<1>5. q \in Seq(Channels) /\ EndOK(n, q)
  BY <1>1, <1>2, <1>3, <1>4, Removing
<1>6. ch' = [ch EXCEPT ![s] = q]
  BY <1>1, <1>3, <1>4 DEF SetCh, MuxInv
<1> QED BY <1>5, <1>6, EndStep DEF SetMx

LEMMA RemoveTyped ==
    ASSUME NEW list \in Seq(Nat), NEW i
    PROVE  remove(list, i) \in Seq(Nat)
BY DEF remove

LEMMA handleCloseKeeps == ASSUME MuxInv, NEW s \in End, handleClose(s) PROVE MuxInv'
<1>1. PICK o, c, m : o = Target(s) /\ c = ch[s][o] /\ m = mx[s]
  OBVIOUS
<1>2. /\ o \in Obj(s) /\ c \in Channels /\ Books(c) /\ ~c.closed /\ c.local = Head(Inbox(s)).id
      /\ m \in Muxes /\ EndOK(m, ch[s])
  BY <1>1, TargetFacts, ChanFacts, MuxFacts DEF handleClose
<1>3. wire' \in Wires
  <2>1. Msg("close", c.remote, 0, 0) \in Packets
    BY <1>2, Says DEF Types, ChannelPackets
  <2>2. Tail(wire[Other(s)]) \in Seq(Packets)
    BY Reading DEF handleClose, At, Inbox
  <2>3. PICK a, b : /\ a = Tail(wire[Other(s)])
                    /\ b = IF CanSend(c) THEN Append(wire[s], Msg("close", c.remote, 0, 0))
                                         ELSE wire[s]
    OBVIOUS
  <2>4. a \in Seq(Packets) /\ b \in Seq(Packets)
    BY <2>1, <2>2, <2>3 DEF MuxInv, Wires
  <2>5. wire' = [wire EXCEPT ![Other(s)] = a, ![s] = b]
    BY <1>1, <2>3, Others DEF handleClose, MuxInv, Wires
  <2> QED BY <2>4, <2>5, Others DEF MuxInv, Wires
<1>4. PICK l, p, n : /\ l = remove(m.chanList, c.local) /\ p = (m.panic \/ c.closed)
                     /\ n = [m EXCEPT !.chanList = l, !.panic = p] /\ SetMx(s, n)
  BY <1>1 DEF handleClose
<1>5. l \in Seq(Nat) /\ p = FALSE
  <2>1. m.chanList \in Seq(Nat) /\ m.panic = FALSE
    BY <1>2 DEF Muxes, EndOK
  <2> QED BY <1>2, <1>4, <2>1, RemoveTyped
<1>6. n \in Muxes
  BY <1>2, <1>4, <1>5 DEF Muxes
<1>7. n.panic = p /\ n.responses = m.responses /\ n.chanList = l /\ n.incoming = m.incoming
  BY <1>2, <1>4 DEF Muxes
<1>8. PICK d : d = Closed(c) /\ SetCh(s, o, d)
  BY <1>1 DEF handleClose
<1>9. d \in Channels /\ Books(d) /\ d.closed /\ d.dir = c.dir
  BY <1>2, <1>8, ClosedFacts
<1>10. Target(s) # 0 /\ plan' = plan /\ rogue' = rogue
  BY DEF handleClose
<1> QED BY <1>1, <1>2, <1>3, <1>4, <1>5, <1>6, <1>7, <1>8, <1>9, <1>10, TargetLeaves

LEMMA handleOpenResponseKeeps == ASSUME MuxInv, NEW s \in End, handleOpenResponse(s) PROVE MuxInv'
<1>1. PICK o, c, h, m : o = Target(s) /\ c = ch[s][o] /\ h = Head(Inbox(s)) /\ m = mx[s]
  OBVIOUS
<1>2. /\ o \in Obj(s) /\ c \in Channels /\ Books(c) /\ ~c.closed /\ o # 0
      /\ m \in Muxes /\ EndOK(m, ch[s])
  BY <1>1, TargetFacts, ChanFacts, MuxFacts DEF handleOpenResponse
<1>3. wire' \in Wires /\ h.n \in Nat /\ h.from \in Nat /\ h.type \in {"confirm", "reject"}
  BY <1>1, HeadFacts DEF handleOpenResponse
<1>4. plan' = plan /\ rogue' = rogue
  BY DEF handleOpenResponse
<1>5. CASE LoopFails(s, "response") /\ UNCHANGED ch
  BY <1>3, <1>4, <1>5, Failing DEF LoopErrors
<1>6. PICK q : q = Append(c.msg, h.type)
  OBVIOUS
<1>7. q \in Seq(Answers)
  BY <1>2, <1>3, <1>6, ChanQueues DEF Answers
<1>8. CASE /\ ~(c.dir = "in" \/ c.decided)
           /\ SetCh(s, o, [c EXCEPT !.decided = TRUE, !.msg = q])
           /\ SetMx(s, [m EXCEPT !.chanList = remove(@, h.id)])
  <2>1. PICK d, l, n : /\ d = [c EXCEPT !.decided = TRUE, !.msg = q] /\ SetCh(s, o, d)
                       /\ l = remove(m.chanList, h.id)
                       /\ n = [m EXCEPT !.chanList = l] /\ SetMx(s, n)
    BY <1>8
  <2>2. d \in Channels
    BY <1>2, <1>7, <2>1 DEF Channels
  <2>3. /\ d.dir = c.dir /\ d.local = c.local /\ d.closed = c.closed /\ d.decided = TRUE
        /\ InHands(d) = InHands(c)
        /\ d.remote = c.remote /\ d.myWindow = c.myWindow /\ d.pending = c.pending
        /\ d.remoteWin = c.remoteWin /\ d.spent = c.spent /\ d.granted = c.granted
    BY <1>2, <2>1 DEF Channels, InHands
  <2>4. c.dir = "out" /\ c.remote = 0
    BY <1>2, <1>8 DEF Books, Channels
  <2>5. Books(d) /\ Refused(d)
    BY <1>2, <2>3, <2>4 DEF Books, Refused
  <2>6. l \in Seq(Nat) /\ m.panic = FALSE
    BY <1>2, <2>1, RemoveTyped DEF Muxes, EndOK
  <2>7. n \in Muxes
    BY <1>2, <2>1, <2>6 DEF Muxes
  <2>8. n.panic = m.panic /\ n.responses = m.responses /\ n.chanList = l /\ n.incoming = m.incoming
    BY <1>2, <2>1 DEF Muxes
  <2> QED BY <1>1, <1>2, <1>3, <1>4, <2>1, <2>2, <2>3, <2>5, <2>6, <2>7, <2>8, TargetLeaves
<1>9. CASE /\ ~(c.dir = "in" \/ c.decided)
           /\ SetCh(s, o, [Added(c, h.n) EXCEPT !.decided = TRUE, !.remote = h.from, !.msg = q])
           /\ UNCHANGED mx
  <2>1. PICK e, f, d : /\ e = Added(c, h.n) /\ f = h.from
                       /\ d = [e EXCEPT !.decided = TRUE, !.remote = f, !.msg = q] /\ SetCh(s, o, d)
    BY <1>9
  <2>2. Goes(c, e) /\ e \in Channels /\ Books(e)
    BY <1>2, <1>3, <2>1, Windows DEF Goes
  <2>3. f \in Nat
    BY <1>3, <2>1
  <2>4. d \in Channels
    BY <1>7, <2>1, <2>2, <2>3 DEF Channels
  <2>5. /\ d.dir = e.dir /\ d.local = e.local /\ d.closed = e.closed /\ d.decided = TRUE
        /\ InHands(d) = InHands(e)
        /\ d.myWindow = e.myWindow /\ d.pending = e.pending
        /\ d.remoteWin = e.remoteWin /\ d.spent = e.spent /\ d.granted = e.granted
    BY <2>1, <2>2 DEF Channels, InHands
  <2>6. Books(d)
    BY <2>2, <2>5 DEF Books
  <2>7. Goes(c, d)
    BY <1>9, <2>2, <2>4, <2>5, <2>6 DEF Goes, Refused
  <2> QED BY <1>1, <1>2, <1>3, <1>4, <1>9, <2>1, <2>7, ChannelStep
<1>10. CASE c.dir = "in" \/ c.decided
  BY <1>1, <1>5, <1>10 DEF handleOpenResponse
<1>11. CASE ~(c.dir = "in" \/ c.decided) /\ h.type = "reject"
  BY <1>1, <1>6, <1>8, <1>11 DEF handleOpenResponse
<1>12. CASE ~(c.dir = "in" \/ c.decided) /\ h.type # "reject"
  <2>1. /\ SetCh(s, o, [Added(c, h.n) EXCEPT !.decided = TRUE, !.remote = h.from,
                                             !.msg = Append(@, h.type)])
        /\ UNCHANGED mx
    BY <1>1, <1>12 DEF handleOpenResponse
  <2>2. Added(c, h.n).msg = c.msg
    BY <1>2, <1>3, Windows
  <2>3. SetCh(s, o, [Added(c, h.n) EXCEPT !.decided = TRUE, !.remote = h.from, !.msg = q])
    BY <1>6, <2>1, <2>2
  <2> QED BY <1>9, <1>12, <2>1, <2>3
<1> QED BY <1>10, <1>11, <1>12

LEMMA NewFacts ==
    ASSUME MuxInv, NEW s \in End, NEW dir \in {"in", "out"}, NEW c, c = newChannel(s, dir)
    PROVE  /\ c \in Channels /\ Books(c) /\ c.closed = FALSE /\ c.dir = dir
           /\ c.local = Slot(mx[s].chanList) /\ c.decided = FALSE
           /\ c.remoteWin = 0 /\ c.spent = 0 /\ c.granted = 0
           /\ c.myWindow = WindowSize /\ c.pending = 0 /\ InHands(c) = 0
<1>1. PICK k, b : k = Slot(mx[s].chanList) /\ b = (dir = "out")
  OBVIOUS
<1>2. k \in Nat /\ b \in BOOLEAN /\ WindowSize \in Nat
  <2>1. mx[s].chanList \in Seq(Nat)
    BY MuxFacts DEF Muxes
  <2> QED BY <1>1, <2>1, SlotFacts, MuxAssumption
<1>3. <<>> \in Seq(Answers) /\ <<>> \in Seq({"request"})
  OBVIOUS
<1>4. c \in Channels
  BY <1>1, <1>2, <1>3 DEF newChannel, InHands, Channels
<1>5. /\ c.closed = FALSE /\ c.dir = dir /\ c.remote = 0 /\ c.decided = FALSE
      /\ c.local = Slot(mx[s].chanList) /\ c.remoteWin = 0 /\ c.spent = 0 /\ c.granted = 0
      /\ c.myWindow = WindowSize /\ c.pending = 0 /\ InHands(c) = 0
  BY DEF newChannel, InHands
<1>6. Books(c)
  BY <1>2, <1>5, MuxAssumption DEF Books
<1> QED BY <1>4, <1>5, <1>6

LEMMA refuseOpenKeeps == ASSUME MuxInv, NEW s \in End, refuseOpen(s) PROVE MuxInv'
<1>1. PICK f, a, b : /\ f = Head(Inbox(s)).from /\ a = Tail(wire[Other(s)])
                     /\ b = Append(wire[s], Msg("reject", f, 0, 0))
  OBVIOUS
<1>2. f \in Nat
  BY <1>1, HeadFacts DEF refuseOpen
<1>3. Msg("reject", f, 0, 0) \in Packets
  BY <1>2, Made DEF Types, ChannelPackets
<1>4. a \in Seq(Packets)
  BY <1>1, Reading DEF refuseOpen, At, Inbox
<1>5. b \in Seq(Packets)
  BY <1>1, <1>3 DEF MuxInv, Wires
<1>6. wire' = [wire EXCEPT ![Other(s)] = a, ![s] = b]
  BY <1>1, Others DEF refuseOpen, MuxInv, Wires
<1>7. wire' \in Wires
  BY <1>4, <1>5, <1>6, Others DEF MuxInv, Wires
<1>8. plan' = plan /\ mx' = mx /\ ch' = ch /\ rogue' = rogue
  BY DEF refuseOpen
<1> QED BY <1>7, <1>8 DEF MuxInv

LEMMA handleChannelOpenKeeps == ASSUME MuxInv, NEW s \in End, handleChannelOpen(s) PROVE MuxInv'
<1>1. PICK h, m, objs : h = Head(Inbox(s)) /\ m = mx[s] /\ objs = ch[s]
  OBVIOUS
<1>2. m \in Muxes /\ objs \in Seq(Channels) /\ EndOK(m, objs)
  BY <1>1, MuxFacts
<1>3. wire' \in Wires /\ h.n \in Nat /\ h.from \in Nat
  BY <1>1, HeadFacts DEF handleChannelOpen
<1>4. PICK z, f, b, c : /\ z = Len(objs) + 1 /\ f = h.from
                        /\ b = newChannel(s, "in") /\ c = [b EXCEPT !.remote = f]
  OBVIOUS
<1>5. PICK d, l, p, n :
        /\ d = Added(c, h.n) /\ ch' = [ch EXCEPT ![s] = Append(objs, d)]
        /\ l = add(m.chanList, z) /\ p = Append(m.incoming, z)
        /\ n = [m EXCEPT !.chanList = l, !.incoming = p] /\ mx' = [mx EXCEPT ![s] = n]
  BY <1>1, <1>4 DEF handleChannelOpen, SetMx, MuxInv
<1>6. /\ b \in Channels /\ Books(b) /\ b.closed = FALSE /\ b.dir = "in"
      /\ b.local = Slot(m.chanList)
  BY <1>1, <1>4, NewFacts
<1>7. c \in Channels
  BY <1>3, <1>4, <1>6 DEF Channels
<1>8. /\ c.dir = "in" /\ c.local = b.local /\ c.closed = b.closed
      /\ InHands(c) = InHands(b)
      /\ c.myWindow = b.myWindow /\ c.pending = b.pending
      /\ c.remoteWin = b.remoteWin /\ c.spent = b.spent /\ c.granted = b.granted
  BY <1>4, <1>6 DEF Channels, InHands
<1>9. Books(c)
  BY <1>6, <1>8 DEF Books
<1>10. Goes(c, d)
  BY <1>3, <1>5, <1>7, <1>9, Windows
<1>11. d \in Channels /\ Books(d) /\ ~d.closed /\ d.local = Slot(m.chanList) /\ d.dir = "in"
  BY <1>6, <1>8, <1>10 DEF Goes
<1>12. l \in Seq(Nat) /\ p \in Seq(Nat) /\ m.panic = FALSE
  <2>1. m.chanList \in Seq(Nat) /\ m.incoming \in Seq(Nat) /\ m.panic = FALSE
    BY <1>2 DEF Muxes, EndOK
  <2>2. z \in Nat
    BY <1>2, <1>4
  <2> QED BY <1>5, <2>1, <2>2, AddFacts
<1>13. n \in Muxes
  BY <1>2, <1>5, <1>12 DEF Muxes
<1>14. n.panic = m.panic /\ n.responses = m.responses /\ n.chanList = l /\ n.incoming = p
  BY <1>2, <1>5 DEF Muxes
<1>15. Append(objs, d) \in Seq(Channels) /\ EndOK(n, Append(objs, d))
  BY <1>2, <1>4, <1>5, <1>11, <1>12, <1>13, <1>14, Adding
<1> QED BY <1>3, <1>5, <1>13, <1>15, EndStep DEF handleChannelOpen

LEMMA openChannelKeeps == ASSUME MuxInv, NEW s \in End, openChannel(s) PROVE MuxInv'
<1>1. PICK m, objs, c : m = mx[s] /\ objs = ch[s] /\ c = newChannel(s, "out")
  OBVIOUS
<1>2. m \in Muxes /\ objs \in Seq(Channels) /\ EndOK(m, objs)
  BY <1>1, MuxFacts
<1>3. PICK d, l, k, n :
        /\ d = c \/ d = [c EXCEPT !.state = "failed"]
        /\ ch' = [ch EXCEPT ![s] = Append(objs, d)]
        /\ l = add(m.chanList, Len(objs) + 1) /\ k = m.opened + 1
        /\ n = [m EXCEPT !.opened = k, !.chanList = l] /\ mx' = [mx EXCEPT ![s] = n]
  BY <1>1 DEF openChannel, SetMx, MuxInv
<1>4. /\ c \in Channels /\ Books(c) /\ c.closed = FALSE /\ c.local = Slot(m.chanList)
  BY <1>1, NewFacts
<1>5. d \in Channels /\ Books(d) /\ ~d.closed /\ d.local = Slot(m.chanList)
  <2>1. CASE d = c
    BY <1>4, <2>1
  <2>2. CASE d = [c EXCEPT !.state = "failed"]
    <3>1. d \in Channels
      BY <1>4, <2>2 DEF Channels
    <3>2. Untouched(c, d)
      BY <1>4, <2>2 DEF Channels, Untouched, InHands
    <3> QED BY <1>4, <3>1, <3>2, UntouchedGoes DEF Goes, Untouched
  <2> QED BY <1>3, <2>1, <2>2
<1>6. l \in Seq(Nat) /\ k \in Nat /\ m.panic = FALSE
  <2>1. m.chanList \in Seq(Nat) /\ m.opened \in Nat /\ m.panic = FALSE
    BY <1>2 DEF Muxes, EndOK
  <2>2. Len(objs) + 1 \in Nat
    BY <1>2
  <2>3. add(m.chanList, Len(objs) + 1) \in Seq(Nat)
    BY <2>1, <2>2, AddFacts, Zenon
  <2> QED BY <1>3, <2>1, <2>3
<1>7. n \in Muxes
  BY <1>2, <1>3, <1>6 DEF Muxes
<1>8. n.panic = m.panic /\ n.responses = m.responses /\ n.chanList = l /\ n.incoming = m.incoming
  BY <1>2, <1>3 DEF Muxes
<1>9. Append(objs, d) \in Seq(Channels) /\ EndOK(n, Append(objs, d))
  BY <1>2, <1>3, <1>5, <1>6, <1>7, <1>8, Adding
<1>10. wire' \in Wires
  <2>1. c.local \in Nat /\ WindowSize \in Nat
    BY <1>4, ChanFields, MuxAssumption
  <2>2. Msg("open", 0, c.local, WindowSize) \in Packets
    BY <2>1, Made DEF Types
  <2> QED BY <1>1, <2>2, Sending DEF openChannel
<1> QED BY <1>3, <1>7, <1>9, <1>10, EndStep DEF openChannel

(* The user decides about the channel that is offered first.               *)
LEMMA OfferDecided ==
    ASSUME MuxInv, NEW s \in End, mx[s].incoming # <<>>, NEW d, Goes(ch[s][Offered(s)], d),
           SetCh(s, Offered(s), d), SetMx(s, [mx[s] EXCEPT !.incoming = Tail(@)]),
           wire' \in Wires, plan' = plan, rogue' = rogue
    PROVE  MuxInv'
<1>1. PICK m, objs, o, p, n : /\ m = mx[s] /\ objs = ch[s] /\ o = Offered(s) /\ p = Tail(m.incoming)
                              /\ n = [m EXCEPT !.incoming = p]
  OBVIOUS
<1>2. m \in Muxes /\ objs \in Seq(Channels) /\ EndOK(m, objs)
  BY <1>1, MuxFacts
<1>3. m.incoming \in Seq(Nat) /\ m.incoming # <<>>
  BY <1>1, <1>2 DEF Muxes
<1>4. p \in Seq(Nat) /\ \A j \in DOMAIN p : j + 1 \in DOMAIN m.incoming /\ p[j] = m.incoming[j + 1]
  BY <1>1, <1>3
<1>5. o \in DOMAIN objs
  <2>1. 1 \in DOMAIN m.incoming /\ o = m.incoming[1]
    BY <1>1, <1>3 DEF Offered
  <2> QED BY <1>2, <2>1 DEF EndOK, OffersAreIn
<1>6. PICK q : q = [objs EXCEPT ![o] = d]
  OBVIOUS
<1>7. q \in Seq(Channels) /\ EndOK(m, q)
  BY <1>1, <1>2, <1>5, <1>6, OneChannel
<1>8. n \in Muxes
  BY <1>1, <1>2, <1>4 DEF Muxes
<1>9. n.panic = m.panic /\ n.responses = m.responses /\ n.chanList = m.chanList /\ n.incoming = p
  BY <1>1, <1>2 DEF Muxes
<1>10. OffersAreIn(p, q)
  BY <1>4, <1>7 DEF EndOK, OffersAreIn
<1>11. EndOK(n, q)
  BY <1>7, <1>9, <1>10 DEF EndOK
<1>12. ch' = [ch EXCEPT ![s] = q]
  BY <1>1, <1>6 DEF SetCh, MuxInv
<1>13. mx' = [mx EXCEPT ![s] = n]
  BY <1>1 DEF SetMx
<1> QED BY <1>7, <1>8, <1>11, <1>12, <1>13, EndStep

LEMMA OfferFacts ==
    ASSUME MuxInv, NEW s \in End, mx[s].incoming # <<>>
    PROVE  /\ Offered(s) \in Obj(s) /\ ch[s][Offered(s)] \in Channels
           /\ Books(ch[s][Offered(s)]) /\ ch[s][Offered(s)].dir = "in"
<1>1. mx[s].incoming \in Seq(Nat) /\ EndOK(mx[s], ch[s])
  BY MuxFacts DEF Muxes
<1>2. 1 \in DOMAIN mx[s].incoming /\ Offered(s) = mx[s].incoming[1]
  BY <1>1 DEF Offered
<1>3. Offered(s) \in Obj(s) /\ ch[s][Offered(s)].dir = "in"
  BY <1>1, <1>2 DEF EndOK, OffersAreIn, Obj
<1> QED BY <1>3, ChanFacts

LEMMA AcceptKeeps == ASSUME MuxInv, NEW s \in End, Accept(s) PROVE MuxInv'
<1>1. PICK o, c, st, d : /\ o = Offered(s) /\ c = ch[s][o]
                         /\ st = IF CanSend(c) /\ mx[s].open THEN "open" ELSE "failed"
                         /\ d = [c EXCEPT !.decided = TRUE, !.maxIncoming = TRUE, !.state = st]
                         /\ SetCh(s, o, d)
  BY DEF Accept
<1>2. c \in Channels /\ Books(c) /\ c.dir = "in"
  BY <1>1, OfferFacts DEF Accept
<1>3. st \in {"opening", "open", "failed", "rejected"}
  BY <1>1
<1>4. d = [c EXCEPT !.decided = TRUE, !.maxIncoming = TRUE, !.state = st]
  BY <1>1
<1>5. d \in Channels
  BY <1>2, <1>3, <1>4 DEF Channels
<1>6. /\ d.dir = c.dir /\ d.local = c.local /\ d.closed = c.closed
      /\ InHands(d) = InHands(c)
      /\ d.myWindow = c.myWindow /\ d.pending = c.pending
      /\ d.remoteWin = c.remoteWin /\ d.spent = c.spent /\ d.granted = c.granted
  BY <1>2, <1>4 DEF Channels, InHands
<1>7. Books(d)
  BY <1>2, <1>6 DEF Books
<1>8. Goes(c, d)
  BY <1>2, <1>5, <1>6, <1>7 DEF Goes, Refused
<1>9. wire' \in Wires
  <2>1. c.local \in Nat /\ c.myWindow \in Nat
    BY <1>2, ChanFields
  <2>2. Msg("confirm", c.remote, c.local, c.myWindow) \in Packets
    BY <1>2, <2>1, Says DEF Types, ChannelPackets
  <2> QED BY <1>1, <2>2, Sending DEF Accept
<1> QED BY <1>1, <1>8, <1>9, OfferDecided DEF Accept

LEMMA RejectKeeps == ASSUME MuxInv, NEW s \in End, Reject(s) PROVE MuxInv'
<1>1. PICK o, c, d : /\ o = Offered(s) /\ c = ch[s][o]
                     /\ d = [c EXCEPT !.decided = TRUE, !.state = "rejected"] /\ SetCh(s, o, d)
  BY DEF Reject
<1>2. c \in Channels /\ Books(c) /\ c.dir = "in"
  BY <1>1, OfferFacts DEF Reject
<1>3. d \in Channels
  <2>1. d = [c EXCEPT !.decided = TRUE, !.state = "rejected"]
    BY <1>1
  <2> QED BY <1>2, <2>1 DEF Channels
<1>4. /\ d.dir = c.dir /\ d.local = c.local /\ d.closed = c.closed
      /\ InHands(d) = InHands(c)
      /\ d.myWindow = c.myWindow /\ d.pending = c.pending
      /\ d.remoteWin = c.remoteWin /\ d.spent = c.spent /\ d.granted = c.granted
  BY <1>1, <1>2 DEF Channels, InHands
<1>5. Books(d)
  BY <1>2, <1>4 DEF Books
<1>6. Goes(c, d)
  BY <1>2, <1>3, <1>4, <1>5 DEF Goes, Refused
<1>7. wire' \in Wires
  <2>1. Msg("reject", c.remote, 0, 0) \in Packets
    BY <1>2, Says DEF Types, ChannelPackets
  <2> QED BY <1>1, <2>1, Sending DEF Reject
<1> QED BY <1>1, <1>6, <1>7, OfferDecided DEF Reject

LEMMA dropAllKeeps == ASSUME MuxInv, NEW s \in End, dropAll(s) PROVE MuxInv'
<1>1. PICK m, objs, live : /\ m = mx[s] /\ objs = ch[s]
                           /\ live = {o \in Obj(s) : \E i \in DOMAIN mx[s].chanList :
                                        mx[s].chanList[i] = o}
  OBVIOUS
<1>2. m \in Muxes /\ objs \in Seq(Channels) /\ EndOK(m, objs)
  BY <1>1, MuxFacts
<1>3. PICK q : q = [o \in DOMAIN objs |-> IF o \in live THEN Closed(objs[o]) ELSE objs[o]]
  OBVIOUS
<1>4. ch' = [ch EXCEPT ![s] = q]
  BY <1>1, <1>3 DEF dropAll, MuxInv, Obj
<1>5. PICK p, n : /\ p = (m.panic \/ \E o \in live : objs[o].closed)
                  /\ n = [m EXCEPT !.chanList = <<>>, !.loop = "close", !.panic = p]
                  /\ mx' = [mx EXCEPT ![s] = n]
  BY <1>1 DEF dropAll, SetMx
<1>6. \A o \in live : ~objs[o].closed
  BY <1>1, <1>2 DEF EndOK, SlotsKnown, Obj
<1>7. p = FALSE
  BY <1>2, <1>5, <1>6 DEF EndOK
<1>8. n \in Muxes
  <2>1. <<>> \in Seq(Nat)
    OBVIOUS
  <2> QED BY <1>2, <1>5, <1>7, <2>1 DEF Muxes
<1>9. n.panic = p /\ n.responses = m.responses /\ n.chanList = <<>> /\ n.incoming = m.incoming
  BY <1>2, <1>5 DEF Muxes
<1>10. \A o \in DOMAIN objs : objs[o] \in Channels /\ Books(objs[o])
  BY <1>2 DEF EndOK
<1>11. \A o \in DOMAIN objs : q[o] \in Channels /\ Books(q[o]) /\ q[o].dir = objs[o].dir
  BY <1>3, <1>10, ClosedFacts
<1>12. q \in Seq(Channels) /\ DOMAIN q = DOMAIN objs
  BY <1>2, <1>3, <1>11
<1>13. SlotsKnown(<<>>, q)
  BY DEF SlotsKnown
<1>14. OffersAreIn(m.incoming, q)
  BY <1>2, <1>11, <1>12 DEF EndOK, OffersAreIn
<1>15. GoneAreDone(<<>>, q)
  <2>1. SUFFICES ASSUME NEW o \in DOMAIN objs PROVE q[o].closed \/ Refused(q[o])
    BY <1>12 DEF GoneAreDone
  <2>2. CASE o \in live
    BY <1>3, <1>10, <2>2, ClosedFacts
  <2>3. CASE o \notin live
    <3>1. q[o] = objs[o] /\ \A i \in DOMAIN m.chanList : m.chanList[i] # o
      BY <1>1, <1>3, <2>3 DEF Obj
    <3> QED BY <1>2, <3>1 DEF EndOK, GoneAreDone
  <2> QED BY <2>2, <2>3
<1>16. EndOK(n, q)
  BY <1>2, <1>7, <1>9, <1>11, <1>12, <1>13, <1>14, <1>15 DEF EndOK
<1> QED BY <1>4, <1>5, <1>8, <1>12, <1>16, EndStep DEF dropAll, MuxInv

-----------------------------------------------------------------------------
LEMMA MuxInitially == ASSUME Init PROVE MuxInv
<1>1. plan \in Scenario /\ rogue \in Seq(Packets)
  <2>1. plan \in Scenario
    BY MuxAssumption DEF Init, MuxInit
  <2>2. plan.rogue \in Seq(Packets)
    BY <2>1 DEF Scenario
  <2> QED BY <2>1, <2>2 DEF Init, MuxInit
<1>2. wire \in Wires /\ ch \in [End -> Seq(Channels)]
  <2>1. <<>> \in Seq(Packets) /\ <<>> \in Seq(Channels)
    OBVIOUS
  <2> QED BY <2>1 DEF Init, MuxInit, Wires
<1>3. PICK m : m = [loop |-> "run", err |-> "", open |-> TRUE, panic |-> FALSE,
               chanList |-> <<>>, incoming |-> <<>>, requests |-> <<>>, responses |-> <<>>,
               opened |-> 0, asking |-> FALSE, asked |-> 0]
  OBVIOUS
<1>4. m \in Muxes
  <2>1. <<>> \in Seq(Nat) /\ <<>> \in Seq({"global"}) /\ <<>> \in Seq({"globalReply"})
    OBVIOUS
  <2>2. "" \in LoopErrors
    BY DEF LoopErrors
  <2> QED BY <1>3, <2>1, <2>2 DEF Muxes
<1>5. mx = [s \in End |-> m]
  BY <1>3 DEF Init, MuxInit
<1>6. EndOK(m, <<>>)
  <2>1. m.panic = FALSE /\ m.chanList = <<>> /\ m.incoming = <<>> /\ m.responses = <<>>
    BY <1>3
  <2> QED BY <2>1 DEF EndOK, SlotsKnown, OffersAreIn, GoneAreDone
<1>7. \A s \in End : mx[s] = m /\ ch[s] = <<>>
  BY <1>5 DEF Init, MuxInit
<1> QED BY <1>1, <1>2, <1>4, <1>5, <1>6, <1>7 DEF MuxInv

LEMMA LoopKeeps == ASSUME MuxInv, NEW s \in End, LoopStep(s) PROVE MuxInv'
BY LoopEOFKeeps, handleChannelOpenKeeps, refuseOpenKeeps, handleGlobalPacketKeeps, InvalidChannelKeeps,
   handleDataKeeps, handleEOFKeeps, handleCloseKeeps, handleOpenResponseKeeps,
   handleAdjustKeeps, handleRequestKeeps, dropAllKeeps, loopEndsKeeps DEF LoopStep

LEMMA UserKeeps == ASSUME MuxInv, NEW s \in End, UserStep(s) PROVE MuxInv'
<1>1. CASE \/ openChannel(s) \/ Accept(s) \/ Reject(s)
           \/ GlobalRequest(s) \/ GlobalReplied(s) \/ handleGlobalRequests(s) \/ Hangup(s)
  BY <1>1, openChannelKeeps, AcceptKeeps, RejectKeeps, GlobalRequestKeeps, GlobalRepliedKeeps,
     handleGlobalRequestsKeeps, HangupKeeps
<1>2. ASSUME NEW o \in Obj(s),
             \/ Opened(s, o) \/ Reserve(s, o) \/ WriteExtended(s, o) \/ CloseWrite(s, o)
             \/ CloseChannel(s, o) \/ ReadExtended(s, o) \/ creditWindow(s, o) \/ adjustWindow(s, o)
             \/ SendRequest(s, o) \/ Replied(s, o) \/ ackRequest(s, o)
      PROVE  MuxInv'
  BY <1>2, OpenedKeeps, ReserveKeeps, WriteExtendedKeeps, CloseWriteKeeps, CloseChannelKeeps,
     ReadExtendedKeeps, creditWindowKeeps, adjustWindowKeeps, SendRequestKeeps, RepliedKeeps, ackRequestKeeps
<1> QED BY <1>1, <1>2 DEF UserStep

LEMMA MuxInductive == ASSUME MuxInv, [Next]_vars PROVE MuxInv'
<1>1. CASE MuxNext
  BY <1>1, RogueKeeps, LoopKeeps, UserKeeps DEF MuxNext
<1>2. CASE UNCHANGED muxVars
  BY <1>2 DEF muxVars, MuxInv
<1> QED BY <1>1, <1>2 DEF Next, Authenticate, newMux, StrayPacket, Multiplex, muxVars, vars

LEMMA MuxInvIsSound == ASSUME MuxInv PROVE ChannelsSound
<1>1. MuxTypeOK
  <2>1. SUFFICES ASSUME NEW s \in End
                 PROVE  /\ mx[s].loop \in {"run", "drop", "close", "done"}
                        /\ Len(mx[s].responses) <= 1
                        /\ \A o \in Obj(s) :
                             /\ ch[s][o].state \in {"opening", "open", "failed", "rejected"}
                             /\ ch[s][o].remoteWin \in 0 .. WindowMod - 1
                             /\ ch[s][o].myWindow \in 0 .. WindowSize
    BY DEF MuxTypeOK
  <2>2. mx[s].loop \in {"run", "drop", "close", "done"} /\ Len(mx[s].responses) <= 1
    BY MuxFacts DEF Muxes, EndOK
  <2>3. ASSUME NEW o \in Obj(s)
        PROVE  /\ ch[s][o].state \in {"opening", "open", "failed", "rejected"}
               /\ ch[s][o].remoteWin \in 0 .. WindowMod - 1
               /\ ch[s][o].myWindow \in 0 .. WindowSize
    <3>1. PICK c : c = ch[s][o]
      OBVIOUS
    <3>2. c \in Channels /\ Books(c)
      BY <3>1, ChanFacts
    <3>3. /\ c.state \in {"opening", "open", "failed", "rejected"} /\ c.remoteWin \in Nat
          /\ c.myWindow \in Nat /\ c.pending \in Nat
      BY <3>2 DEF Channels
    <3> QED BY <3>1, <3>2, <3>3, HandsFacts, MuxAssumption DEF Books
  <2> QED BY <2>2, <2>3
<1>2. ListMatches
  <2>1. SUFFICES ASSUME NEW s \in End, NEW o \in Obj(s)
                 PROVE  /\ ch[s][o].closed => ~Listed(s, o)
                        /\ ~Listed(s, o) => ch[s][o].closed \/ Refused(ch[s][o])
    BY DEF ListMatches, Refused
  <2>2. SlotsKnown(mx[s].chanList, ch[s]) /\ GoneAreDone(mx[s].chanList, ch[s])
    BY MuxFacts DEF EndOK
  <2>3. o # 0
    BY MuxFacts DEF Obj
  <2> QED BY <2>2, <2>3 DEF SlotsKnown, GoneAreDone, Listed, Obj
<1>3. SurvivesPeer
  BY MuxFacts, ChanFacts DEF SurvivesPeer, EndOK, Books
<1> QED BY <1>1, <1>2, <1>3 DEF ChannelsSound

(* For every scenario of two users and every sequence of packets a peer    *)
(* of another make sends, any number of channels and every window: a slot  *)
(* of the list holds a live channel that knows it, a channel without one   *)
(* is closed or was refused, none is closed twice, the remote window never *)
(* wraps and the own one never outgrows its size (mux.loop, chanList,      *)
(* channel.handlePacket, window.add).                                      *)
THEOREM ChannelsSurvive == Spec => []ChannelsSound
<1>1. Spec => []MuxInv
  BY MuxInitially, MuxInductive, PTL DEF Spec
<1> QED BY <1>1, MuxInvIsSound, PTL

=============================================================================
