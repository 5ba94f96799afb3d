---------------------------- MODULE Http1Proofs -----------------------------
(* Proofs about the HTTP/1 client, for every set of callers, connections   *)
(* and settings.                                                           *)
EXTENDS HttpTransport, FiniteSetTheorems, SequenceTheorems, WellFoundedInduction, TLAPS

-----------------------------------------------------------------------------
(* Induction over numbers, and what it says of Without.                    *)

LEMMA LeastNumber ==
    ASSUME NEW T \in SUBSET Nat, T # {}
    PROVE  \E m \in T : \A n \in T : m <= n
<1>1. IsWellFoundedOn(OpToRel(<, Nat), Nat)
  BY NatLessThanWellFounded
<1>2. PICK m \in T : \A n \in T : ~(<<n, m>> \in OpToRel(<, Nat))
  BY <1>1, WFMin
<1>3. \A n \in T : ~(n < m)
  BY <1>2 DEF OpToRel
<1> QED BY <1>3

LEMMA Induction ==
    ASSUME NEW T \in SUBSET Nat, 0 \in T, \A n \in T : n + 1 \in T
    PROVE  \A n \in Nat : n \in T
<1> DEFINE B == Nat \ T
<1> SUFFICES ASSUME B # {} PROVE FALSE
  OBVIOUS
<1>1. PICK m \in B : \A n \in B : m <= n
  BY LeastNumber
<1>2. m # 0 /\ m \in Nat
  OBVIOUS
<1>3. m - 1 \in Nat /\ m - 1 \notin B
  BY <1>1, <1>2
<1> QED BY <1>2, <1>3

(* One step of Without, and its steps up to the m-th entry.                *)
Kept(v, x, gone) == IF x \in gone THEN v ELSE Append(v, x)
Steps(f, s, gone, m) == f[0] = <<>> /\ \A n \in 1..m : f[n] = Kept(f[n - 1], s[n], gone)
Keeping(s, gone, f) ==
    f = [n \in 0..Len(s) |-> IF n = 0 THEN <<>>
                             ELSE IF s[n] \in gone THEN f[n - 1] ELSE Append(f[n - 1], s[n])]

LEMMA KeptType ==
    ASSUME NEW S, NEW v \in Seq(S), NEW x \in S, NEW gone
    PROVE  Kept(v, x, gone) \in Seq(S)
  BY DEF Kept

LEMMA KeepingSteps ==
    ASSUME NEW S, NEW s \in Seq(S), NEW gone, NEW f
    PROVE  /\ Keeping(s, gone, f) => Steps(f, s, gone, Len(s))
           /\ f \in [0..Len(s) -> Seq(S)] /\ Steps(f, s, gone, Len(s)) => Keeping(s, gone, f)
<1> DEFINE g == [n \in 0..Len(s) |-> IF n = 0 THEN <<>>
                             ELSE IF s[n] \in gone THEN f[n - 1] ELSE Append(f[n - 1], s[n])]
<1>1. Len(s) \in Nat
  OBVIOUS
<1>2. g[0] = <<>>
  BY <1>1
<1>3. ASSUME NEW n \in 1..Len(s) PROVE g[n] = Kept(f[n - 1], s[n], gone)
  <2>1. n # 0 /\ n \in 0..Len(s)
    BY <1>1
  <2>2. g[n] = IF n = 0 THEN <<>> ELSE IF s[n] \in gone THEN f[n - 1] ELSE Append(f[n - 1], s[n])
    BY <2>1, Zenon
  <2> HIDE DEF g
  <2> QED BY <2>1, <2>2, Zenon DEF Kept
<1>4. Keeping(s, gone, f) => f = g
  BY Zenon DEF Keeping
<1>5. Keeping(s, gone, f) => Steps(f, s, gone, Len(s))
  BY <1>2, <1>3, <1>4, Zenon DEF Steps
<1>6. ASSUME f \in [0..Len(s) -> Seq(S)], Steps(f, s, gone, Len(s)) PROVE Keeping(s, gone, f)
  <2>1. ASSUME NEW n \in 0..Len(s) PROVE f[n] = g[n]
    <3>1. CASE n = 0
      BY <1>2, <1>6, <3>1, Zenon DEF Steps
    <3>2. CASE n # 0
      <4>1. n \in 1..Len(s)
        BY <3>2
      <4> QED BY <1>3, <1>6, <4>1, Zenon DEF Steps
    <3> QED BY <3>1, <3>2
  <2> HIDE DEF g
  <2>2. g = [n \in 0..Len(s) |-> g[n]]
    BY DEF g
  <2>3. f = g
    BY <1>6, <2>1, <2>2
  <2> QED BY <2>3, Zenon DEF g, Keeping
<1> QED BY <1>5, <1>6

(* Such a function exists: it is built up to each length.                  *)
LEMMA KeepingExists ==
    ASSUME NEW S, NEW s \in Seq(S), NEW gone
    PROVE  \E f \in [0..Len(s) -> Seq(S)] : Steps(f, s, gone, Len(s))
<1> DEFINE P(m) == m <= Len(s) => \E f \in [0..m -> Seq(S)] : Steps(f, s, gone, m)
           T == {m \in Nat : P(m)}
<1>1. P(0)
  <2> DEFINE f == [n \in 0..0 |-> <<>>]
  <2>1. f \in [0..0 -> Seq(S)] /\ f[0] = <<>>
    OBVIOUS
  <2>2. Steps(f, s, gone, 0)
    BY <2>1 DEF Steps
  <2> QED BY <2>1, <2>2
<1>2. ASSUME NEW m \in Nat, P(m), m + 1 <= Len(s)
      PROVE  \E f \in [0..(m + 1) -> Seq(S)] : Steps(f, s, gone, m + 1)
  <2>1. PICK f \in [0..m -> Seq(S)] : Steps(f, s, gone, m)
    BY <1>2
  <2>2. PICK x : x = Kept(f[m], s[m + 1], gone)
    OBVIOUS
  <2>3. x \in Seq(S)
    BY <1>2, <2>1, <2>2, KeptType
  <2> DEFINE g == [n \in 0..(m + 1) |-> IF n = m + 1 THEN x ELSE f[n]]
  <2>4. g \in [0..(m + 1) -> Seq(S)]
    BY <2>1, <2>3
  <2>5. g[0] = f[0] /\ g[m + 1] = x /\ \A n \in 0..m : g[n] = f[n]
    OBVIOUS
  <2> HIDE DEF g
  <2>6. ASSUME NEW n \in 1..(m + 1) PROVE g[n] = Kept(g[n - 1], s[n], gone)
    <3>1. CASE n = m + 1
      <4>1. g[n - 1] = f[m]
        BY <2>5, <3>1
      <4> QED BY <2>2, <2>5, <3>1, <4>1
    <3>2. CASE n # m + 1
      <4>1. n \in 1..m /\ n - 1 \in 0..m /\ n \in 0..m
        BY <3>2
      <4> QED BY <2>1, <2>5, <4>1 DEF Steps
    <3> QED BY <3>1, <3>2
  <2>7. Steps(g, s, gone, m + 1)
    BY <2>1, <2>5, <2>6 DEF Steps
  <2> QED BY <2>4, <2>7
<1> HIDE DEF P
<1>3. \A m \in T : m + 1 \in T
  BY <1>2 DEF P
<1>4. \A m \in Nat : m \in T
  BY <1>1, <1>3, Induction
<1>5. P(Len(s))
  BY <1>4
<1> QED BY <1>5 DEF P

LEMMA WithoutSteps ==
    ASSUME NEW S, NEW s \in Seq(S), NEW gone
    PROVE  \E f : Steps(f, s, gone, Len(s)) /\ Without(s, gone) = f[Len(s)]
<1> DEFINE f == CHOOSE g : Keeping(s, gone, g)
<1>1. \E g : Keeping(s, gone, g)
  BY KeepingExists, KeepingSteps
<1>2. Keeping(s, gone, f)
  BY <1>1, Zenon
<1>3. Without(s, gone) = f[Len(s)]
  BY Zenon DEF Without, Keeping
<1> HIDE DEF f
<1> QED BY <1>2, <1>3, KeepingSteps

(* The rest of a list keeps its order, loses exactly what is gone, and has *)
(* nothing twice when the list has not.                                    *)
Rest(s, gone, t, m) ==
    /\ Len(t) <= m
    /\ \A i \in 1..Len(t) : t[i] \notin gone /\ \E n \in 1..m : s[n] = t[i]
    /\ \A n \in 1..m : s[n] \notin gone => \E i \in 1..Len(t) : t[i] = s[n]
    /\ (\E n \in 1..m : s[n] \in gone) => Len(t) < m
    /\ (\A i, j \in 1..m : s[i] = s[j] => i = j) => \A i, j \in 1..Len(t) : t[i] = t[j] => i = j

LEMMA RestStep ==
    ASSUME NEW S, NEW s \in Seq(S), NEW gone, NEW m \in Nat, m + 1 <= Len(s),
           NEW t \in Seq(S), Rest(s, gone, t, m)
    PROVE  Rest(s, gone, Kept(t, s[m + 1], gone), m + 1)
<1>1. s[m + 1] \in S /\ m + 1 \in 1..(m + 1) /\ \A n \in 1..m : n \in 1..(m + 1)
  OBVIOUS
<1>2. CASE s[m + 1] \in gone
  <2>1. Kept(t, s[m + 1], gone) = t
    BY <1>2 DEF Kept
  <2>2. Len(t) < m + 1 /\ Len(t) <= m + 1
    BY DEF Rest
  <2>3. \A i \in 1..Len(t) : t[i] \notin gone /\ \E n \in 1..(m + 1) : s[n] = t[i]
    BY <1>1 DEF Rest
  <2>4. ASSUME NEW n \in 1..(m + 1), s[n] \notin gone PROVE \E i \in 1..Len(t) : t[i] = s[n]
    <3>1. n \in 1..m
      BY <1>2, <2>4
    <3> QED BY <2>4, <3>1 DEF Rest
  <2>5. (\A i, j \in 1..(m + 1) : s[i] = s[j] => i = j) => \A i, j \in 1..Len(t) : t[i] = t[j] => i = j
    BY <1>1 DEF Rest
  <2> QED BY <2>1, <2>2, <2>3, <2>4, <2>5 DEF Rest
<1>3. CASE s[m + 1] \notin gone
  <2>1. PICK u : u = Append(t, s[m + 1])
    OBVIOUS
  <2>2. Kept(t, s[m + 1], gone) = u
    BY <1>3, <2>1 DEF Kept
  <2>3. /\ Len(u) = Len(t) + 1 /\ Len(t) \in Nat /\ u[Len(t) + 1] = s[m + 1]
        /\ \A i \in 1..Len(t) : u[i] = t[i]
    BY <1>1, <2>1
  <2>4. \A i \in 1..Len(u) : i \in 1..Len(t) \/ i = Len(t) + 1
    BY <2>3
  <2>5. \A i \in 1..Len(u) : u[i] \notin gone /\ \E n \in 1..(m + 1) : s[n] = u[i]
    BY <1>1, <1>3, <2>3, <2>4 DEF Rest
  <2>6. \A n \in 1..(m + 1) : s[n] \notin gone => \E i \in 1..Len(u) : u[i] = s[n]
    <3> SUFFICES ASSUME NEW n \in 1..(m + 1), s[n] \notin gone PROVE \E i \in 1..Len(u) : u[i] = s[n]
      OBVIOUS
    <3>1. CASE n = m + 1
      BY <2>3, <3>1
    <3>2. CASE n # m + 1
      <4>1. n \in 1..m
        BY <3>2
      <4>2. PICK i \in 1..Len(t) : t[i] = s[n]
        BY <4>1 DEF Rest
      <4> QED BY <2>3, <4>2
    <3> QED BY <3>1, <3>2
  <2>7. (\E n \in 1..(m + 1) : s[n] \in gone) => Len(u) < m + 1
    <3> SUFFICES ASSUME NEW n \in 1..(m + 1), s[n] \in gone PROVE Len(u) < m + 1
      OBVIOUS
    <3>1. n \in 1..m
      BY <1>3
    <3> QED BY <2>3, <3>1 DEF Rest
  <2>8. ASSUME \A i, j \in 1..(m + 1) : s[i] = s[j] => i = j, NEW i \in 1..Len(u), NEW j \in 1..Len(u), u[i] = u[j]
        PROVE  i = j
    <3>1. \A n \in 1..m : s[n] # s[m + 1]
      BY <1>1, <2>8
    <3>2. \A n \in 1..Len(t) : t[n] # s[m + 1]
      BY <3>1 DEF Rest
    <3>3. \A n, l \in 1..Len(t) : t[n] = t[l] => n = l
      BY <1>1, <2>8 DEF Rest
    <3> QED BY <2>3, <2>4, <2>8, <3>2, <3>3
  <2>9. Len(u) <= m + 1
    BY <2>3 DEF Rest
  <2> QED BY <2>2, <2>5, <2>6, <2>7, <2>8, <2>9 DEF Rest
<1> QED BY <1>2, <1>3

LEMMA WithoutRest ==
    ASSUME NEW S, NEW s \in Seq(S), NEW gone
    PROVE  Without(s, gone) \in Seq(S) /\ Rest(s, gone, Without(s, gone), Len(s))
<1>1. PICK f : Steps(f, s, gone, Len(s)) /\ Without(s, gone) = f[Len(s)]
  BY WithoutSteps
<1> DEFINE P(m) == m <= Len(s) => f[m] \in Seq(S) /\ Rest(s, gone, f[m], m)
           T == {m \in Nat : P(m)}
<1>2. P(0)
  <2>1. f[0] = <<>>
    BY <1>1 DEF Steps
  <2> QED BY <2>1 DEF Rest
<1>3. ASSUME NEW m \in Nat, P(m), m + 1 <= Len(s) PROVE f[m + 1] \in Seq(S) /\ Rest(s, gone, f[m + 1], m + 1)
  <2>1. f[m + 1] = Kept(f[m], s[m + 1], gone)
    <3>1. m + 1 \in 1..Len(s) /\ (m + 1) - 1 = m
      BY <1>3
    <3> QED BY <1>1, <3>1 DEF Steps
  <2>2. s[m + 1] \in S /\ f[m] \in Seq(S) /\ Rest(s, gone, f[m], m)
    BY <1>3
  <2> QED BY <1>3, <2>1, <2>2, KeptType, RestStep
<1> HIDE DEF P
<1>4. \A m \in T : m + 1 \in T
  BY <1>3 DEF P
<1>5. \A m \in Nat : m \in T
  BY <1>2, <1>4, Induction
<1>6. P(Len(s))
  BY <1>5
<1> QED BY <1>1, <1>6 DEF P

LEMMA WithoutProperties ==
    ASSUME NEW S, NEW s \in Seq(S), NEW gone
    PROVE  LET t == Without(s, gone) IN
           /\ t \in Seq(S) /\ Len(t) <= Len(s)
           /\ Range(t) = Range(s) \ gone
           /\ IsInjective(s) => IsInjective(t)
           /\ (\E x \in Range(s) : x \in gone) => Len(t) < Len(s)
<1>1. PICK t : t = Without(s, gone)
  OBVIOUS
<1>2. t \in Seq(S) /\ Rest(s, gone, t, Len(s))
  BY <1>1, WithoutRest
<1>3. DOMAIN t = 1..Len(t) /\ DOMAIN s = 1..Len(s)
  BY <1>2
<1>4. Range(t) = Range(s) \ gone
  <2>1. ASSUME NEW x \in Range(t) PROVE x \in Range(s) /\ x \notin gone
    <3>1. PICK i \in 1..Len(t) : x = t[i]
      BY <1>3, <2>1, Zenon DEF Range
    <3>2. PICK n \in 1..Len(s) : s[n] = t[i]
      BY <1>2, Zenon DEF Rest
    <3> QED BY <1>2, <1>3, <3>1, <3>2, ZenonT(40) DEF Rest, Range
  <2>2. ASSUME NEW x \in Range(s), x \notin gone PROVE x \in Range(t)
    <3>1. PICK n \in 1..Len(s) : x = s[n]
      BY <1>3, <2>2, Zenon DEF Range
    <3>2. PICK i \in 1..Len(t) : t[i] = s[n]
      BY <1>2, <2>2, <3>1, Zenon DEF Rest
    <3> QED BY <1>3, <3>1, <3>2, Zenon DEF Range
  <2> QED BY <2>1, <2>2
<1>5. IsInjective(s) => IsInjective(t)
  BY <1>2, <1>3, Zenon DEF Rest, IsInjective
<1>6. (\E x \in Range(s) : x \in gone) => Len(t) < Len(s)
  BY <1>2, <1>3, ZenonT(40) DEF Rest, Range
<1> QED BY <1>1, <1>2, <1>4, <1>5, <1>6 DEF Rest

-----------------------------------------------------------------------------
(* Types.  A connection's record has 28 fields, so what a step leaves alone *)
(* is said of all of them at once.                                         *)

Reqs == Callers \X Hops
MaybeReq == Reqs \cup {NoReq}
Frames == [req : Reqs, form : Forms \cup {"data"}]
Pcs == {"getconn", "join", "select", "start", "wait", "map", "body", "eof", "done"}
ConnFields ==
    {"dial", "by", "wanted", "key", "closed", "canceled", "reused", "expected", "nwrite", "writech",
     "reqch", "fired", "w", "wr", "werr", "writeErrCh", "r", "rc", "res", "from", "peeked", "alive",
     "sawEOF", "bodyRead", "up", "down", "owes", "eof"}
ConnTypes ==
    [dial |-> {"no", "dialing", "up", "failed"}, by |-> Callers \cup {None}, wanted |-> BOOLEAN,
     key |-> Hosts, canceled |-> BOOLEAN, reused |-> BOOLEAN, expected |-> Int,
     nwrite |-> Nat, writech |-> Seq(Reqs), reqch |-> Seq(Reqs), fired |-> BOOLEAN,
     w |-> {"idle", "report", "done"}, wr |-> MaybeReq,
     r |-> {"peek", "take", "recycle", "deliver", "body", "exit", "gone"}, rc |-> MaybeReq,
     peeked |-> BOOLEAN, alive |-> BOOLEAN, sawEOF |-> BOOLEAN,
     bodyRead |-> Seq(BOOLEAN), up |-> Seq(Reqs), owes |-> MaybeReq,
     eof |-> BOOLEAN]
CallerFields ==
    {"pc", "hop", "method", "conn", "live", "cancel", "cancelc", "told", "timer", "start", "werr",
     "res", "got", "err", "asked"}
CallerTypes ==
    [pc |-> Pcs, hop |-> Hops \cap Nat, method |-> Methods, conn |-> Conns \cup {None},
     live |-> BOOLEAN, cancel |-> BOOLEAN, cancelc |-> BOOLEAN, told |-> BOOLEAN, timer |-> BOOLEAN,
     start |-> Nat, asked |-> BOOLEAN]
ConnTyped == ConnFields \ {"closed", "werr", "writeErrCh", "res", "from", "down"}
CallerTyped == CallerFields \ {"werr", "res", "err", "got"}
IsConn(k) == k = [f \in ConnFields |-> k[f]] /\ \A f \in ConnTyped : k[f] \in ConnTypes[f]
IsCaller(a) == a = [f \in CallerFields |-> a[f]] /\ \A f \in CallerTyped : a[f] \in CallerTypes[f]
AreConns(C) == C = [i \in Conns |-> C[i]] /\ \A i \in Conns : IsConn(C[i])
AreCallers(K) == K = [c \in Callers |-> K[c]] /\ \A c \in Callers : IsCaller(K[c])
Pools == [idle : [Hosts -> Seq(Conns)], lru : Seq(Conns), wantIdle : BOOLEAN]

(* k2 is k but for the fields F; C2 is C but for these fields of entry i.  *)
ConnBut(k, k2, F) == k2 = [f \in ConnFields |-> k2[f]] /\ \A f \in ConnFields \ F : k2[f] = k[f]
CallerBut(a, b, F) == b = [f \in CallerFields |-> b[f]] /\ \A f \in CallerFields \ F : b[f] = a[f]
Others(S, C, C2, i) == C2 = [j \in S |-> C2[j]] /\ \A j \in S \ {i} : C2[j] = C[j]

H1Types ==
    /\ h \in Settings /\ AreCallers(caller) /\ AreConns(conn) /\ pool \in Pools
    /\ reqCanceler \in [Reqs -> {"none", "nothing", "dial", "conn"}]
    /\ seen \in SUBSET (Reqs \X Conns)
    /\ \A c \in Callers : /\ caller[c].hop <= h.redirects
                          /\ caller[c].pc \in {"start", "wait", "map", "body", "eof"} => caller[c].conn # None

LEMMA ConnTypesAre ==
    LET T == ConnTypes IN
    /\ T.dial = {"no", "dialing", "up", "failed"} /\ T.by = Callers \cup {None} /\ T.wanted = BOOLEAN
    /\ T.key = Hosts /\ T.canceled = BOOLEAN /\ T.reused = BOOLEAN
    /\ T.expected = Int /\ T.nwrite = Nat /\ T.writech = Seq(Reqs) /\ T.reqch = Seq(Reqs)
    /\ T.fired = BOOLEAN /\ T.w = {"idle", "report", "done"} /\ T.wr = MaybeReq
    /\ T.r = {"peek", "take", "recycle", "deliver", "body", "exit", "gone"} /\ T.rc = MaybeReq
    /\ T.peeked = BOOLEAN /\ T.alive = BOOLEAN
    /\ T.sawEOF = BOOLEAN /\ T.bodyRead = Seq(BOOLEAN) /\ T.up = Seq(Reqs)
    /\ T.owes = MaybeReq /\ T.eof = BOOLEAN
  BY Zenon DEF ConnTypes

LEMMA CallerTypesAre ==
    LET T == CallerTypes IN
    /\ T.pc = Pcs /\ T.hop = Hops \cap Nat /\ T.method = Methods /\ T.conn = Conns \cup {None}
    /\ T.live = BOOLEAN /\ T.cancel = BOOLEAN /\ T.cancelc = BOOLEAN /\ T.told = BOOLEAN
    /\ T.timer = BOOLEAN /\ T.start = Nat /\ T.asked = BOOLEAN
  BY Zenon DEF CallerTypes

LEMMA ConnFacts ==
    ASSUME NEW k, IsConn(k)
    PROVE  /\ k.dial \in {"no", "dialing", "up", "failed"} /\ k.by \in Callers \cup {None}
           /\ k.wanted \in BOOLEAN /\ k.key \in Hosts /\ k.canceled \in BOOLEAN
           /\ k.reused \in BOOLEAN /\ k.expected \in Int /\ k.nwrite \in Nat /\ k.writech \in Seq(Reqs)
           /\ k.reqch \in Seq(Reqs) /\ k.fired \in BOOLEAN /\ k.w \in {"idle", "report", "done"}
           /\ k.wr \in MaybeReq
           /\ k.r \in {"peek", "take", "recycle", "deliver", "body", "exit", "gone"}
           /\ k.rc \in MaybeReq /\ k.peeked \in BOOLEAN
           /\ k.alive \in BOOLEAN /\ k.sawEOF \in BOOLEAN /\ k.bodyRead \in Seq(BOOLEAN)
           /\ k.up \in Seq(Reqs) /\ k.owes \in MaybeReq /\ k.eof \in BOOLEAN
  BY ConnTypesAre DEF IsConn, ConnTyped, ConnFields

LEMMA CallerFacts ==
    ASSUME NEW a, IsCaller(a)
    PROVE  /\ a.pc \in Pcs /\ a.hop \in Hops \cap Nat /\ a.method \in Methods
           /\ a.conn \in Conns \cup {None} /\ a.live \in BOOLEAN /\ a.cancel \in BOOLEAN
           /\ a.cancelc \in BOOLEAN /\ a.told \in BOOLEAN /\ a.timer \in BOOLEAN /\ a.start \in Nat
           /\ a.asked \in BOOLEAN
  BY DEF IsCaller, CallerTyped, CallerFields, CallerTypes

LEMMA ConnRetyped ==
    ASSUME NEW k, IsConn(k), NEW F, NEW k2, ConnBut(k, k2, F), \A f \in F \cap ConnTyped : k2[f] \in ConnTypes[f]
    PROVE  IsConn(k2)
  BY DEF IsConn, ConnBut, ConnTyped

LEMMA CallerRetyped ==
    ASSUME NEW a, IsCaller(a), NEW F, NEW b, CallerBut(a, b, F), \A f \in F \cap CallerTyped : b[f] \in CallerTypes[f]
    PROVE  IsCaller(b)
  BY DEF IsCaller, CallerBut, CallerTyped

LEMMA ConnsRetyped ==
    ASSUME NEW C, AreConns(C), NEW i \in Conns, NEW C2, Others(Conns, C, C2, i), IsConn(C2[i])
    PROVE  AreConns(C2)
  BY DEF AreConns, Others

LEMMA CallersRetyped ==
    ASSUME NEW C, AreCallers(C), NEW i \in Callers, NEW C2, Others(Callers, C, C2, i), IsCaller(C2[i])
    PROVE  AreCallers(C2)
  BY DEF AreCallers, Others

LEMMA ConnInitFacts ==
    /\ IsConn(ConnInit)
    /\ ConnInit.dial = "no" /\ ConnInit.by = None /\ ConnInit.wanted = FALSE /\ ConnInit.closed = Unset
    /\ ConnInit.canceled = FALSE /\ ConnInit.reused = FALSE /\ ConnInit.expected = 0
    /\ ConnInit.nwrite = 0 /\ ConnInit.writech = <<>> /\ ConnInit.reqch = <<>> /\ ConnInit.fired = FALSE
    /\ ConnInit.w = "idle" /\ ConnInit.wr = NoReq /\ ConnInit.werr = Unset /\ ConnInit.writeErrCh = <<>>
    /\ ConnInit.r = "peek" /\ ConnInit.rc = NoReq /\ ConnInit.res = Unset /\ ConnInit.from = NoReq
    /\ ConnInit.peeked = TRUE /\ ConnInit.alive = TRUE /\ ConnInit.sawEOF = FALSE
    /\ ConnInit.bodyRead = <<>> /\ ConnInit.up = <<>> /\ ConnInit.down = <<>>
    /\ ConnInit.owes = NoReq /\ ConnInit.eof = FALSE
<1>1. PICK k : k = ConnInit
  OBVIOUS
<1>2. /\ k.dial = "no" /\ k.by = None /\ k.wanted = FALSE /\ k.key = "a" /\ k.closed = Unset
      /\ k.canceled = FALSE /\ k.reused = FALSE /\ k.expected = 0
      /\ k.nwrite = 0 /\ k.writech = <<>> /\ k.reqch = <<>> /\ k.fired = FALSE
      /\ k.w = "idle" /\ k.wr = NoReq /\ k.werr = Unset /\ k.writeErrCh = <<>>
      /\ k.r = "peek" /\ k.rc = NoReq /\ k.res = Unset /\ k.from = NoReq
      /\ k.peeked = TRUE /\ k.alive = TRUE /\ k.sawEOF = FALSE
      /\ k.bodyRead = <<>> /\ k.up = <<>> /\ k.down = <<>>
      /\ k.owes = NoReq /\ k.eof = FALSE
  BY <1>1 DEF ConnInit
<1>3. k = [f \in ConnFields |-> k[f]]
  BY <1>1, Zenon DEF ConnInit, ConnFields
<1>4. /\ k.dial \in ConnTypes.dial /\ k.by \in ConnTypes.by /\ k.key \in ConnTypes.key
      /\ k.expected \in ConnTypes.expected /\ k.nwrite \in ConnTypes.nwrite
      /\ k.writech \in ConnTypes.writech /\ k.reqch \in ConnTypes.reqch /\ k.w \in ConnTypes.w
      /\ k.wr \in ConnTypes.wr /\ k.r \in ConnTypes.r /\ k.rc \in ConnTypes.rc
      /\ k.bodyRead \in ConnTypes.bodyRead
      /\ k.up \in ConnTypes.up /\ k.owes \in ConnTypes.owes
  <2>1. NoReq \in MaybeReq /\ "a" \in Hosts /\ None \in Callers \cup {None}
    BY DEF MaybeReq, Hosts
  <2>2. /\ <<>> \in Seq(Reqs) /\ <<>> \in Seq(BOOLEAN)
        /\ 0 \in Int /\ 0 \in Nat
    OBVIOUS
  <2>3. /\ k.writech \in ConnTypes.writech /\ k.reqch \in ConnTypes.reqch
        /\ k.bodyRead \in ConnTypes.bodyRead /\ k.up \in ConnTypes.up
    BY <1>2, <2>2, ConnTypesAre, Zenon
  <2>4. /\ k.by \in ConnTypes.by /\ k.key \in ConnTypes.key /\ k.wr \in ConnTypes.wr
        /\ k.rc \in ConnTypes.rc /\ k.owes \in ConnTypes.owes
        /\ k.expected \in ConnTypes.expected /\ k.nwrite \in ConnTypes.nwrite
    BY <1>2, <2>1, <2>2, ConnTypesAre, Zenon
  <2>5. k.dial \in ConnTypes.dial /\ k.w \in ConnTypes.w /\ k.r \in ConnTypes.r
    BY <1>2, ConnTypesAre, Zenon
  <2> QED BY <2>3, <2>4, <2>5, Zenon
<1>5. /\ k.wanted \in ConnTypes.wanted /\ k.canceled \in ConnTypes.canceled
      /\ k.reused \in ConnTypes.reused /\ k.fired \in ConnTypes.fired
      /\ k.peeked \in ConnTypes.peeked /\ k.alive \in ConnTypes.alive
      /\ k.sawEOF \in ConnTypes.sawEOF /\ k.eof \in ConnTypes.eof
  BY <1>2, ConnTypesAre, Zenon
<1>6. \A f \in ConnTyped : k[f] \in ConnTypes[f]
  BY <1>4, <1>5, Zenon DEF ConnTyped, ConnFields
<1> QED BY <1>1, <1>2, <1>3, <1>6 DEF IsConn

LEMMA CallerInitFacts ==
    /\ CallerInit.pc = "done" /\ CallerInit.hop = 0 /\ CallerInit.method = "GET"
    /\ CallerInit.conn = None /\ CallerInit.live = FALSE /\ CallerInit.cancel = FALSE
    /\ CallerInit.cancelc = FALSE /\ CallerInit.told = FALSE /\ CallerInit.timer = FALSE
    /\ CallerInit.start = 0 /\ CallerInit.werr = Unset /\ CallerInit.res = Unset /\ CallerInit.got = NoReq
    /\ CallerInit.err = Unset /\ CallerInit.asked = FALSE
    /\ CallerInit = [f \in CallerFields |-> CallerInit[f]]
<1>1. PICK k : k = CallerInit
  OBVIOUS
<1>2. /\ k.pc = "done" /\ k.hop = 0 /\ k.method = "GET" /\ k.conn = None /\ k.live = FALSE
      /\ k.cancel = FALSE /\ k.cancelc = FALSE /\ k.told = FALSE /\ k.timer = FALSE /\ k.start = 0
      /\ k.werr = Unset /\ k.res = Unset /\ k.got = NoReq /\ k.err = Unset /\ k.asked = FALSE
  BY <1>1 DEF CallerInit
<1>3. k = [f \in CallerFields |-> k[f]]
  BY <1>1, Zenon DEF CallerInit, CallerFields
<1> QED BY <1>1, <1>2, <1>3, Zenon

(* What is known of the callers and the connections.                       *)
LEMMA TypeFacts ==
    ASSUME H1Types
    PROVE  /\ \A c \in Callers : IsCaller(caller[c]) /\ Req(c) \in Reqs /\ HostOf(caller[c].hop) \in Hosts
                                 /\ caller[c].hop \in 0..h.redirects
           /\ \A i \in Conns : IsConn(conn[i]) /\ i # None
           /\ h \in Setting /\ h.redirects \in Nat /\ 0 \in Hops /\ None \notin Callers
<1>1. h \in Setting /\ h.redirects \in Nat /\ 0..h.redirects \subseteq Hops /\ None \notin Callers
      /\ h.redirects < Len(h.hosts) /\ h.hosts \in Seq(Hosts) /\ \A i \in Conns : i # None
  BY SettingsAssumption DEF H1Types, Setting, None
<1>2. ASSUME NEW c \in Callers PROVE IsCaller(caller[c]) /\ caller[c].hop \in 0..h.redirects
  BY <1>1, CallerFacts DEF H1Types, AreCallers
<1>3. ASSUME NEW n \in 0..h.redirects PROVE HostOf(n) \in Hosts
  BY <1>1 DEF HostOf
<1> QED BY <1>1, <1>2, <1>3 DEF H1Types, AreConns, Req, Reqs

-----------------------------------------------------------------------------
(* What the operations on callers and connections do, field by field.      *)

(* b is a caller with request <<_, hop>> in hand, and one that has returned. *)
IsSent(b, hop, method, cancel, asked) ==
    /\ b.pc = "getconn" /\ b.hop = hop /\ b.method = method /\ b.conn = None /\ b.live = FALSE
    /\ b.cancel = cancel /\ b.cancelc = FALSE /\ b.told = FALSE /\ b.start = 0 /\ b.werr = Unset
    /\ b.res = Unset /\ b.got = NoReq /\ b.err = Unset /\ b.asked = asked
IsReturned(a, b, err) ==
    /\ b.pc = "done" /\ b.hop = a.hop /\ b.method = a.method /\ b.conn = None /\ b.live = FALSE
    /\ b.cancel = a.cancel /\ b.cancelc = FALSE /\ b.told = FALSE /\ b.start = 0 /\ b.werr = Unset
    /\ b.res = Unset /\ b.got = a.got /\ b.err = err /\ b.asked = a.asked

LEMMA SentFacts ==
    ASSUME NEW a, IsCaller(a), NEW hop \in Hops \cap Nat, NEW method \in Methods, NEW b,
           H1Types, NEW cancel \in BOOLEAN,
           \/ b = Sending(a, hop, method) /\ cancel = FALSE
           \/ b = [Sending(a, hop, method) EXCEPT !.cancel = cancel]
    PROVE  IsCaller(b) /\ IsSent(b, hop, method, cancel, a.asked)
<1>1. PICK x : x = CallerInit
  OBVIOUS
<1>2. PICK y : y = Sending(a, hop, method)
  OBVIOUS
<1>3. /\ x.pc = "done" /\ x.hop = 0 /\ x.method = "GET" /\ x.conn = None /\ x.live = FALSE
      /\ x.cancel = FALSE /\ x.cancelc = FALSE /\ x.told = FALSE /\ x.timer = FALSE /\ x.start = 0
      /\ x.werr = Unset /\ x.res = Unset /\ x.got = NoReq /\ x.err = Unset /\ x.asked = FALSE
      /\ x = [f \in CallerFields |-> x[f]]
  BY <1>1, CallerInitFacts, Zenon
<1>4. y = [x EXCEPT !.pc = "getconn", !.hop = hop, !.method = method, !.timer = h.timeout,
                    !.asked = a.asked]
  BY <1>1, <1>2, Zenon DEF Sending
<1>5. /\ CallerBut(x, y, {"pc", "hop", "method", "timer", "asked"})
      /\ y.pc = "getconn" /\ y.hop = hop /\ y.method = method /\ y.timer = h.timeout /\ y.asked = a.asked
  BY <1>3, <1>4, Zenon DEF CallerBut, CallerFields
<1>6. CallerBut(y, b, {"cancel"}) /\ b.cancel = cancel
  <2>1. y.cancel = FALSE
    BY <1>3, <1>5 DEF CallerBut, CallerFields
  <2>2. CASE b = y /\ cancel = FALSE
    BY <1>5, <2>1, <2>2, Zenon DEF CallerBut, CallerFields
  <2>3. CASE b = [y EXCEPT !.cancel = cancel]
    BY <1>5, <2>3, Zenon DEF CallerBut, CallerFields
  <2> QED BY <1>2, <2>2, <2>3
<1>7. /\ b.pc = "getconn" /\ b.hop = hop /\ b.method = method /\ b.conn = None /\ b.live = FALSE
      /\ b.cancel = cancel /\ b.cancelc = FALSE /\ b.told = FALSE /\ b.start = 0 /\ b.werr = Unset
      /\ b.res = Unset /\ b.got = NoReq /\ b.err = Unset /\ b.asked = a.asked /\ b.timer = h.timeout
      /\ b = [f \in CallerFields |-> b[f]]
  BY <1>3, <1>5, <1>6 DEF CallerBut, CallerFields
<1>8. h.timeout \in BOOLEAN /\ a.asked \in BOOLEAN
  BY TypeFacts, CallerFacts DEF Setting
<1>9. \A f \in CallerTyped : b[f] \in CallerTypes[f]
  <2>1. /\ b.pc \in Pcs /\ b.hop \in Hops \cap Nat /\ b.method \in Methods
        /\ b.conn \in Conns \cup {None} /\ b.start \in Nat
    BY <1>7 DEF Pcs, None
  <2>2. /\ b.live \in BOOLEAN /\ b.cancel \in BOOLEAN /\ b.cancelc \in BOOLEAN /\ b.told \in BOOLEAN
        /\ b.timer \in BOOLEAN /\ b.asked \in BOOLEAN
    BY <1>7, <1>8, Zenon
  <2> QED BY <2>1, <2>2, CallerTypesAre, Zenon DEF CallerTyped, CallerFields
<1> QED BY <1>7, <1>9, Zenon DEF IsCaller, IsSent

LEMMA ReturnedFacts ==
    ASSUME NEW a, IsCaller(a), NEW err, NEW b, b = Returned(a, err)
    PROVE  IsCaller(b) /\ IsReturned(a, b, err)
<1>1. PICK x : x = CallerInit
  OBVIOUS
<1>3. /\ x.pc = "done" /\ x.hop = 0 /\ x.method = "GET" /\ x.conn = None /\ x.live = FALSE
      /\ x.cancel = FALSE /\ x.cancelc = FALSE /\ x.told = FALSE /\ x.timer = FALSE /\ x.start = 0
      /\ x.werr = Unset /\ x.res = Unset /\ x.got = NoReq /\ x.err = Unset /\ x.asked = FALSE
      /\ x = [f \in CallerFields |-> x[f]]
  BY <1>1, CallerInitFacts, Zenon
<1>4. b = [x EXCEPT !.hop = a.hop, !.method = a.method, !.err = err, !.got = a.got,
                       !.asked = a.asked, !.cancel = a.cancel]
  BY <1>1, Zenon DEF Returned
<1>5. /\ CallerBut(x, b, {"hop", "method", "err", "got", "asked", "cancel"})
      /\ b.hop = a.hop /\ b.method = a.method /\ b.err = err /\ b.got = a.got /\ b.asked = a.asked
      /\ b.cancel = a.cancel
  BY <1>3, <1>4, Zenon DEF CallerBut, CallerFields
<1>7. /\ b.pc = "done" /\ b.hop = a.hop /\ b.method = a.method /\ b.conn = None /\ b.live = FALSE
      /\ b.cancel = a.cancel /\ b.cancelc = FALSE /\ b.told = FALSE /\ b.start = 0 /\ b.werr = Unset
      /\ b.res = Unset /\ b.got = a.got /\ b.err = err /\ b.asked = a.asked /\ b.timer = FALSE
      /\ b = [f \in CallerFields |-> b[f]]
  BY <1>3, <1>5 DEF CallerBut, CallerFields
<1>8. a.hop \in Hops \cap Nat /\ a.method \in Methods /\ a.asked \in BOOLEAN
      /\ a.cancel \in BOOLEAN
  BY CallerFacts
<1>9. \A f \in CallerTyped : b[f] \in CallerTypes[f]
  <2>1. /\ b.pc \in Pcs /\ b.hop \in Hops \cap Nat /\ b.method \in Methods
        /\ b.conn \in Conns \cup {None} /\ b.start \in Nat
    BY <1>7, <1>8 DEF Pcs, None
  <2>2. /\ b.live \in BOOLEAN /\ b.cancel \in BOOLEAN /\ b.cancelc \in BOOLEAN /\ b.told \in BOOLEAN
        /\ b.timer \in BOOLEAN /\ b.asked \in BOOLEAN
    BY <1>7, <1>8, Zenon
  <2> QED BY <2>1, <2>2, CallerTypesAre, Zenon DEF CallerTyped, CallerFields
<1> QED BY <1>7, <1>9, Zenon DEF IsCaller, IsReturned

(* RoundTrip's end with an error.                                          *)
LEMMA FailFacts ==
    ASSUME H1Types, NEW c \in Callers, NEW K, AreCallers(K), K[c] = caller[c],
           NEW again \in BOOLEAN, NEW err, Fail(c, K, again, err)
    PROVE  /\ AreCallers(caller') /\ Others(Callers, K, caller', c)
           /\ IF again THEN IsSent(caller'[c], caller[c].hop, caller[c].method, caller[c].cancel, caller[c].asked)
              ELSE IsReturned(caller[c], caller'[c], err)
           /\ reqCanceler' = [reqCanceler EXCEPT ![Req(c)] = "none"]
<1>1. PICK a : a = caller[c]
  OBVIOUS
<1>2. PICK b : b = IF again THEN [Sending(a, a.hop, a.method) EXCEPT !.cancel = a.cancel]
                   ELSE Returned(a, err)
  OBVIOUS
<1>3. caller' = [K EXCEPT ![c] = b] /\ reqCanceler' = [reqCanceler EXCEPT ![Req(c)] = "none"]
  BY <1>1, <1>2, Zenon DEF Fail, SetCanceler
<1>4. IsCaller(a) /\ a.hop \in Hops \cap Nat /\ a.method \in Methods /\ a.cancel \in BOOLEAN
  BY <1>1, TypeFacts, CallerFacts
<1>5. IsCaller(b) /\ IF again THEN IsSent(b, a.hop, a.method, a.cancel, a.asked) ELSE IsReturned(a, b, err)
  BY <1>2, <1>4, SentFacts, ReturnedFacts
<1>6. Others(Callers, K, caller', c) /\ caller'[c] = b
  BY <1>3 DEF Others, AreCallers
<1>7. AreCallers(caller')
  BY <1>5, <1>6, CallersRetyped
<1> QED BY <1>1, <1>3, <1>5, <1>6, <1>7

(* Do after a response.                                                    *)
LEMMA FinishFacts ==
    ASSUME H1Types, NEW c \in Callers, NEW K, AreCallers(K), K[c].hop = caller[c].hop, NEW F, F = Finish(K, c)
    PROVE  /\ AreCallers(F) /\ Others(Callers, K, F, c)
           /\ IF IsRedirect(K[c].res) /\ K[c].hop < h.redirects
              THEN IsSent(F[c], K[c].hop + 1, RedirectMethod(K[c].method, K[c].res), FALSE, K[c].asked)
              ELSE IsReturned(K[c], F[c], K[c].err)
<1>1. PICK a : a = K[c]
  OBVIOUS
<1>2. PICK b : b = IF IsRedirect(a.res) /\ a.hop < h.redirects
                   THEN Sending(a, a.hop + 1, RedirectMethod(a.method, a.res))
                   ELSE Returned(a, a.err)
  OBVIOUS
<1>3. F = [K EXCEPT ![c] = b]
  BY <1>1, <1>2, Zenon DEF Finish
<1>4. IsCaller(a) /\ a.hop \in 0..h.redirects /\ a.method \in Methods
  BY <1>1, TypeFacts, CallerFacts DEF AreCallers
<1>5. 0..h.redirects \subseteq Hops /\ h.redirects \in Nat
  BY SettingsAssumption, TypeFacts DEF H1Types
<1>6. RedirectMethod(a.method, a.res) \in Methods
  BY <1>4 DEF RedirectMethod, Methods
<1>7. a.hop < h.redirects => a.hop + 1 \in Hops \cap Nat
  BY <1>4, <1>5
<1>8. /\ IsCaller(b)
      /\ IF IsRedirect(a.res) /\ a.hop < h.redirects
         THEN IsSent(b, a.hop + 1, RedirectMethod(a.method, a.res), FALSE, a.asked)
         ELSE IsReturned(a, b, a.err)
  BY <1>2, <1>4, <1>6, <1>7, SentFacts, ReturnedFacts
<1>9. Others(Callers, K, F, c) /\ F[c] = b
  BY <1>3 DEF Others, AreCallers
<1>10. AreCallers(F)
  BY <1>8, <1>9, CallersRetyped
<1> QED BY <1>1, <1>8, <1>9, <1>10

LEMMA CloseFacts ==
    ASSUME NEW C, AreConns(C), NEW i \in Conns, NEW why, NEW C2, C2 = Close(C, i, why)
    PROVE  /\ AreConns(C2) /\ Others(Conns, C, C2, i) /\ ConnBut(C[i], C2[i], {"closed"})
           /\ C2[i].closed = IF C[i].closed = Unset THEN why ELSE C[i].closed
<1>1. /\ Others(Conns, C, C2, i) /\ ConnBut(C[i], C2[i], {"closed"})
      /\ C2[i].closed = IF C[i].closed = Unset THEN why ELSE C[i].closed
  BY DEF Close, AreConns, IsConn, Others, ConnBut, ConnFields
<1>2. IsConn(C2[i])
  BY <1>1, ConnRetyped DEF AreConns, ConnTyped
<1> QED BY <1>1, <1>2, ConnsRetyped

LEMMA CancelConnFacts ==
    ASSUME NEW C, AreConns(C), NEW i \in Conns, NEW C2, C2 = CancelConn(C, i)
    PROVE  /\ AreConns(C2) /\ Others(Conns, C, C2, i) /\ ConnBut(C[i], C2[i], {"closed", "canceled"})
           /\ C2[i].closed = IF C[i].closed = Unset THEN "canceled" ELSE C[i].closed
           /\ C2[i].canceled = TRUE
<1>1. PICK D : D = Close(C, i, "canceled")
  OBVIOUS
<1>2. /\ AreConns(D) /\ Others(Conns, C, D, i) /\ ConnBut(C[i], D[i], {"closed"})
      /\ D[i].closed = IF C[i].closed = Unset THEN "canceled" ELSE C[i].closed
  BY <1>1, CloseFacts
<1>3. C2 = [D EXCEPT ![i].canceled = TRUE]
  BY <1>1, Zenon DEF CancelConn
<1>4. Others(Conns, D, C2, i) /\ ConnBut(D[i], C2[i], {"canceled"}) /\ C2[i].canceled = TRUE
  BY <1>2, <1>3, ZenonT(40) DEF AreConns, IsConn, Others, ConnBut, ConnFields
<1>5. IsConn(C2[i])
  <2>1. C2[i].canceled \in ConnTypes.canceled
    BY <1>4, ConnTypesAre, Zenon
  <2> QED BY <1>2, <1>4, <2>1, ConnRetyped DEF AreConns, ConnTyped
<1>6. ConnBut(C[i], C2[i], {"closed", "canceled"}) /\ C2[i].closed = D[i].closed
  BY <1>2, <1>4 DEF ConnBut, ConnFields
<1>7. Others(Conns, C, C2, i)
  BY <1>2, <1>4 DEF Others
<1> QED BY <1>2, <1>4, <1>5, <1>6, <1>7, ConnsRetyped

(* What is left of a connection whose loops have ended.                    *)
Remains(k, k2) ==
    /\ k2.dial = "up" /\ k2.by = None /\ k2.wanted = FALSE /\ k2.key = k.key /\ k2.closed = k.closed
    /\ k2.canceled = k.canceled /\ k2.reused = k.reused /\ k2.expected = 0 /\ k2.nwrite = k.nwrite
    /\ k2.writech = <<>> /\ k2.reqch = <<>> /\ k2.fired = FALSE /\ k2.w = "done" /\ k2.wr = NoReq
    /\ k2.werr = Unset /\ k2.r = "gone" /\ k2.rc = NoReq /\ k2.res = Unset /\ k2.from = NoReq
    /\ k2.alive = TRUE /\ k2.bodyRead = <<>> /\ k2.up = <<>> /\ k2.down = <<>> /\ k2.owes = NoReq
    /\ k2.eof = FALSE

LEMMA BuryFacts ==
    ASSUME NEW C, AreConns(C), NEW i \in Conns, NEW C2, C2 = Bury(C, i)
    PROVE  /\ AreConns(C2) /\ Others(Conns, C, C2, i)
           /\ IF C[i].r = "gone" /\ C[i].w = "done" THEN Remains(C[i], C2[i]) ELSE C2 = C
<1>1. CASE C[i].r # "gone" \/ C[i].w # "done"
  <2>1. C2 = C
    BY <1>1 DEF Bury
  <2> QED BY <1>1, <2>1 DEF Others, AreConns
<1>2. CASE C[i].r = "gone" /\ C[i].w = "done"
  <2>1. PICK x : x = ConnInit
    OBVIOUS
  <2>2. PICK k : k = C[i]
    OBVIOUS
  <2>3. PICK y : y = [x EXCEPT !.dial = "up", !.key = k.key, !.r = "gone", !.closed = k.closed,
             !.canceled = k.canceled, !.reused = k.reused, !.nwrite = k.nwrite, !.w = "done"]
    OBVIOUS
  <2>4. C2 = [C EXCEPT ![i] = y]
    BY <1>2, <2>1, <2>2, <2>3, Zenon DEF Bury
  <2>5. IsConn(x) /\ IsConn(k)
    BY <2>1, <2>2, ConnInitFacts DEF AreConns
  <2>6. /\ ConnBut(x, y, {"dial", "key", "r", "closed", "canceled", "reused", "nwrite", "w"})
        /\ y.dial = "up" /\ y.key = k.key /\ y.r = "gone" /\ y.closed = k.closed
        /\ y.canceled = k.canceled /\ y.reused = k.reused /\ y.nwrite = k.nwrite /\ y.w = "done"
    BY <2>3, <2>5, ZenonT(40) DEF IsConn, ConnBut, ConnFields
  <2>7. IsConn(y)
    <3>1. /\ y.dial \in ConnTypes.dial /\ y.key \in ConnTypes.key /\ y.r \in ConnTypes.r
          /\ y.canceled \in ConnTypes.canceled /\ y.reused \in ConnTypes.reused
          /\ y.nwrite \in ConnTypes.nwrite /\ y.w \in ConnTypes.w
      BY <2>5, <2>6, ConnFacts, ConnTypesAre, Zenon
    <3> QED BY <2>5, <2>6, <3>1, ConnRetyped DEF ConnTyped
  <2>8. Remains(k, y)
    <3>1. /\ x.by = None /\ x.wanted = FALSE /\ x.expected = 0 /\ x.writech = <<>> /\ x.reqch = <<>>
          /\ x.fired = FALSE /\ x.wr = NoReq /\ x.werr = Unset /\ x.rc = NoReq /\ x.res = Unset
          /\ x.from = NoReq /\ x.alive = TRUE /\ x.bodyRead = <<>> /\ x.up = <<>> /\ x.down = <<>>
          /\ x.owes = NoReq /\ x.eof = FALSE
      BY <2>1, ConnInitFacts, Zenon
    <3>2. /\ y.by = x.by /\ y.wanted = x.wanted /\ y.expected = x.expected /\ y.writech = x.writech
          /\ y.reqch = x.reqch /\ y.fired = x.fired /\ y.wr = x.wr /\ y.werr = x.werr /\ y.rc = x.rc
          /\ y.res = x.res /\ y.from = x.from /\ y.alive = x.alive /\ y.bodyRead = x.bodyRead
          /\ y.up = x.up /\ y.down = x.down /\ y.owes = x.owes /\ y.eof = x.eof
      BY <2>6 DEF ConnBut, ConnFields
    <3> QED BY <2>6, <3>1, <3>2, Zenon DEF Remains
  <2>9. Others(Conns, C, C2, i) /\ C2[i] = y
    BY <2>4 DEF Others, AreConns
  <2>10. AreConns(C2)
    BY <2>7, <2>9, ConnsRetyped
  <2> QED BY <1>2, <2>2, <2>8, <2>9, <2>10
<1> QED BY <1>1, <1>2

LEMMA HandPendingFacts ==
    ASSUME NEW C, AreConns(C), NEW c, NEW C2, C2 = HandPending(C, c)
    PROVE  /\ AreConns(C2)
           /\ \A j \in Conns : ConnBut(C[j], C2[j], {"wanted"})
<1>1. C2 = [j \in Conns |-> C2[j]]
  BY DEF HandPending
<1>2. ASSUME NEW j \in Conns PROVE IsConn(C2[j]) /\ ConnBut(C[j], C2[j], {"wanted"})
  <2>1. IsConn(C[j])
    BY DEF AreConns
  <2>2. C2[j] = IF C[j].by = c /\ C[j].wanted THEN [C[j] EXCEPT !.wanted = FALSE] ELSE C[j]
    BY Zenon DEF HandPending
  <2>3. CASE C2[j] = C[j]
    BY <2>1, <2>3 DEF IsConn, ConnBut
  <2>4. CASE C2[j] = [C[j] EXCEPT !.wanted = FALSE]
    <3>1. ConnBut(C[j], C2[j], {"wanted"}) /\ C2[j].wanted = FALSE
      BY <2>1, <2>4, Zenon DEF IsConn, ConnBut, ConnFields
    <3>2. C2[j].wanted \in ConnTypes.wanted
      BY <3>1, ConnTypesAre, Zenon
    <3> QED BY <2>1, <3>1, <3>2, ConnRetyped
  <2> QED BY <2>2, <2>3, <2>4
<1> QED BY <1>1, <1>2 DEF AreConns

LEMMA HandedFacts ==
    ASSUME NEW K, AreCallers(K), NEW c \in Callers, NEW i \in Conns, None \notin Callers, NEW K2, K2 = Handed(K, c, i)
    PROVE  /\ AreCallers(K2) /\ Others(Callers, K, K2, c)
           /\ CallerBut(K[c], K2[c], {"pc", "conn"}) /\ K2[c].pc = "start" /\ K2[c].conn = i
<1>1. K2 = [K EXCEPT ![c].pc = "start", ![c].conn = i]
  BY Zenon DEF Handed
<1>2. /\ Others(Callers, K, K2, c)
      /\ CallerBut(K[c], K2[c], {"pc", "conn"}) /\ K2[c].pc = "start" /\ K2[c].conn = i
  BY <1>1, ZenonT(40) DEF Others, CallerBut, CallerFields, AreCallers, IsCaller
<1>3. IsCaller(K2[c])
  <2>1. K2[c].pc \in CallerTypes.pc /\ K2[c].conn \in CallerTypes.conn
    BY <1>2, CallerTypesAre DEF Pcs
  <2> QED BY <1>2, <2>1, CallerRetyped DEF AreCallers
<1> QED BY <1>2, <1>3, CallersRetyped

-----------------------------------------------------------------------------
(* The pool's lists.                                                       *)
LEMMA UnlistFacts ==
    ASSUME NEW P \in Pools, NEW i, NEW key \in Hosts, NEW P2, P2 = Unlist(P, i, key)
    PROVE  /\ P2 \in Pools /\ P2.wantIdle = P.wantIdle
           /\ P2.idle[key] = Without(P.idle[key], {i}) /\ P2.lru = Without(P.lru, {i})
           /\ \A x \in Hosts \ {key} : P2.idle[x] = P.idle[x]
<1>1. /\ Without(P.idle[key], {i}) \in Seq(Conns) /\ Without(P.lru, {i}) \in Seq(Conns)
  BY WithoutRest DEF Pools
<1>2. PICK s, t : s = Without(P.idle[key], {i}) /\ t = Without(P.lru, {i})
  OBVIOUS
<1>3. PICK d : d = [P.idle EXCEPT ![key] = s]
  OBVIOUS
<1>4. P2 = [P EXCEPT !.idle = d, !.lru = t]
  BY <1>2, <1>3, Zenon DEF Unlist
<1>5. P.idle \in [Hosts -> Seq(Conns)]
  BY DEF Pools
<1>6. d \in [Hosts -> Seq(Conns)] /\ d[key] = s /\ \A x \in Hosts \ {key} : d[x] = P.idle[x]
  BY <1>1, <1>2, <1>3, <1>5
<1>7. P2 \in Pools /\ P2.wantIdle = P.wantIdle /\ P2.idle = d /\ P2.lru = t
  BY <1>1, <1>2, <1>4, <1>6 DEF Pools
<1> QED BY <1>2, <1>6, <1>7

LEMMA ListFacts ==
    ASSUME NEW P \in Pools, NEW i \in Conns, NEW key \in Hosts, NEW P2, P2 = List(P, i, key)
    PROVE  /\ P2 \in Pools /\ P2.wantIdle = P.wantIdle
           /\ P2.idle[key] = Append(P.idle[key], i) /\ P2.lru = <<i>> \o P.lru
           /\ \A x \in Hosts \ {key} : P2.idle[x] = P.idle[x]
<1>1. Append(P.idle[key], i) \in Seq(Conns) /\ <<i>> \o P.lru \in Seq(Conns)
  BY DEF Pools
<1>2. PICK s, t : s = Append(P.idle[key], i) /\ t = <<i>> \o P.lru
  OBVIOUS
<1>3. PICK d : d = [P.idle EXCEPT ![key] = s]
  OBVIOUS
<1>4. P2 = [P EXCEPT !.idle = d, !.lru = t]
  BY <1>2, <1>3, Zenon DEF List
<1>5. P.idle \in [Hosts -> Seq(Conns)]
  BY DEF Pools
<1>6. d \in [Hosts -> Seq(Conns)] /\ d[key] = s /\ \A x \in Hosts \ {key} : d[x] = P.idle[x]
  BY <1>1, <1>2, <1>3, <1>5
<1>7. P2 \in Pools /\ P2.wantIdle = P.wantIdle /\ P2.idle = d /\ P2.lru = t
  BY <1>1, <1>2, <1>4, <1>6 DEF Pools
<1> QED BY <1>2, <1>6, <1>7

(* The outcomes of offering connection i to the pool.                      *)
IsPut(p) == p = [f \in {"conn", "pool", "to", "ok"} |-> p[f]] /\ p.ok \in BOOLEAN
Reuses(C, C2, i) == Others(Conns, C, C2, i) /\ ConnBut(C[i], C2[i], {"reused"}) /\ (C[i].reused => C2[i].reused)
Refused(C, P, i, p) == ~p.ok /\ p.to = None /\ p.pool = P /\ Reuses(C, p.conn, i)
GivenOn(C, P, i, p) ==
    /\ p.ok /\ p.to \in Callers /\ caller[p.to].pc = "select" /\ HostOf(caller[p.to].hop) = C[i].key
    /\ C[i].closed = Unset /\ p.pool = P /\ Reuses(C, p.conn, i)
Fits(P, i, key, P2) == P2 = List(P, i, key) /\ Len(P.idle[key]) < h.perHost
Listed(C, P, i, p) ==
    /\ p.ok /\ p.to = None /\ C[i].closed = Unset /\ Reuses(C, p.conn, i)
    /\ Fits(P, i, C[i].key, p.pool) /\ (h.maxIdle = 0 \/ Len(p.pool.lru) <= h.maxIdle)
Evicts(C, P, i, p) ==
    /\ p.ok /\ p.to = None /\ C[i].closed = Unset /\ h.maxIdle # 0
    /\ \E L \in Pools : \E D :
         /\ Fits(P, i, C[i].key, L) /\ Len(L.lru) > h.maxIdle
         /\ AreConns(D) /\ Reuses(C, D, i)
         /\ p.pool = Unlist(L, Last(L.lru), C[Last(L.lru)].key)
         /\ p.conn = Close(D, Last(L.lru), "too many idle")

LEMMA PutFacts ==
    ASSUME H1Types, NEW C, AreConns(C), NEW P \in Pools, NEW i \in Conns, NEW p \in tryPutIdleConn(C, P, i)
    PROVE  /\ AreConns(p.conn) /\ p.pool \in Pools /\ IsPut(p)
           /\ Refused(C, P, i, p) \/ GivenOn(C, P, i, p) \/ Listed(C, P, i, p) \/ Evicts(C, P, i, p)
<1>1. PICK key, R, listed, oldest :
        /\ key = C[i].key /\ R = [C EXCEPT ![i].reused = TRUE] /\ listed = List(P, i, key)
        /\ oldest = Last(listed.lru)
  OBVIOUS
<1>2. p \in (IF ~h.keepAlive \/ C[i].closed # Unset THEN PutRefused(C, P)
        ELSE IF Waiters(key) # {}
             THEN {[conn |-> R, pool |-> P, to |-> c, ok |-> TRUE] : c \in Waiters(key)}
        ELSE IF P.wantIdle \/ Len(P.idle[key]) >= h.perHost THEN PutRefused(R, P)
        ELSE IF h.maxIdle # 0 /\ Len(listed.lru) > h.maxIdle
             THEN {[conn |-> Close(R, oldest, "too many idle"), to |-> None, ok |-> TRUE,
                    pool |-> Unlist(listed, oldest, C[oldest].key)]}
        ELSE {[conn |-> R, pool |-> listed, to |-> None, ok |-> TRUE]})
  BY <1>1, Zenon DEF tryPutIdleConn
<1>3. key \in Hosts
  BY <1>1, ConnFacts DEF AreConns
<1>4. Reuses(C, C, i)
  BY DEF Reuses, Others, ConnBut, AreConns, IsConn
<1>5. Reuses(C, R, i) /\ AreConns(R)
  <2>1. Reuses(C, R, i) /\ R[i].reused = TRUE
    BY <1>1 DEF Reuses, Others, ConnBut, ConnFields, AreConns, IsConn
  <2>2. R[i].reused \in ConnTypes.reused
    BY <2>1, ConnTypesAre, Zenon
  <2>3. IsConn(R[i])
    BY <2>1, <2>2, ConnRetyped DEF Reuses, AreConns
  <2> QED BY <2>1, <2>3, ConnsRetyped DEF Reuses
<1>6. /\ listed \in Pools /\ listed.lru = <<i>> \o P.lru
  BY <1>1, <1>3, ListFacts
<1>7. Len(P.idle[key]) \in Nat /\ h.perHost \in Nat /\ h.maxIdle \in Nat /\ Len(listed.lru) \in Nat
  BY <1>3, <1>6, TypeFacts DEF Pools, Setting
<1>8. oldest \in Conns
  BY <1>1, <1>6 DEF Pools, Last
<1>9. C[oldest].key \in Hosts
  BY <1>8, ConnFacts DEF AreConns
<1>10. CASE p \in PutRefused(C, P)
  <2> p = [conn |-> C, pool |-> P, to |-> None, ok |-> FALSE]
    BY <1>10, Zenon DEF PutRefused
  <2>1. p.conn = C /\ p.pool = P /\ p.to = None /\ p.ok = FALSE
    BY Zenon
  <2>2. IsPut(p)
    BY Zenon DEF IsPut
  <2> QED BY <1>4, <2>1, <2>2 DEF Refused
<1>11. CASE p \in PutRefused(R, P)
  <2> p = [conn |-> R, pool |-> P, to |-> None, ok |-> FALSE]
    BY <1>11, Zenon DEF PutRefused
  <2>1. p.conn = R /\ p.pool = P /\ p.to = None /\ p.ok = FALSE
    BY Zenon
  <2>2. IsPut(p)
    BY Zenon DEF IsPut
  <2> QED BY <1>5, <2>1, <2>2 DEF Refused
<1>12. CASE C[i].closed = Unset /\ p \in {[conn |-> R, pool |-> P, to |-> c, ok |-> TRUE] : c \in Waiters(key)}
  <2>1. PICK c \in Waiters(key) : p = [conn |-> R, pool |-> P, to |-> c, ok |-> TRUE]
    BY <1>12
  <2>2. p.conn = R /\ p.pool = P /\ p.to = c /\ p.ok = TRUE
    BY <2>1, Zenon
  <2>3. c \in Callers /\ caller[c].pc = "select" /\ HostOf(caller[c].hop) = key
    BY DEF Waiters
  <2>4. IsPut(p)
    BY <2>1, Zenon DEF IsPut
  <2> QED BY <1>1, <1>5, <1>12, <2>2, <2>3, <2>4 DEF GivenOn
<1>13. CASE /\ C[i].closed = Unset /\ ~(Len(P.idle[key]) >= h.perHost) /\ h.maxIdle # 0 /\ Len(listed.lru) > h.maxIdle
            /\ p = [conn |-> Close(R, oldest, "too many idle"), to |-> None, ok |-> TRUE,
                    pool |-> Unlist(listed, oldest, C[oldest].key)]
  <2>1. p.conn = Close(R, oldest, "too many idle") /\ p.pool = Unlist(listed, oldest, C[oldest].key)
        /\ p.to = None /\ p.ok = TRUE
    BY <1>13, Zenon
  <2>2. p.pool \in Pools /\ AreConns(p.conn)
    BY <1>5, <1>6, <1>8, <1>9, <2>1, UnlistFacts, CloseFacts
  <2>3. Fits(P, i, C[i].key, listed)
    <3>1. ~(Len(P.idle[key]) >= h.perHost)
      BY <1>13, Zenon
    <3>2. Len(P.idle[key]) < h.perHost
      BY <1>7, <3>1
    <3> QED BY <1>1, <3>2, Zenon DEF Fits
  <2>4. IsPut(p)
    BY <1>13, Zenon DEF IsPut
  <2> QED BY <1>1, <1>5, <1>6, <1>13, <2>1, <2>2, <2>3, <2>4 DEF Evicts
<1>14. CASE /\ C[i].closed = Unset /\ ~(Len(P.idle[key]) >= h.perHost)
            /\ ~(h.maxIdle # 0 /\ Len(listed.lru) > h.maxIdle)
            /\ p = [conn |-> R, pool |-> listed, to |-> None, ok |-> TRUE]
  <2>1. p.conn = R /\ p.pool = listed /\ p.to = None /\ p.ok = TRUE
    BY <1>14, Zenon
  <2>2. Fits(P, i, C[i].key, listed)
    BY <1>1, <1>7, <1>14 DEF Fits
  <2>3. h.maxIdle = 0 \/ Len(listed.lru) <= h.maxIdle
    BY <1>7, <1>14
  <2>4. IsPut(p)
    BY <1>14, Zenon DEF IsPut
  <2> QED BY <1>1, <1>5, <1>6, <1>14, <2>1, <2>2, <2>3, <2>4 DEF Listed
<1> QED BY <1>2, <1>10, <1>11, <1>12, <1>13, <1>14, Zenon

-----------------------------------------------------------------------------
(* What each step changes.  First the steps of a connection that leave     *)
(* every caller alone.                                                     *)

(* Connection i alone changes, in the fields F.                            *)
OnlyConn(i, F) == AreConns(conn') /\ Others(Conns, conn, conn', i) /\ ConnBut(conn[i], conn'[i], F)

LEMMA PeekFacts ==
    ASSUME H1Types, NEW i \in Conns, Peek(i)
    PROVE  /\ UNCHANGED <<h, caller, pool, reqCanceler, seen>>
           /\ OnlyConn(i, {"sawEOF", "peeked", "closed", "r"})
           /\ conn[i].dial = "up" /\ conn[i].r = "peek"
           /\ \/ /\ conn[i].expected = 0 /\ conn'[i].r = "exit" /\ conn'[i].closed # Unset
                 /\ conn[i].closed # Unset => conn'[i].closed = conn[i].closed
              \/ /\ conn[i].expected # 0 /\ conn'[i].r = "take" /\ conn'[i].closed = conn[i].closed
                 /\ conn'[i].peeked => conn[i].down # <<>>
<1>1. PICK ok \in BOOLEAN :
        /\ IF ok THEN conn[i].down # <<>>
                 ELSE conn[i].closed # Unset \/ (conn[i].down = <<>> /\ conn[i].eof)
        /\ LET EOF == ~ok /\ conn[i].closed = Unset
               C == [conn EXCEPT ![i].sawEOF = @ \/ EOF, ![i].peeked = ok]
           IN  conn' = IF conn[i].expected = 0
                       THEN [Close(C, i, IF EOF THEN "closed idle" ELSE "unexpected data")
                                EXCEPT ![i].r = "exit"]
                       ELSE [C EXCEPT ![i].r = "take"]
  BY DEF Peek
<1> DEFINE EOF == ~ok /\ conn[i].closed = Unset
<1> DEFINE C == [conn EXCEPT ![i].sawEOF = @ \/ EOF, ![i].peeked = ok]
           why == IF EOF THEN "closed idle" ELSE "unexpected data"
           D == Close(C, i, why)
<1>3. conn' = IF conn[i].expected = 0 THEN [D EXCEPT ![i].r = "exit"] ELSE [C EXCEPT ![i].r = "take"]
  BY <1>1, Zenon
<1> HIDE DEF D
<1>2. D = Close(C, i, why)
  BY Zenon DEF D
<1> HIDE DEF C
<1> HIDE DEF EOF
<1> EOF \in BOOLEAN
  BY DEF EOF
<1> why # Unset
  BY DEF Unset
<1> HIDE DEF why
<1>4. AreConns(conn) /\ IsConn(conn[i]) /\ conn[i].sawEOF \in BOOLEAN
  BY ConnFacts DEF H1Types, AreConns
<1>5. /\ Others(Conns, conn, C, i) /\ ConnBut(conn[i], C[i], {"sawEOF", "peeked"})
      /\ C[i].sawEOF = (conn[i].sawEOF \/ EOF) /\ C[i].peeked = ok
  BY <1>4 DEF Others, ConnBut, ConnFields, AreConns, IsConn, C
<1>6. AreConns(C)
  <2>1. C[i].sawEOF \in ConnTypes.sawEOF /\ C[i].peeked \in ConnTypes.peeked
    BY <1>4, <1>5, ConnTypesAre, Zenon
  <2>2. IsConn(C[i])
    BY <1>4, <1>5, <2>1, ConnRetyped
  <2> QED BY <1>4, <1>5, <2>2, ConnsRetyped
<1>7. /\ AreConns(D) /\ Others(Conns, C, D, i) /\ ConnBut(C[i], D[i], {"closed"})
      /\ D[i].closed = IF C[i].closed = Unset THEN why ELSE C[i].closed
  BY <1>2, <1>6, CloseFacts
<1>8. C[i].closed = conn[i].closed
  BY <1>5 DEF ConnBut, ConnFields
<1>9. D[i].closed # Unset /\ (conn[i].closed # Unset => D[i].closed = conn[i].closed)
  BY <1>7, <1>8
<1>10. UNCHANGED <<h, caller, pool, reqCanceler, seen>> /\ conn[i].dial = "up" /\ conn[i].r = "peek"
  BY DEF Peek, Up
<1>11. CASE conn[i].expected = 0
  <2>1. Others(Conns, D, conn', i) /\ ConnBut(D[i], conn'[i], {"r"}) /\ conn'[i].r = "exit"
    BY <1>3, <1>7, <1>11 DEF Others, ConnBut, ConnFields, AreConns, IsConn
  <2>2. IsConn(conn'[i])
    <3>1. conn'[i].r \in ConnTypes.r
      BY <2>1, ConnTypesAre
    <3> QED BY <1>7, <2>1, <3>1, ConnRetyped DEF AreConns
  <2>3. AreConns(conn') /\ Others(Conns, conn, conn', i)
    BY <1>5, <1>7, <2>1, <2>2, ConnsRetyped DEF Others
  <2>4. ConnBut(conn[i], conn'[i], {"sawEOF", "peeked", "closed", "r"}) /\ conn'[i].closed = D[i].closed
    BY <1>5, <1>7, <2>1 DEF ConnBut, ConnFields
  <2> QED BY <1>9, <1>10, <1>11, <2>1, <2>3, <2>4 DEF OnlyConn
<1>12. CASE conn[i].expected # 0
  <2>1. Others(Conns, C, conn', i) /\ ConnBut(C[i], conn'[i], {"r"}) /\ conn'[i].r = "take"
    BY <1>3, <1>6, <1>12 DEF Others, ConnBut, ConnFields, AreConns, IsConn
  <2>2. IsConn(conn'[i])
    <3>1. conn'[i].r \in ConnTypes.r
      BY <2>1, ConnTypesAre
    <3> QED BY <1>6, <2>1, <3>1, ConnRetyped DEF AreConns
  <2>3. AreConns(conn') /\ Others(Conns, conn, conn', i)
    BY <1>5, <1>6, <2>1, <2>2, ConnsRetyped DEF Others
  <2>4. ConnBut(conn[i], conn'[i], {"sawEOF", "peeked", "closed", "r"}) /\ conn'[i].closed = conn[i].closed
        /\ conn'[i].peeked = ok
    BY <1>5, <1>8, <2>1 DEF ConnBut, ConnFields
  <2> QED BY <1>1, <1>10, <1>12, <2>1, <2>3, <2>4 DEF OnlyConn
<1> QED BY <1>11, <1>12

LEMMA ReadResponseFacts ==
    ASSUME H1Types, NEW i \in Conns, readResponse(i)
    PROVE  LET k == conn[i]  k2 == conn'[i]  q == k.reqch[1] IN
           /\ UNCHANGED <<h, caller, pool, seen>>
           /\ k.dial = "up" /\ k.r = "take" /\ k.reqch # <<>> /\ q \in Reqs
           /\ k2.rc = q /\ k2.reqch = <<>>
           /\ \/ /\ OnlyConn(i, {"r", "res", "alive", "rc", "reqch", "down"})
                 /\ k2.r = "deliver" /\ k2.res \in {"read error", "bad response"} /\ k2.alive = FALSE
                 /\ k2.down = IF k.down = <<>> THEN k.down ELSE Tail(k.down)
                 /\ (k2.res = "read error" <=> ~k.peeked)
                 /\ reqCanceler' = IF ShouldRetry(i, caller[q[1]].method, k2.res) THEN reqCanceler
                                   ELSE [reqCanceler EXCEPT ![q] = "none"]
              \/ /\ OnlyConn(i, {"r", "res", "from", "alive", "rc", "reqch", "down", "expected", "sawEOF"})
                 /\ k.peeked /\ k2.res = Head(k.down).form /\ k2.res \notin {"bad", "data"}
                 /\ k2.from = Head(k.down).req /\ k2.down = Tail(k.down) /\ k2.expected = k.expected - 1
                 /\ k2.alive = (k2.res # "closing") /\ k2.r = IF HasBody(k2.res) THEN "deliver" ELSE "recycle"
                 /\ reqCanceler' = IF HasBody(k2.res) THEN reqCanceler ELSE [reqCanceler EXCEPT ![q] = "none"]
<1>1. AreConns(conn) /\ IsConn(conn[i])
  BY DEF H1Types, AreConns
<1>2. /\ UNCHANGED <<h, caller, pool, seen>>
      /\ conn[i].dial = "up" /\ conn[i].r = "take" /\ conn[i].reqch # <<>>
  BY DEF readResponse, Up
<1>3. PICK q : q = Head(conn[i].reqch)
  OBVIOUS
<1>4. q = conn[i].reqch[1] /\ q \in Reqs
  BY <1>1, <1>2, <1>3, ConnFacts
<1>5. q \in MaybeReq /\ <<>> \in Seq(Reqs)
  BY <1>4 DEF MaybeReq
<1>6. ASSUME NEW err, err \in {"read error", "bad response"}, err = "read error" <=> ~conn[i].peeked,
             ReadFails(i, q, err)
      PROVE  LET k == conn[i]  k2 == conn'[i] IN
             /\ OnlyConn(i, {"r", "res", "alive", "rc", "reqch", "down"})
             /\ k2.rc = q /\ k2.reqch = <<>>
             /\ k2.r = "deliver" /\ k2.res \in {"read error", "bad response"} /\ k2.alive = FALSE
             /\ k2.down = IF k.down = <<>> THEN k.down ELSE Tail(k.down)
             /\ (k2.res = "read error" <=> ~k.peeked)
             /\ reqCanceler' = IF ShouldRetry(i, caller[q[1]].method, k2.res) THEN reqCanceler
                               ELSE [reqCanceler EXCEPT ![q] = "none"]
  <2>1. PICK d : d = IF conn[i].down = <<>> THEN conn[i].down ELSE Tail(conn[i].down)
    OBVIOUS
  <2>2. conn' = [conn EXCEPT ![i].r = "deliver", ![i].res = err, ![i].alive = FALSE, ![i].rc = q,
                  ![i].reqch = <<>>, ![i].down = d]
    BY <1>6, <2>1, Zenon DEF ReadFails
  <2>3. /\ Others(Conns, conn, conn', i)
        /\ ConnBut(conn[i], conn'[i], {"r", "res", "alive", "rc", "reqch", "down"})
        /\ conn'[i].r = "deliver" /\ conn'[i].res = err /\ conn'[i].alive = FALSE /\ conn'[i].rc = q
        /\ conn'[i].reqch = <<>> /\ conn'[i].down = d
    BY <1>1, <2>2, ZenonT(40) DEF Others, ConnBut, ConnFields, AreConns, IsConn
  <2>4. AreConns(conn')
    <3>1. /\ conn'[i].r \in ConnTypes.r /\ conn'[i].rc \in ConnTypes.rc
          /\ conn'[i].reqch \in ConnTypes.reqch
      BY <1>5, <2>3, ConnTypesAre, Zenon
    <3>2. conn'[i].alive \in ConnTypes.alive
      BY <2>3, ConnTypesAre, Zenon
    <3>3. IsConn(conn'[i])
      BY <1>1, <2>3, <3>1, <3>2, ConnRetyped DEF ConnTyped
    <3> QED BY <1>1, <2>3, <3>3, ConnsRetyped
  <2>5. reqCanceler' = IF ShouldRetry(i, caller[q[1]].method, err) THEN reqCanceler
                       ELSE [reqCanceler EXCEPT ![q] = "none"]
    BY <1>6, Zenon DEF ReadFails, SetCanceler
  <2> QED BY <1>6, <2>1, <2>3, <2>4, <2>5 DEF OnlyConn
<1>7. PICK form : form = Head(conn[i].down).form
  OBVIOUS
<1>8. ASSUME conn[i].peeked, form \notin {"bad", "data"},
             conn' = [conn EXCEPT ![i].res = form, ![i].from = Head(conn[i].down).req, ![i].rc = q,
                        ![i].reqch = <<>>, ![i].down = Tail(@), ![i].expected = @ - 1,
                        ![i].sawEOF = form = "short", ![i].alive = form # "closing",
                        ![i].r = IF HasBody(form) THEN "deliver" ELSE "recycle"],
             IF HasBody(form) THEN UNCHANGED reqCanceler ELSE SetCanceler(q, "none")
      PROVE  LET k == conn[i]  k2 == conn'[i] IN
             /\ OnlyConn(i, {"r", "res", "from", "alive", "rc", "reqch", "down", "expected", "sawEOF"})
             /\ k2.rc = q /\ k2.reqch = <<>>
             /\ k.peeked /\ k2.res = Head(k.down).form /\ k2.res \notin {"bad", "data"}
             /\ k2.from = Head(k.down).req /\ k2.down = Tail(k.down) /\ k2.expected = k.expected - 1
             /\ k2.alive = (k2.res # "closing") /\ k2.r = IF HasBody(k2.res) THEN "deliver" ELSE "recycle"
             /\ reqCanceler' = IF HasBody(k2.res) THEN reqCanceler ELSE [reqCanceler EXCEPT ![q] = "none"]
  <2>1. PICK f, t, n, r : /\ f = Head(conn[i].down).req /\ t = Tail(conn[i].down) /\ n = conn[i].expected - 1
                          /\ r = IF HasBody(form) THEN "deliver" ELSE "recycle"
    OBVIOUS
  <2>2. PICK a \in BOOLEAN, b \in BOOLEAN : a = (form = "short") /\ b = (form # "closing")
    OBVIOUS
  <2>3. conn' = [conn EXCEPT ![i].res = form, ![i].from = f, ![i].rc = q, ![i].reqch = <<>>, ![i].down = t,
                        ![i].expected = n, ![i].sawEOF = a, ![i].alive = b, ![i].r = r]
    BY <1>8, <2>1, <2>2, Zenon
  <2> PICK y : y = [conn[i] EXCEPT !.res = form, !.from = f, !.rc = q, !.reqch = <<>>, !.down = t,
                        !.expected = n, !.sawEOF = a, !.alive = b, !.r = r]
    OBVIOUS
  <2> Others(Conns, conn, conn', i) /\ conn'[i] = y
    BY <1>1, <2>3, ZenonT(40) DEF AreConns, Others
  <2> ConnBut(conn[i], y, {"r", "res", "from", "alive", "rc", "reqch", "down", "expected", "sawEOF"})
    BY <1>1, Zenon DEF ConnBut, ConnFields, IsConn
  <2> y.res = form /\ y.from = f /\ y.rc = q /\ y.reqch = <<>> /\ y.down = t
    BY <1>1, SMT DEF ConnFields, IsConn
  <2> y.expected = n /\ y.r = r /\ y.sawEOF = a /\ y.alive = b
    BY <1>1, Zenon DEF ConnFields, IsConn
  <2>4. /\ Others(Conns, conn, conn', i)
        /\ ConnBut(conn[i], conn'[i], {"r", "res", "from", "alive", "rc", "reqch", "down", "expected", "sawEOF"})
        /\ conn'[i].res = form /\ conn'[i].from = f /\ conn'[i].rc = q /\ conn'[i].reqch = <<>>
        /\ conn'[i].down = t /\ conn'[i].expected = n /\ conn'[i].sawEOF = a /\ conn'[i].alive = b
        /\ conn'[i].r = r
    BY Zenon
  <2>5. AreConns(conn')
    <3>1. n \in Int
      BY <1>1, <2>1, ConnFacts
    <3>2. r \in ConnTypes.r
      BY <2>1, ConnTypesAre
    <3>3. /\ conn'[i].r \in ConnTypes.r /\ conn'[i].rc \in ConnTypes.rc
          /\ conn'[i].reqch \in ConnTypes.reqch /\ conn'[i].expected \in ConnTypes.expected
          /\ conn'[i].alive \in ConnTypes.alive /\ conn'[i].sawEOF \in ConnTypes.sawEOF
      BY <1>5, <2>2, <2>4, <3>1, <3>2, ConnTypesAre, Zenon
    <3>4. IsConn(conn'[i])
      BY <1>1, <2>4, <3>3, ConnRetyped DEF ConnTyped
    <3> QED BY <1>1, <2>4, <3>4, ConnsRetyped
  <2>6. reqCanceler' = IF HasBody(form) THEN reqCanceler ELSE [reqCanceler EXCEPT ![q] = "none"]
    BY <1>8, Zenon DEF SetCanceler
  <2>7. conn'[i].alive = (conn'[i].res # "closing")
    BY <2>2, <2>4
  <2>8. OnlyConn(i, {"r", "res", "from", "alive", "rc", "reqch", "down", "expected", "sawEOF"})
    BY <2>4, <2>5, Zenon DEF OnlyConn
  <2>9. conn'[i].r = IF HasBody(conn'[i].res) THEN "deliver" ELSE "recycle"
    BY <2>1, <2>4, Zenon
  <2> QED BY <1>7, <1>8, <2>1, <2>4, <2>6, <2>7, <2>8, <2>9, Zenon
<1>9. \/ ~conn[i].peeked /\ ReadFails(i, q, "read error")
      \/ conn[i].peeked /\ form \in {"bad", "data"} /\ ReadFails(i, q, "bad response")
      \/ /\ conn[i].peeked /\ form \notin {"bad", "data"}
         /\ conn' = [conn EXCEPT ![i].res = form, ![i].from = Head(conn[i].down).req, ![i].rc = q,
                        ![i].reqch = <<>>, ![i].down = Tail(@), ![i].expected = @ - 1,
                        ![i].sawEOF = form = "short", ![i].alive = form # "closing",
                        ![i].r = IF HasBody(form) THEN "deliver" ELSE "recycle"]
         /\ IF HasBody(form) THEN UNCHANGED reqCanceler ELSE SetCanceler(q, "none")
  BY <1>3, <1>7, Zenon DEF readResponse
<1>10. CASE ~conn[i].peeked /\ ReadFails(i, q, "read error")
  BY <1>2, <1>4, <1>6, <1>10, Zenon
<1>11. CASE conn[i].peeked /\ form \in {"bad", "data"} /\ ReadFails(i, q, "bad response")
  <2>1. "bad response" = "read error" <=> ~conn[i].peeked
    BY <1>11
  <2> QED BY <1>2, <1>4, <1>6, <1>11, <2>1, Zenon
<1> QED BY <1>2, <1>4, <1>8, <1>9, <1>10, <1>11, Zenon

(* One connection is replaced by y, which differs from it in the fields F. *)
LEMMA ConnUpdated ==
    ASSUME NEW C, AreConns(C), NEW i \in Conns, NEW F, NEW y, ConnBut(C[i], y, F),
           \A f \in F \cap ConnTyped : y[f] \in ConnTypes[f], NEW C2, Others(Conns, C, C2, i), C2[i] = y
    PROVE  AreConns(C2) /\ ConnBut(C[i], C2[i], F)
<1>1. IsConn(C[i])
  BY DEF AreConns
<1>2. IsConn(y)
  BY <1>1, ConnRetyped
<1> QED BY <1>2, ConnsRetyped

LEMMA ReadLoopEndsFacts ==
    ASSUME H1Types, NEW i \in Conns, readLoopEnds(i)
    PROVE  /\ UNCHANGED <<h, caller, reqCanceler, seen>> /\ conn[i].dial = "up" /\ conn[i].r = "exit"
           /\ AreConns(conn') /\ Others(Conns, conn, conn', i)
           /\ pool' = Unlist(pool, i, conn[i].key) /\ pool' \in Pools
           /\ \E k : /\ ConnBut(conn[i], k, {"closed", "r"}) /\ k.r = "gone" /\ k.closed # Unset
                     /\ k.closed = IF conn[i].closed # Unset THEN conn[i].closed
                                   ELSE IF conn[i].res = "read error" THEN "read error" ELSE "read loop ended"
                     /\ IF conn[i].w = "done" THEN Remains(k, conn'[i]) ELSE conn'[i] = k
<1> DEFINE why == IF conn[i].res = "read error" THEN "read error" ELSE "read loop ended"
           C == Close(conn, i, why)
           D == [C EXCEPT ![i].r = "gone"]
<1>1. AreConns(conn) /\ IsConn(conn[i]) /\ pool \in Pools /\ conn[i].key \in Hosts
  BY ConnFacts DEF H1Types, AreConns
<1>2. conn' = Bury(D, i)
  BY Zenon DEF readLoopEnds
<1>3. UNCHANGED <<h, caller, reqCanceler, seen>> /\ conn[i].dial = "up" /\ conn[i].r = "exit"
      /\ pool' = Unlist(pool, i, conn[i].key)
  BY DEF readLoopEnds, Up
<1>4. why # Unset
  BY DEF Unset
<1> HIDE DEF why
<1>5. /\ AreConns(C) /\ Others(Conns, conn, C, i) /\ ConnBut(conn[i], C[i], {"closed"})
      /\ C[i].closed = IF conn[i].closed = Unset THEN why ELSE conn[i].closed
  BY <1>1, CloseFacts
<1> HIDE DEF C
<1>6. Others(Conns, C, D, i) /\ ConnBut(C[i], D[i], {"r"}) /\ D[i].r = "gone"
  BY <1>5 DEF Others, ConnBut, ConnFields, AreConns, IsConn
<1> HIDE DEF D
<1>7. AreConns(D)
  <2>1. D[i].r \in ConnTypes.r
    BY <1>6, ConnTypesAre
  <2> QED BY <1>5, <1>6, <2>1, ConnRetyped, ConnsRetyped DEF AreConns
<1>8. ConnBut(conn[i], D[i], {"closed", "r"}) /\ D[i].closed = C[i].closed /\ D[i].w = conn[i].w
  BY <1>5, <1>6 DEF ConnBut, ConnFields
<1>9. /\ AreConns(conn') /\ Others(Conns, D, conn', i)
      /\ IF D[i].r = "gone" /\ D[i].w = "done" THEN Remains(D[i], conn'[i]) ELSE conn' = D
  BY <1>2, <1>7, BuryFacts
<1>10. Others(Conns, conn, conn', i)
  BY <1>5, <1>6, <1>9 DEF Others
<1>11. pool' \in Pools
  BY <1>1, <1>3, UnlistFacts
<1>12. D[i].closed # Unset /\ D[i].closed = IF conn[i].closed # Unset THEN conn[i].closed
                                   ELSE IF conn[i].res = "read error" THEN "read error" ELSE "read loop ended"
  BY <1>4, <1>5, <1>8 DEF why
<1>13. IF conn[i].w = "done" THEN Remains(D[i], conn'[i]) ELSE conn'[i] = D[i]
  BY <1>6, <1>8, <1>9
<1> QED BY <1>3, <1>6, <1>8, <1>9, <1>10, <1>11, <1>12, <1>13

LEMMA WriteLoopEndsFacts ==
    ASSUME H1Types, NEW i \in Conns, writeLoopEnds(i)
    PROVE  /\ UNCHANGED <<h, caller, pool, reqCanceler, seen>> /\ conn[i].dial = "up" /\ conn[i].w = "idle"
           /\ conn[i].closed # Unset /\ AreConns(conn') /\ Others(Conns, conn, conn', i)
           /\ \E k : /\ ConnBut(conn[i], k, {"w"}) /\ k.w = "done"
                     /\ IF conn[i].r = "gone" THEN Remains(k, conn'[i]) ELSE conn'[i] = k
<1> DEFINE D == [conn EXCEPT ![i].w = "done"]
<1>1. AreConns(conn) /\ IsConn(conn[i])
  BY DEF H1Types, AreConns
<1>2. /\ UNCHANGED <<h, caller, pool, reqCanceler, seen>> /\ conn[i].dial = "up" /\ conn[i].w = "idle"
      /\ conn[i].closed # Unset /\ conn' = Bury(D, i)
  BY DEF writeLoopEnds, Up
<1>3. Others(Conns, conn, D, i) /\ ConnBut(conn[i], D[i], {"w"}) /\ D[i].w = "done"
  BY <1>1 DEF Others, ConnBut, ConnFields, AreConns, IsConn
<1> HIDE DEF D
<1>4. AreConns(D)
  <2>1. D[i].w \in ConnTypes.w
    BY <1>3, ConnTypesAre
  <2> QED BY <1>1, <1>3, <2>1, ConnRetyped, ConnsRetyped
<1>5. /\ AreConns(conn') /\ Others(Conns, D, conn', i)
      /\ IF D[i].r = "gone" /\ D[i].w = "done" THEN Remains(D[i], conn'[i]) ELSE conn' = D
  BY <1>2, <1>4, BuryFacts
<1>6. Others(Conns, conn, conn', i)
  BY <1>3, <1>5 DEF Others
<1>7. D[i].r = conn[i].r
  BY <1>3 DEF ConnBut, ConnFields
<1> QED BY <1>2, <1>3, <1>5, <1>6, <1>7

LEMMA WriteFacts ==
    ASSUME H1Types, NEW i \in Conns, Write(i)
    PROVE  LET k == conn[i]  k2 == conn'[i]  q == conn[i].writech[1] IN
           /\ UNCHANGED <<h, caller, pool, reqCanceler>> /\ k.dial = "up" /\ k.w = "idle" /\ k.writech # <<>>
           /\ q \in Reqs /\ OnlyConn(i, {"writech", "nwrite", "w", "wr", "werr", "up"})
           /\ k2.writech = <<>> /\ k2.w = "report" /\ k2.wr = q
           /\ \/ /\ k.closed = Unset /\ k2.nwrite = k.nwrite + 1 /\ k2.werr = "nil"
                 /\ k.eof => k2.up = k.up /\ seen' = seen
                 /\ ~k.eof => k2.up = Append(k.up, q) /\ seen' = seen \cup {<<q, i>>}
              \/ /\ k2.up = k.up /\ seen' = seen
                 /\ \/ k2.nwrite = k.nwrite + 1 /\ k2.werr = "write error"
                    \/ k2.nwrite = k.nwrite /\ k2.werr \in {"nothing written", "write error"}
<1>1. AreConns(conn) /\ IsConn(conn[i])
  BY DEF H1Types, AreConns
<1>2. /\ UNCHANGED <<h, caller, pool, reqCanceler>> /\ conn[i].dial = "up" /\ conn[i].w = "idle"
      /\ conn[i].writech # <<>>
  BY DEF Write, Up
<1>3. PICK q : q = Head(conn[i].writech)
  OBVIOUS
<1>4. q \in Reqs /\ q = conn[i].writech[1] /\ conn[i].nwrite \in Nat /\ conn[i].up \in Seq(Reqs)
      /\ conn[i].eof \in BOOLEAN
  BY <1>1, <1>2, <1>3, ConnFacts
<1>5. ASSUME NEW n \in {0, 1}, NEW e, NEW u \in Seq(Reqs),
             conn' = [conn EXCEPT ![i].writech = <<>>, ![i].nwrite = @ + n, ![i].w = "report",
                                  ![i].wr = q, ![i].werr = e, ![i].up = u]
      PROVE  /\ OnlyConn(i, {"writech", "nwrite", "w", "wr", "werr", "up"})
             /\ conn'[i].writech = <<>> /\ conn'[i].w = "report" /\ conn'[i].wr = q
             /\ conn'[i].nwrite = conn[i].nwrite + n /\ conn'[i].werr = e /\ conn'[i].up = u
  <2>1. PICK m : m = conn[i].nwrite + n
    OBVIOUS
  <2>2. PICK y : y = [conn[i] EXCEPT !.writech = <<>>, !.nwrite = m, !.w = "report",
                                  !.wr = q, !.werr = e, !.up = u]
    OBVIOUS
  <2>3. Others(Conns, conn, conn', i) /\ conn'[i] = y
    BY <1>1, <1>5, <2>1, <2>2 DEF AreConns, Others
  <2>4. ConnBut(conn[i], y, {"writech", "nwrite", "w", "wr", "werr", "up"})
    BY <1>1, <2>2, ZenonT(40) DEF IsConn, ConnBut, ConnFields
  <2>5. y.writech = <<>> /\ y.nwrite = m /\ y.w = "report" /\ y.wr = q /\ y.werr = e /\ y.up = u
    BY <1>1, <2>2, SMT DEF IsConn, ConnFields
  <2>6. m \in Nat /\ <<>> \in Seq(Reqs) /\ q \in MaybeReq
    BY <1>4, <2>1 DEF MaybeReq
  <2>7. /\ y.writech \in ConnTypes.writech /\ y.nwrite \in ConnTypes.nwrite /\ y.w \in ConnTypes.w
        /\ y.wr \in ConnTypes.wr /\ y.up \in ConnTypes.up
    BY <2>5, <2>6, ConnTypesAre, Zenon
  <2>8. \A f \in {"writech", "nwrite", "w", "wr", "werr", "up"} \cap ConnTyped : y[f] \in ConnTypes[f]
    BY <2>7 DEF ConnTyped
  <2>9. OnlyConn(i, {"writech", "nwrite", "w", "wr", "werr", "up"})
    BY <1>1, <2>3, <2>4, <2>8, ConnUpdated DEF OnlyConn
  <2> QED BY <2>1, <2>3, <2>5, <2>9
<1>6. ASSUME NEW n, NEW e,
             conn' = [conn EXCEPT ![i].writech = <<>>, ![i].nwrite = @ + n, ![i].w = "report",
                                    ![i].wr = q, ![i].werr = e]
      PROVE  conn' = [conn EXCEPT ![i].writech = <<>>, ![i].nwrite = @ + n, ![i].w = "report",
                                  ![i].wr = q, ![i].werr = e, ![i].up = conn[i].up]
  <2>1. PICK y, z : /\ y = [conn[i] EXCEPT !.writech = <<>>, !.nwrite = @ + n, !.w = "report", !.wr = q, !.werr = e]
                    /\ z = [conn[i] EXCEPT !.writech = <<>>, !.nwrite = @ + n, !.w = "report", !.wr = q, !.werr = e,
                                           !.up = conn[i].up]
    OBVIOUS
  <2>2. y = [f \in ConnFields |-> y[f]] /\ z = [f \in ConnFields |-> z[f]]
    BY <1>1, <2>1, ZenonT(40) DEF IsConn, ConnFields
  <2>3. \A f \in ConnFields : y[f] = z[f]
    BY <1>1, <2>1 DEF IsConn
  <2>4. y = z
    BY <2>2, <2>3
  <2>5. conn' = [conn EXCEPT ![i] = y]
    BY <1>1, <1>6, <2>1 DEF AreConns
  <2> QED BY <1>1, <2>1, <2>4, <2>5 DEF AreConns
<1>7. CASE /\ conn[i].closed = Unset
           /\ conn' = IF conn[i].eof
                      THEN [conn EXCEPT ![i].writech = <<>>, ![i].nwrite = @ + 1, ![i].w = "report",
                                    ![i].wr = q, ![i].werr = "nil"]
                      ELSE [[conn EXCEPT ![i].writech = <<>>, ![i].nwrite = @ + 1, ![i].w = "report",
                                    ![i].wr = q, ![i].werr = "nil"] EXCEPT ![i].up = Append(@, q)]
           /\ seen' = IF conn[i].eof THEN seen ELSE seen \cup {<<q, i>>}
  <2>0. conn[i].closed = Unset /\ seen' = (IF conn[i].eof THEN seen ELSE seen \cup {<<q, i>>})
    BY <1>7, Zenon
  <2>1. CASE conn[i].eof
    <3>1. conn' = [conn EXCEPT ![i].writech = <<>>, ![i].nwrite = @ + 1, ![i].w = "report",
                                    ![i].wr = q, ![i].werr = "nil"]
      BY <1>7, <2>1, Zenon
    <3>2. /\ OnlyConn(i, {"writech", "nwrite", "w", "wr", "werr", "up"})
          /\ conn'[i].writech = <<>> /\ conn'[i].w = "report" /\ conn'[i].wr = q
          /\ conn'[i].nwrite = conn[i].nwrite + 1 /\ conn'[i].werr = "nil" /\ conn'[i].up = conn[i].up
      <4>1. conn' = [conn EXCEPT ![i].writech = <<>>, ![i].nwrite = @ + 1, ![i].w = "report",
                                    ![i].wr = q, ![i].werr = "nil", ![i].up = conn[i].up]
        BY <1>6, <3>1, Zenon
      <4>2. 1 \in {0, 1}
        OBVIOUS
      <4> QED BY <1>4, <1>5, <4>1, <4>2, Zenon
    <3> QED BY <1>2, <1>4, <2>0, <2>1, <3>2, Zenon
  <2>2. CASE ~conn[i].eof
    <3>1. conn' = [conn EXCEPT ![i].writech = <<>>, ![i].nwrite = @ + 1, ![i].w = "report",
                                    ![i].wr = q, ![i].werr = "nil", ![i].up = Append(conn[i].up, q)]
      <4>1. PICK C : C = [conn EXCEPT ![i].writech = <<>>, ![i].nwrite = @ + 1, ![i].w = "report",
                                    ![i].wr = q, ![i].werr = "nil"]
        OBVIOUS
      <4>2. C[i].up = conn[i].up
        BY <1>1, <4>1 DEF AreConns, IsConn, ConnFields
      <4>3. conn' = [C EXCEPT ![i].up = Append(conn[i].up, q)]
        BY <1>7, <2>2, <4>1, <4>2
      <4> QED BY <4>1, <4>3
    <3>2. Append(conn[i].up, q) \in Seq(Reqs)
      BY <1>4
    <3>3. /\ OnlyConn(i, {"writech", "nwrite", "w", "wr", "werr", "up"})
          /\ conn'[i].writech = <<>> /\ conn'[i].w = "report" /\ conn'[i].wr = q
          /\ conn'[i].nwrite = conn[i].nwrite + 1 /\ conn'[i].werr = "nil" /\ conn'[i].up = Append(conn[i].up, q)
      BY <1>5, <3>1, <3>2, Zenon
    <3> QED BY <1>2, <1>4, <2>0, <2>2, <3>3, Zenon
  <2> QED BY <2>1, <2>2, Zenon
<1>8. CASE /\ UNCHANGED seen
           /\ \E n \in {0, 1} :
                conn' = [conn EXCEPT ![i].writech = <<>>, ![i].nwrite = @ + n, ![i].w = "report", ![i].wr = q,
                            ![i].werr = IF n = 0 /\ outgoingLength(caller[q[1]].method) = 0 THEN "nothing written"
                                 ELSE "write error"]
  <2>0. PICK n \in {0, 1} :
                conn' = [conn EXCEPT ![i].writech = <<>>, ![i].nwrite = @ + n, ![i].w = "report", ![i].wr = q,
                            ![i].werr = IF n = 0 /\ outgoingLength(caller[q[1]].method) = 0 THEN "nothing written"
                                 ELSE "write error"]
    BY <1>8, Zenon
  <2>1. PICK e : e = IF n = 0 /\ outgoingLength(caller[q[1]].method) = 0 THEN "nothing written"
                                 ELSE "write error"
    OBVIOUS
  <2>2. conn' = [conn EXCEPT ![i].writech = <<>>, ![i].nwrite = @ + n, ![i].w = "report",
                                  ![i].wr = q, ![i].werr = e, ![i].up = conn[i].up]
    <3>1. conn' = [conn EXCEPT ![i].writech = <<>>, ![i].nwrite = @ + n, ![i].w = "report", ![i].wr = q, ![i].werr = e]
      BY <2>0, <2>1, Zenon
    <3> QED BY <1>6, <3>1, Zenon
  <2>3. /\ OnlyConn(i, {"writech", "nwrite", "w", "wr", "werr", "up"})
        /\ conn'[i].writech = <<>> /\ conn'[i].w = "report" /\ conn'[i].wr = q
        /\ conn'[i].nwrite = conn[i].nwrite + n /\ conn'[i].werr = e /\ conn'[i].up = conn[i].up
    BY <1>4, <1>5, <2>2, Zenon
  <2>4. CASE n = 0
    <3>1. conn'[i].nwrite = conn[i].nwrite /\ conn'[i].werr \in {"nothing written", "write error"}
      <4>1. e \in {"nothing written", "write error"}
        BY <2>1, Zenon
      <4>2. conn'[i].nwrite = conn[i].nwrite + n /\ conn'[i].werr = e
        BY <2>3, Zenon
      <4>3. conn'[i].nwrite = conn[i].nwrite
        BY <1>4, <2>4, <4>2
      <4> QED BY <4>1, <4>2, <4>3, Zenon
    <3> QED BY <1>2, <1>4, <1>8, <2>3, <3>1, Zenon
  <2>5. CASE n = 1
    <3>1. conn'[i].nwrite = conn[i].nwrite + 1 /\ conn'[i].werr = "write error"
      <4>1. e = "write error"
        <5>1. n # 0
          BY <2>5
        <5> QED BY <2>1, <5>1, Zenon
      <4>2. conn'[i].nwrite = conn[i].nwrite + n /\ conn'[i].werr = e
        BY <2>3, Zenon
      <4> QED BY <1>4, <2>5, <4>1, <4>2
    <3> QED BY <1>2, <1>4, <1>8, <2>3, <3>1, Zenon
  <2> QED BY <2>4, <2>5
<1>9. \/ /\ conn[i].closed = Unset
         /\ conn' = IF conn[i].eof
                      THEN [conn EXCEPT ![i].writech = <<>>, ![i].nwrite = @ + 1, ![i].w = "report",
                                    ![i].wr = q, ![i].werr = "nil"]
                      ELSE [[conn EXCEPT ![i].writech = <<>>, ![i].nwrite = @ + 1, ![i].w = "report",
                                    ![i].wr = q, ![i].werr = "nil"] EXCEPT ![i].up = Append(@, q)]
         /\ seen' = IF conn[i].eof THEN seen ELSE seen \cup {<<q, i>>}
      \/ /\ UNCHANGED seen
         /\ \E n \in {0, 1} :
                conn' = [conn EXCEPT ![i].writech = <<>>, ![i].nwrite = @ + n, ![i].w = "report", ![i].wr = q,
                            ![i].werr = IF n = 0 /\ outgoingLength(caller[q[1]].method) = 0 THEN "nothing written"
                                 ELSE "write error"]
  BY <1>3, Zenon DEF Write
<1> QED BY <1>7, <1>8, <1>9

LEMMA IdleTimerFacts ==
    ASSUME H1Types, NEW i \in Conns, IdleTimerFires(i)
    PROVE  /\ UNCHANGED <<h, caller, pool, reqCanceler, seen>> /\ OnlyConn(i, {"fired"})
           /\ conn'[i].fired = TRUE
<1>1. AreConns(conn) /\ IsConn(conn[i])
  BY DEF H1Types, AreConns
<1>2. UNCHANGED <<h, caller, pool, reqCanceler, seen>> /\ conn' = [conn EXCEPT ![i].fired = TRUE]
  BY DEF IdleTimerFires
<1>3. Others(Conns, conn, conn', i) /\ ConnBut(conn[i], conn'[i], {"fired"}) /\ conn'[i].fired = TRUE
  BY <1>1, <1>2 DEF Others, ConnBut, ConnFields, AreConns, IsConn
<1>4. conn'[i].fired \in ConnTypes.fired
  BY <1>3, ConnTypesAre, Zenon
<1>5. OnlyConn(i, {"fired"})
  <2>1. \A f \in {"fired"} \cap ConnTyped : conn'[i][f] \in ConnTypes[f]
    BY <1>4, Zenon
  <2>2. Others(Conns, conn, conn', i) /\ ConnBut(conn[i], conn'[i], {"fired"})
    BY <1>3, Zenon
  <2> QED BY <1>1, <2>1, <2>2, ConnUpdated DEF OnlyConn
<1> QED BY <1>2, <1>3, <1>5, Zenon

LEMMA StillIdleFacts ==
    ASSUME H1Types, NEW i \in Conns, closeConnIfStillIdle(i)
    PROVE  /\ UNCHANGED <<h, caller, reqCanceler, seen>> /\ OnlyConn(i, {"closed"})
           /\ conn'[i].closed # Unset /\ (conn[i].closed # Unset => conn'[i].closed = conn[i].closed)
           /\ conn'[i].closed \notin {"closed idle", "read error"} \/ conn[i].closed # Unset
           /\ conn[i].fired /\ i \in Range(pool.lru) /\ pool' = Unlist(pool, i, conn[i].key) /\ pool' \in Pools
<1>1. AreConns(conn) /\ IsConn(conn[i]) /\ pool \in Pools /\ conn[i].key \in Hosts
  BY ConnFacts DEF H1Types, AreConns
<1>2. /\ UNCHANGED <<h, caller, reqCanceler, seen>> /\ conn[i].fired /\ i \in Range(pool.lru)
      /\ pool' = Unlist(pool, i, conn[i].key) /\ conn' = Close(conn, i, "idle timeout")
  BY DEF closeConnIfStillIdle
<1>3. /\ AreConns(conn') /\ Others(Conns, conn, conn', i) /\ ConnBut(conn[i], conn'[i], {"closed"})
      /\ conn'[i].closed = IF conn[i].closed = Unset THEN "idle timeout" ELSE conn[i].closed
  BY <1>1, <1>2, CloseFacts
<1>4. /\ conn'[i].closed # Unset /\ (conn[i].closed # Unset => conn'[i].closed = conn[i].closed)
      /\ conn'[i].closed \notin {"closed idle", "read error"} \/ conn[i].closed # Unset
  BY <1>3 DEF Unset
<1>5. pool' \in Pools
  BY <1>1, <1>2, UnlistFacts
<1> QED BY <1>2, <1>3, <1>4, <1>5 DEF OnlyConn

LEMMA ServerAnswersFacts ==
    ASSUME H1Types, NEW i \in Conns, ServerAnswers(i)
    PROVE  LET k == conn[i]  k2 == conn'[i]  q == k.up[1] IN
           /\ UNCHANGED <<h, caller, pool, reqCanceler, seen>> /\ OnlyConn(i, {"up", "down", "owes", "eof"})
           /\ k.up # <<>> /\ k.owes = NoReq /\ k.closed = Unset /\ q \in Reqs /\ k2.up = Tail(k.up)
           /\ \E f \in Forms : /\ k2.down = Append(k.down, [req |-> q, form |-> f])
                               /\ k2.owes = IF HasBody(f) THEN q ELSE NoReq
<1>1. AreConns(conn) /\ IsConn(conn[i])
  BY DEF H1Types, AreConns
<1>2. /\ UNCHANGED <<h, caller, pool, reqCanceler, seen>> /\ conn[i].up # <<>> /\ conn[i].owes = NoReq
      /\ conn[i].closed = Unset
  BY DEF ServerAnswers, Listens
<1>3. PICK q : q = Head(conn[i].up)
  OBVIOUS
<1>4. q \in Reqs /\ q = conn[i].up[1] /\ Tail(conn[i].up) \in Seq(Reqs)
  BY <1>1, <1>2, <1>3, ConnFacts
<1>5. PICK f \in h.forms :
        conn' = [conn EXCEPT ![i].up = Tail(@), ![i].down = Append(@, [req |-> q, form |-> f]),
                   ![i].owes = IF HasBody(f) THEN q ELSE NoReq, ![i].eof = f = "short"]
  BY <1>3, Zenon DEF ServerAnswers
<1>6. f \in Forms
  BY TypeFacts DEF Setting
<1>7. PICK u, d, o : /\ u = Tail(conn[i].up) /\ d = Append(conn[i].down, [req |-> q, form |-> f])
                     /\ o = IF HasBody(f) THEN q ELSE NoReq
  OBVIOUS
<1>8. PICK e \in BOOLEAN : e = (f = "short")
  OBVIOUS
<1>9. conn' = [conn EXCEPT ![i].up = u, ![i].down = d, ![i].owes = o, ![i].eof = e]
  BY <1>5, <1>7, <1>8, Zenon
<1>10. /\ Others(Conns, conn, conn', i) /\ ConnBut(conn[i], conn'[i], {"up", "down", "owes", "eof"})
       /\ conn'[i].up = u /\ conn'[i].down = d /\ conn'[i].owes = o /\ conn'[i].eof = e
  BY <1>1, <1>9, ZenonT(40) DEF Others, ConnBut, ConnFields, AreConns, IsConn
<1>11. o \in MaybeReq
  BY <1>4, <1>7 DEF MaybeReq
<1>12. conn'[i].up \in ConnTypes.up /\ conn'[i].owes \in ConnTypes.owes /\ conn'[i].eof \in ConnTypes.eof
  BY <1>4, <1>7, <1>8, <1>10, <1>11, ConnTypesAre, Zenon
<1>13. OnlyConn(i, {"up", "down", "owes", "eof"})
  BY <1>1, <1>10, <1>12, ConnUpdated DEF OnlyConn, ConnTyped
<1> QED BY <1>2, <1>4, <1>6, <1>7, <1>10, <1>13, Zenon

LEMMA ServerSendsFacts ==
    ASSUME H1Types, NEW i \in Conns, ServerSendsBody(i)
    PROVE  LET k == conn[i]  k2 == conn'[i] IN
           /\ UNCHANGED <<h, caller, pool, reqCanceler, seen>> /\ OnlyConn(i, {"down", "owes"})
           /\ k.owes # NoReq /\ k.closed = Unset /\ k.owes \in Reqs
           /\ k2.owes = NoReq /\ k2.down = Append(k.down, [req |-> k.owes, form |-> "data"])
<1>1. AreConns(conn) /\ IsConn(conn[i])
  BY DEF H1Types, AreConns
<1>2. /\ UNCHANGED <<h, caller, pool, reqCanceler, seen>> /\ conn[i].owes # NoReq
      /\ conn[i].closed = Unset
  BY DEF ServerSendsBody, Listens
<1>3. PICK d : d = Append(conn[i].down, [req |-> conn[i].owes, form |-> "data"])
  OBVIOUS
<1>4. conn' = [conn EXCEPT ![i].owes = NoReq, ![i].down = d]
  BY <1>3, Zenon DEF ServerSendsBody
<1>5. /\ Others(Conns, conn, conn', i) /\ ConnBut(conn[i], conn'[i], {"down", "owes"})
       /\ conn'[i].down = d /\ conn'[i].owes = NoReq
  BY <1>1, <1>4 DEF Others, ConnBut, ConnFields, AreConns, IsConn
<1>6. NoReq \in MaybeReq
  BY DEF MaybeReq
<1>7. conn'[i].owes \in ConnTypes.owes
  BY <1>5, <1>6, ConnTypesAre, Zenon
<1>8. OnlyConn(i, {"down", "owes"})
  BY <1>1, <1>5, <1>7, ConnUpdated DEF OnlyConn, ConnTyped
<1>9. conn[i].owes \in Reqs
  BY <1>1, <1>2, ConnFacts DEF MaybeReq
<1> QED BY <1>2, <1>3, <1>5, <1>8, <1>9, Zenon

LEMMA HangsUpFacts ==
    ASSUME H1Types, NEW i \in Conns, ServerHangsUp(i)
    PROVE  /\ UNCHANGED <<h, caller, pool, reqCanceler, seen>> /\ OnlyConn(i, {"eof"})
<1>1. AreConns(conn) /\ IsConn(conn[i])
  BY DEF H1Types, AreConns
<1>2. UNCHANGED <<h, caller, pool, reqCanceler, seen>> /\ conn' = [conn EXCEPT ![i].eof = TRUE]
  BY DEF ServerHangsUp
<1>3. Others(Conns, conn, conn', i) /\ ConnBut(conn[i], conn'[i], {"eof"}) /\ conn'[i].eof = TRUE
  BY <1>1, <1>2 DEF Others, ConnBut, ConnFields, AreConns, IsConn
<1>4. conn'[i].eof \in ConnTypes.eof
  BY <1>3, ConnTypesAre, Zenon
<1>5. OnlyConn(i, {"eof"})
  <2>1. \A f \in {"eof"} \cap ConnTyped : conn'[i][f] \in ConnTypes[f]
    BY <1>4, Zenon
  <2>2. Others(Conns, conn, conn', i) /\ ConnBut(conn[i], conn'[i], {"eof"})
    BY <1>3, Zenon
  <2> QED BY <1>1, <2>1, <2>2, ConnUpdated DEF OnlyConn
<1> QED BY <1>2, <1>3, <1>5, Zenon

LEMMA CloseIdleFacts ==
    ASSUME H1Types, CloseIdleConnections
    PROVE  /\ UNCHANGED <<h, reqCanceler, seen>> /\ AreConns(conn') /\ AreCallers(caller')
           /\ pool' = [idle |-> [k \in Hosts |-> <<>>], lru |-> <<>>, wantIdle |-> TRUE] /\ pool' \in Pools
           /\ \A c \in Callers : CallerBut(caller[c], caller'[c], {"live"})
           /\ \A i \in Conns :
                IF i \in Range(pool.lru)
                THEN /\ ConnBut(conn[i], conn'[i], {"closed"})
                     /\ conn'[i].closed = IF conn[i].closed = Unset THEN "idle closed" ELSE conn[i].closed
                ELSE conn'[i] = conn[i]
<1>1. AreConns(conn) /\ AreCallers(caller)
  BY DEF H1Types
<1>2. /\ UNCHANGED <<h, reqCanceler, seen>>
      /\ pool' = [idle |-> [k \in Hosts |-> <<>>], lru |-> <<>>, wantIdle |-> TRUE]
      /\ conn' = [i \in Conns |-> IF i \in Range(pool.lru) THEN Close(conn, i, "idle closed")[i] ELSE conn[i]]
      /\ caller' = [c \in Callers |-> [caller[c] EXCEPT !.live = FALSE]]
  BY Zenon DEF CloseIdleConnections
<1>3. pool' \in Pools
  <2>1. [k \in Hosts |-> <<>>] \in [Hosts -> Seq(Conns)] /\ <<>> \in Seq(Conns)
    OBVIOUS
  <2> QED BY <1>2, <2>1, Zenon DEF Pools
<1>4. ASSUME NEW c \in Callers PROVE IsCaller(caller'[c]) /\ CallerBut(caller[c], caller'[c], {"live"})
  <2>1. PICK b : b = [caller[c] EXCEPT !.live = FALSE]
    OBVIOUS
  <2>2. caller'[c] = b /\ IsCaller(caller[c])
    BY <1>1, <1>2, <2>1 DEF AreCallers
  <2>3. CallerBut(caller[c], b, {"live"}) /\ b.live = FALSE
    BY <2>1, <2>2, Zenon DEF CallerBut, CallerFields, IsCaller
  <2>4. b.live \in CallerTypes.live
    BY <2>3, CallerTypesAre, Zenon
  <2> QED BY <2>2, <2>3, <2>4, CallerRetyped
<1>5. AreCallers(caller')
  BY <1>2, <1>4 DEF AreCallers
<1>6. ASSUME NEW i \in Conns
      PROVE  /\ IsConn(conn'[i])
             /\ IF i \in Range(pool.lru)
                THEN /\ ConnBut(conn[i], conn'[i], {"closed"})
                     /\ conn'[i].closed = IF conn[i].closed = Unset THEN "idle closed" ELSE conn[i].closed
                ELSE conn'[i] = conn[i]
  <2>1. CASE i \in Range(pool.lru)
    <3>1. PICK C2 : C2 = Close(conn, i, "idle closed")
      OBVIOUS
    <3>2. conn'[i] = C2[i]
      BY <1>2, <2>1, <3>1
    <3>3. /\ AreConns(C2) /\ ConnBut(conn[i], C2[i], {"closed"})
          /\ C2[i].closed = IF conn[i].closed = Unset THEN "idle closed" ELSE conn[i].closed
      BY <1>1, <3>1, CloseFacts
    <3>4. IsConn(C2[i])
      BY <3>3 DEF AreConns
    <3> QED BY <2>1, <3>2, <3>3, <3>4, Zenon
  <2>2. CASE i \notin Range(pool.lru)
    BY <1>1, <1>2, <2>2 DEF AreConns
  <2> QED BY <2>1, <2>2
<1>7. AreConns(conn')
  BY <1>2, <1>6 DEF AreConns
<1> QED BY <1>2, <1>3, <1>4, <1>5, <1>6, <1>7

-----------------------------------------------------------------------------
(* The steps of a caller up to its wait.                                   *)

(* Caller c alone changes, in the fields F.                                *)
OnlyCaller(c, F) == /\ AreCallers(caller') /\ Others(Callers, caller, caller', c)
                    /\ CallerBut(caller[c], caller'[c], F)

LEMMA CallerUpdated ==
    ASSUME NEW K, AreCallers(K), NEW c \in Callers, NEW F, NEW b, CallerBut(K[c], b, F),
           \A f \in F \cap CallerTyped : b[f] \in CallerTypes[f], NEW K2, Others(Callers, K, K2, c), K2[c] = b
    PROVE  AreCallers(K2) /\ CallerBut(K[c], K2[c], F)
<1>1. IsCaller(K[c])
  BY DEF AreCallers
<1>2. IsCaller(b)
  BY <1>1, CallerRetyped
<1> QED BY <1>2, CallersRetyped

LEMMA Greatest ==
    ASSUME NEW T, NEW m \in Nat, T \subseteq 1..m, T # {}
    PROVE  \E n \in T : \A x \in T : x <= n
<1> DEFINE U == {x \in Nat : m - x \in T}
<1>1. U # {}
  <2>1. PICK x \in T : TRUE
    OBVIOUS
  <2>2. x \in 1..m /\ m - x \in Nat /\ m - (m - x) = x
    OBVIOUS
  <2> QED BY <2>1, <2>2
<1>2. PICK u \in U : \A x \in U : u <= x
  BY <1>1, LeastNumber
<1>3. \A x \in T : m - x \in U
  <2> TAKE x \in T
  <2>1. x \in 1..m /\ m - x \in Nat /\ m - (m - x) = x
    OBVIOUS
  <2> QED BY <2>1
<1>4. \A x \in T : u <= m - x /\ x \in Int
  BY <1>2, <1>3
<1> QED BY <1>2, <1>4

(* What getIdleConn takes (p) and leaves (P2): the first keep entries.     *)
Takes(key, p, P2, keep) ==
    LET s == pool.idle[key] IN
    /\ P2 \in Pools /\ P2.wantIdle = pool.wantIdle /\ keep \in 0..Len(s)
    /\ P2.idle[key] = SubSeq(s, 1, keep) /\ \A x \in Hosts \ {key} : P2.idle[x] = pool.idle[x]
    /\ P2.lru = Without(pool.lru, {s[n] : n \in (keep + 1)..Len(s)})
    /\ \/ p = None /\ keep = 0 /\ \A n \in 1..Len(s) : ~Usable(s[n])
       \/ /\ p \in Conns /\ keep < Len(s) /\ p = s[keep + 1] /\ Usable(p)
          /\ \A n \in (keep + 2)..Len(s) : ~Usable(s[n])

LEMMA TakesFacts ==
    ASSUME H1Types, NEW key \in Hosts
    PROVE  \E keep : Takes(key, getIdleConn(key).pc, getIdleConn(key).pool, keep)
<1> DEFINE s == pool.idle[key]
           good == {n \in 1..Len(s) : Usable(s[n])}
           last == CHOOSE n \in good : \A m \in good : m <= n
           keep == IF good = {} THEN 0 ELSE last - 1
           gone == {s[n] : n \in (keep + 1)..Len(s)}
           p == IF good = {} THEN None ELSE s[last]
           P2 == [pool EXCEPT !.idle[key] = SubSeq(@, 1, keep), !.lru = Without(@, gone)]
<1>1. getIdleConn(key) = [pc |-> p, pool |-> P2]
  BY Zenon DEF getIdleConn
<1> HIDE DEF P2, p
<1>2. getIdleConn(key).pc = p /\ getIdleConn(key).pool = P2
  BY <1>1
<1>3. pool \in Pools /\ s \in Seq(Conns) /\ Len(s) \in Nat /\ pool.lru \in Seq(Conns)
  BY DEF H1Types, Pools
<1>4. good # {} => last \in good /\ \A m \in good : m <= last
  <2>1. good \subseteq 1..Len(s)
    OBVIOUS
  <2>2. good # {} => \E n \in good : \A m \in good : m <= n
    BY <1>3, <2>1, Greatest
  <2> QED BY <2>2
<1> HIDE DEF last
<1>5. keep \in 0..Len(s)
  BY <1>3, <1>4
<1>6. \/ p = None /\ keep = 0 /\ \A n \in 1..Len(s) : ~Usable(s[n])
      \/ /\ p \in Conns /\ keep < Len(s) /\ p = s[keep + 1] /\ Usable(p)
         /\ \A n \in (keep + 2)..Len(s) : ~Usable(s[n])
  <2>1. CASE good = {}
    BY <2>1 DEF p
  <2>2. CASE good # {}
    <3>1. last \in 1..Len(s) /\ Usable(s[last]) /\ keep = last - 1 /\ p = s[last] /\ s[last] \in Conns
      <4>1. last \in 1..Len(s) /\ Usable(s[last])
        BY <1>4, <2>2
      <4>2. keep = last - 1 /\ p = s[last]
        BY <2>2 DEF p
      <4> QED BY <1>3, <4>1, <4>2
    <3> HIDE DEF keep, s
    <3>2. keep + 1 = last /\ keep < Len(s)
      BY <1>3, <3>1
    <3>3. ASSUME NEW n \in (keep + 2)..Len(s) PROVE ~Usable(s[n])
      <4>1. n \in 1..Len(s) /\ ~(n <= last)
        BY <1>3, <1>5, <3>1, <3>2
      <4>2. n \notin good
        BY <1>4, <2>2, <4>1
      <4> QED BY <4>1, <4>2 DEF s
    <3> QED BY <3>1, <3>2, <3>3
  <2> QED BY <2>1, <2>2
<1>7. SubSeq(s, 1, keep) \in Seq(Conns)
  <2> HIDE DEF s, keep
  <2> QED BY <1>3, <1>5
<1>8. Without(pool.lru, gone) \in Seq(Conns)
  BY <1>3, WithoutRest
<1> HIDE DEF keep, gone, p, s
<1>9. /\ P2 \in Pools /\ P2.wantIdle = pool.wantIdle
      /\ P2.idle[key] = SubSeq(s, 1, keep) /\ \A x \in Hosts \ {key} : P2.idle[x] = pool.idle[x]
      /\ P2.lru = Without(pool.lru, gone)
  <2>1. PICK a, b : a = SubSeq(s, 1, keep) /\ b = Without(pool.lru, gone)
    OBVIOUS
  <2>2. P2 = [pool EXCEPT !.idle[key] = a, !.lru = b]
    BY <2>1, Zenon DEF s, P2
  <2> HIDE DEF P2
  <2> QED BY <1>3, <1>7, <1>8, <2>1, <2>2 DEF Pools
<1> HIDE DEF P2
<1>10. Takes(key, p, P2, keep)
  BY <1>5, <1>6, <1>9, Zenon DEF Takes, s, gone
<1> QED BY <1>2, <1>10

LEMMA CancelerFacts ==
    ASSUME H1Types, NEW q \in Reqs, NEW fn \in {"none", "nothing", "dial", "conn"}, SetCanceler(q, fn)
    PROVE  /\ reqCanceler' \in [Reqs -> {"none", "nothing", "dial", "conn"}]
           /\ reqCanceler'[q] = fn /\ \A x \in Reqs \ {q} : reqCanceler'[x] = reqCanceler[x]
  BY DEF H1Types, SetCanceler

(* A connection the pool refused is closed.                                *)
Discarded(C, P, i, p) ==
    /\ p.to = None /\ p.pool = P /\ Others(Conns, C, p.conn, i)
    /\ ConnBut(C[i], p.conn[i], {"reused", "closed"}) /\ (C[i].reused => p.conn[i].reused)
    /\ p.conn[i].closed = IF C[i].closed = Unset THEN "not put idle" ELSE C[i].closed
Offered(C, P, i, p) ==
    /\ AreConns(p.conn) /\ p.pool \in Pools
    /\ Discarded(C, P, i, p) \/ GivenOn(C, P, i, p) \/ Listed(C, P, i, p) \/ Evicts(C, P, i, p)

LEMMA OfferFacts ==
    ASSUME H1Types, NEW C, AreConns(C), NEW P \in Pools, NEW i \in Conns, NEW p \in putOrCloseIdleConn(C, P, i)
    PROVE  Offered(C, P, i, p)
<1>1. PICK o \in tryPutIdleConn(C, P, i) :
          p = IF o.ok THEN o ELSE [o EXCEPT !.conn = Close(o.conn, i, "not put idle")]
  BY Zenon DEF putOrCloseIdleConn
<1>2. /\ AreConns(o.conn) /\ o.pool \in Pools /\ IsPut(o)
      /\ Refused(C, P, i, o) \/ GivenOn(C, P, i, o) \/ Listed(C, P, i, o) \/ Evicts(C, P, i, o)
  BY PutFacts
<1>3. CASE o.ok
  <2>1. p = o
    BY <1>1, <1>3, Zenon
  <2>2. ~Refused(C, P, i, o)
    BY <1>3 DEF Refused
  <2> QED BY <1>2, <2>1, <2>2 DEF Offered
<1>4. CASE ~o.ok
  <2>1. Refused(C, P, i, o)
    BY <1>2, <1>4 DEF GivenOn, Listed, Evicts
  <2>2. PICK D : D = Close(o.conn, i, "not put idle")
    OBVIOUS
  <2>3. p = [o EXCEPT !.conn = D]
    BY <1>1, <1>4, <2>2, Zenon
  <2>4. p.conn = D /\ p.pool = o.pool /\ p.to = o.to
    BY <1>2, <2>3, Zenon DEF IsPut
  <2>5. /\ AreConns(D) /\ Others(Conns, o.conn, D, i) /\ ConnBut(o.conn[i], D[i], {"closed"})
        /\ D[i].closed = IF o.conn[i].closed = Unset THEN "not put idle" ELSE o.conn[i].closed
    BY <1>2, <2>2, CloseFacts
  <2>6. o.to = None /\ o.pool = P /\ Others(Conns, C, o.conn, i) /\ ConnBut(C[i], o.conn[i], {"reused"})
        /\ (C[i].reused => o.conn[i].reused)
    BY <2>1 DEF Refused, Reuses
  <2>7. Others(Conns, C, D, i) /\ ConnBut(C[i], D[i], {"reused", "closed"}) /\ (C[i].reused => D[i].reused)
        /\ D[i].closed = IF C[i].closed = Unset THEN "not put idle" ELSE C[i].closed
    BY <2>5, <2>6 DEF Others, ConnBut, ConnFields
  <2>8. Discarded(C, P, i, p)
    BY <2>4, <2>6, <2>7 DEF Discarded
  <2> QED BY <1>2, <2>4, <2>5, <2>8 DEF Offered
<1> QED BY <1>3, <1>4

(* What no offer changes.                                                  *)
Tame(C, D) == \A j \in Conns :
    /\ ConnBut(C[j], D[j], {"reused", "closed", "wanted"}) /\ (C[j].reused => D[j].reused)
    /\ D[j].closed \in {C[j].closed, "too many idle", "not put idle"}
    /\ C[j].closed # Unset => D[j].closed = C[j].closed

LEMMA ReusesTame ==
    ASSUME NEW C, AreConns(C), NEW i \in Conns, NEW D, AreConns(D), Reuses(C, D, i)
    PROVE  Tame(C, D)
<1> SUFFICES ASSUME NEW j \in Conns
             PROVE  /\ ConnBut(C[j], D[j], {"reused", "closed", "wanted"}) /\ (C[j].reused => D[j].reused)
                    /\ D[j].closed = C[j].closed
  BY DEF Tame
<1>1. CASE j = i
  BY <1>1 DEF Reuses, ConnBut, ConnFields
<1>2. CASE j # i
  <2>1. D[j] = C[j] /\ IsConn(C[j])
    BY <1>2 DEF Reuses, Others, AreConns
  <2> QED BY <2>1 DEF ConnBut, IsConn
<1> QED BY <1>1, <1>2

LEMMA OfferTame ==
    ASSUME NEW C, AreConns(C), NEW P \in Pools, NEW i \in Conns, NEW p, Offered(C, P, i, p)
    PROVE  Tame(C, p.conn) /\ p.to \in Callers \cup {None}
<1>1. CASE Discarded(C, P, i, p)
  <2> SUFFICES ASSUME NEW j \in Conns
               PROVE  /\ ConnBut(C[j], p.conn[j], {"reused", "closed", "wanted"}) /\ (C[j].reused => p.conn[j].reused)
                      /\ p.conn[j].closed \in {C[j].closed, "too many idle", "not put idle"}
                      /\ C[j].closed # Unset => p.conn[j].closed = C[j].closed
    BY <1>1 DEF Tame, Discarded
  <2>1. CASE j = i
    BY <1>1, <2>1 DEF Discarded, ConnBut, ConnFields
  <2>2. CASE j # i
    <3>1. p.conn[j] = C[j] /\ IsConn(C[j])
      BY <1>1, <2>2 DEF Discarded, Others, AreConns
    <3> QED BY <3>1 DEF ConnBut, IsConn
  <2> QED BY <2>1, <2>2
<1>2. CASE GivenOn(C, P, i, p) \/ Listed(C, P, i, p)
  BY <1>2, ReusesTame DEF Offered, GivenOn, Listed
<1>3. CASE Evicts(C, P, i, p)
  <2>0. PICK L \in Pools : \E D :
         /\ Fits(P, i, C[i].key, L) /\ Len(L.lru) > h.maxIdle
         /\ AreConns(D) /\ Reuses(C, D, i)
         /\ p.pool = Unlist(L, Last(L.lru), C[Last(L.lru)].key)
         /\ p.conn = Close(D, Last(L.lru), "too many idle")
    BY <1>3 DEF Evicts
  <2>1. PICK D :
         /\ Fits(P, i, C[i].key, L) /\ Len(L.lru) > h.maxIdle
         /\ AreConns(D) /\ Reuses(C, D, i)
         /\ p.pool = Unlist(L, Last(L.lru), C[Last(L.lru)].key)
         /\ p.conn = Close(D, Last(L.lru), "too many idle")
    BY <2>0
  <2>2. C[i].key \in Hosts
    BY ConnFacts DEF AreConns
  <2>3. L.lru = <<i>> \o P.lru
    BY <2>1, <2>2, ListFacts, ZenonT(40) DEF Fits
  <2>4. PICK o : o = Last(L.lru)
    OBVIOUS
  <2>5. o \in Conns
    BY <2>3, <2>4 DEF Pools, Last
  <2>6. /\ Others(Conns, D, p.conn, o) /\ ConnBut(D[o], p.conn[o], {"closed"})
        /\ p.conn[o].closed = IF D[o].closed = Unset THEN "too many idle" ELSE D[o].closed
    <3>1. PICK E : E = p.conn
      OBVIOUS
    <3>2. AreConns(D) /\ E = Close(D, o, "too many idle")
      BY <2>1, <2>4, <3>1, Zenon
    <3>3. /\ Others(Conns, D, E, o) /\ ConnBut(D[o], E[o], {"closed"})
          /\ E[o].closed = IF D[o].closed = Unset THEN "too many idle" ELSE D[o].closed
      BY <2>5, <3>2, CloseFacts
    <3> QED BY <3>1, <3>3, Zenon
  <2>7. Tame(C, D)
    BY <2>1, ReusesTame
  <2>8. ASSUME NEW j \in Conns
        PROVE  /\ ConnBut(C[j], p.conn[j], {"reused", "closed", "wanted"}) /\ (C[j].reused => p.conn[j].reused)
               /\ p.conn[j].closed \in {C[j].closed, "too many idle", "not put idle"}
               /\ C[j].closed # Unset => p.conn[j].closed = C[j].closed
    <3>1. /\ ConnBut(C[j], D[j], {"reused", "closed", "wanted"}) /\ (C[j].reused => D[j].reused)
          /\ D[j].closed \in {C[j].closed, "too many idle", "not put idle"}
          /\ C[j].closed # Unset => D[j].closed = C[j].closed
      BY <2>7 DEF Tame
    <3>2. CASE j = o
      BY <2>6, <3>1, <3>2, ZenonT(40) DEF ConnBut, ConnFields
    <3>3. CASE j # o
      <4>1. p.conn[j] = D[j]
        BY <2>6, <3>3 DEF Others
      <4> QED BY <3>1, <4>1
    <3> QED BY <3>2, <3>3
  <2>9. p.to = None
    BY <1>3 DEF Evicts
  <2> QED BY <2>8, <2>9 DEF Tame
<1>4. p.to \in Callers \cup {None}
  BY DEF Offered, Discarded, GivenOn, Listed, Evicts
<1> QED BY <1>1, <1>2, <1>3, <1>4 DEF Offered

(* Connection i of C is given back: to the pool, or to a caller, and K is  *)
(* the callers then.                                                       *)
GivesBack(C, i, K) == \E p :
    /\ Offered(C, pool, i, p) /\ pool' = p.pool /\ K = Handed(caller, p.to, i)
    /\ conn' = IF p.to = None THEN p.conn ELSE HandPending(p.conn, p.to)

(* Of the other callers only one may change: it waited for its dial.       *)
Kindly(K, K2, i) == \A d \in Callers :
    \/ K2[d] = K[d]
    \/ /\ K[d].pc = "select" /\ CallerBut(K[d], K2[d], {"pc", "conn"})
       /\ K2[d].pc = "start" /\ K2[d].conn = i

LEMMA GivesBackFacts ==
    ASSUME H1Types, NEW C, AreConns(C), NEW i \in Conns, NEW K, GivesBack(C, i, K)
    PROVE  /\ AreConns(conn') /\ Tame(C, conn') /\ pool' \in Pools
           /\ AreCallers(K) /\ Kindly(caller, K, i)
<1>1. PICK p :
        /\ Offered(C, pool, i, p) /\ pool' = p.pool /\ K = Handed(caller, p.to, i)
        /\ conn' = IF p.to = None THEN p.conn ELSE HandPending(p.conn, p.to)
  BY DEF GivesBack
<1>2. pool \in Pools /\ AreCallers(caller) /\ None \notin Callers
  BY TypeFacts DEF H1Types
<1>3. Tame(C, p.conn) /\ p.to \in Callers \cup {None} /\ AreConns(p.conn) /\ p.pool \in Pools
  BY <1>1, <1>2, OfferTame DEF Offered
<1>4. CASE p.to = None
  <2>1. conn' = p.conn
    BY <1>1, <1>4, Zenon
  <2>2. K = caller
    BY <1>1, <1>4, Zenon DEF Handed
  <2> QED BY <1>1, <1>2, <1>3, <2>1, <2>2 DEF Kindly
<1>5. CASE p.to # None
  <2>1. conn' = HandPending(p.conn, p.to)
    BY <1>1, <1>5, Zenon
  <2>2. AreConns(conn') /\ \A j \in Conns : ConnBut(p.conn[j], conn'[j], {"wanted"})
    BY <1>3, <2>1, HandPendingFacts
  <2>3. Tame(C, conn')
    <3> SUFFICES ASSUME NEW j \in Conns
        PROVE  /\ ConnBut(C[j], conn'[j], {"reused", "closed", "wanted"}) /\ (C[j].reused => conn'[j].reused)
               /\ conn'[j].closed \in {C[j].closed, "too many idle", "not put idle"}
               /\ C[j].closed # Unset => conn'[j].closed = C[j].closed
      BY DEF Tame
    <3>1. /\ ConnBut(C[j], p.conn[j], {"reused", "closed", "wanted"}) /\ (C[j].reused => p.conn[j].reused)
          /\ p.conn[j].closed \in {C[j].closed, "too many idle", "not put idle"}
          /\ C[j].closed # Unset => p.conn[j].closed = C[j].closed
      BY <1>3 DEF Tame
    <3>2. ConnBut(p.conn[j], conn'[j], {"wanted"})
      BY <2>2
    <3> QED BY <3>1, <3>2 DEF ConnBut, ConnFields
  <2>4. p.to \in Callers /\ caller[p.to].pc = "select"
    BY <1>1, <1>3, <1>5 DEF Offered, Discarded, GivenOn, Listed, Evicts
  <2>5. /\ AreCallers(K) /\ Others(Callers, caller, K, p.to)
        /\ CallerBut(caller[p.to], K[p.to], {"pc", "conn"}) /\ K[p.to].pc = "start" /\ K[p.to].conn = i
    BY <1>1, <1>2, <2>4, HandedFacts
  <2>6. Kindly(caller, K, i)
    BY <2>4, <2>5 DEF Kindly, Others
  <2> QED BY <1>1, <1>3, <2>2, <2>3, <2>5, <2>6
<1> QED BY <1>4, <1>5

LEMMA GetIdleFacts ==
    ASSUME H1Types, NEW c \in Callers, GetIdle(c)
    PROVE  /\ UNCHANGED <<h, seen>> /\ caller[c].pc = "getconn"
           /\ \/ \E p \in Conns : \E keep :
                   /\ Takes(HostOf(caller[c].hop), p, pool', keep) /\ OnlyCaller(c, {"pc", "conn"})
                   /\ caller'[c].pc = "start" /\ caller'[c].conn = p /\ conn' = conn
                   /\ SetCanceler(Req(c), "nothing")
              \/ \E i \in Conns :
                   /\ Takes(HostOf(caller[c].hop), None, pool', 0) /\ OnlyCaller(c, {"pc"})
                   /\ caller'[c].pc = "join" /\ SetCanceler(Req(c), "dial")
                   /\ OnlyConn(i, {"dial", "by", "wanted", "key"}) /\ conn[i].dial = "no"
                   /\ conn'[i].dial = "dialing" /\ conn'[i].by = c /\ conn'[i].key = HostOf(caller[c].hop)
<1>1. AreConns(conn) /\ AreCallers(caller) /\ IsCaller(caller[c]) /\ HostOf(caller[c].hop) \in Hosts
  BY TypeFacts DEF H1Types
<1>2. PICK key : key = HostOf(caller[c].hop)
  OBVIOUS
<1>3. PICK got, P2 : got = getIdleConn(key).pc /\ P2 = getIdleConn(key).pool
  OBVIOUS
<1>4. PICK keep : Takes(key, got, P2, keep)
  BY <1>1, <1>2, <1>3, TakesFacts
<1>5. UNCHANGED <<h, seen>> /\ caller[c].pc = "getconn" /\ pool' = P2
  BY <1>2, <1>3 DEF GetIdle
<1>6. CASE /\ got # None
           /\ caller' = [caller EXCEPT ![c].pc = "start", ![c].conn = got]
           /\ SetCanceler(Req(c), "nothing")
           /\ UNCHANGED conn
  <2>1. got \in Conns
    BY <1>4, <1>6 DEF Takes
  <2>2. caller' = [caller EXCEPT ![c].pc = "start", ![c].conn = got]
    BY <1>6, Zenon
  <2>3. /\ Others(Callers, caller, caller', c) /\ CallerBut(caller[c], caller'[c], {"pc", "conn"})
        /\ caller'[c].pc = "start" /\ caller'[c].conn = got
    BY <1>1, <2>2 DEF Others, CallerBut, CallerFields, AreCallers, IsCaller
  <2>4. caller'[c].pc \in CallerTypes.pc /\ caller'[c].conn \in CallerTypes.conn
    BY <2>1, <2>3, CallerTypesAre DEF Pcs
  <2>5. OnlyCaller(c, {"pc", "conn"})
    BY <1>1, <2>3, <2>4, CallerUpdated DEF OnlyCaller
  <2> QED BY <1>2, <1>4, <1>5, <1>6, <2>1, <2>3, <2>5, Zenon
<1>7. CASE /\ got = None
           /\ \E i \in Conns :
                /\ conn[i].dial = "no" /\ \A j \in Conns : j < i => conn[j].dial # "no"
                /\ conn' = [conn EXCEPT ![i].dial = "dialing", ![i].by = c, ![i].wanted = TRUE, ![i].key = key]
           /\ caller' = [caller EXCEPT ![c].pc = "join"]
           /\ SetCanceler(Req(c), "dial")
  <2>1. PICK i \in Conns : 
              /\ conn[i].dial = "no"
              /\ conn' = [conn EXCEPT ![i].dial = "dialing", ![i].by = c, ![i].wanted = TRUE, ![i].key = key]
    BY <1>7, Zenon
  <2>2. conn' = [conn EXCEPT ![i].dial = "dialing", ![i].by = c, ![i].wanted = TRUE, ![i].key = key]
    BY <2>1, Zenon
  <2>3. /\ Others(Conns, conn, conn', i) /\ ConnBut(conn[i], conn'[i], {"dial", "by", "wanted", "key"})
        /\ conn'[i].dial = "dialing" /\ conn'[i].by = c /\ conn'[i].wanted = TRUE /\ conn'[i].key = key
    <3>1. PICK y : y = [conn[i] EXCEPT !.dial = "dialing", !.by = c, !.wanted = TRUE, !.key = key]
      OBVIOUS
    <3>2. Others(Conns, conn, conn', i) /\ conn'[i] = y /\ IsConn(conn[i])
      BY <1>1, <2>2, <3>1 DEF AreConns, Others
    <3>3. ConnBut(conn[i], y, {"dial", "by", "wanted", "key"})
      BY <3>1, <3>2, Zenon DEF IsConn, ConnBut, ConnFields
    <3>4. y.dial = "dialing" /\ y.by = c /\ y.wanted = TRUE /\ y.key = key
      BY <3>1, <3>2, ZenonT(40) DEF IsConn, ConnFields
    <3> QED BY <3>2, <3>3, <3>4, Zenon
  <2>4. c \in Callers \cup {None}
    OBVIOUS
  <2>5. conn'[i].dial \in ConnTypes.dial
    BY <2>3, ConnTypesAre, Zenon
  <2>6. conn'[i].by \in ConnTypes.by /\ conn'[i].key \in ConnTypes.key /\ conn'[i].wanted \in ConnTypes.wanted
    <3>1. key \in Hosts
      BY <1>1, <1>2, Zenon
    <3> QED BY <2>3, <2>4, <3>1, ConnTypesAre, Zenon
  <2>7. \A f \in {"dial", "by", "wanted", "key"} \cap ConnTyped : conn'[i][f] \in ConnTypes[f]
    BY <2>5, <2>6, Zenon
  <2>8. Others(Conns, conn, conn', i) /\ ConnBut(conn[i], conn'[i], {"dial", "by", "wanted", "key"})
    BY <2>3, Zenon
  <2>9. OnlyConn(i, {"dial", "by", "wanted", "key"})
    BY <1>1, <2>7, <2>8, ConnUpdated DEF OnlyConn
  <2>10. caller' = [caller EXCEPT ![c].pc = "join"]
    BY <1>7, Zenon
  <2>11. /\ Others(Callers, caller, caller', c) /\ CallerBut(caller[c], caller'[c], {"pc"})
         /\ caller'[c].pc = "join"
    BY <1>1, <2>10 DEF Others, CallerBut, CallerFields, AreCallers, IsCaller
  <2>12. caller'[c].pc \in CallerTypes.pc
    BY <2>11, CallerTypesAre DEF Pcs
  <2>13. OnlyCaller(c, {"pc"})
    <3>1. \A f \in {"pc"} \cap CallerTyped : caller'[c][f] \in CallerTypes[f]
      BY <2>12, Zenon
    <3>2. Others(Callers, caller, caller', c) /\ CallerBut(caller[c], caller'[c], {"pc"})
      BY <2>11, Zenon
    <3> QED BY <1>1, <3>1, <3>2, CallerUpdated DEF OnlyCaller
  <2>14. got = None /\ SetCanceler(Req(c), "dial")
    BY <1>7, Zenon
  <2>15. Takes(key, None, P2, 0)
    <3>1. None \notin Conns
      BY TypeFacts
    <3> QED BY <1>4, <2>14, <3>1 DEF Takes
  <2>16. conn[i].dial = "no"
    BY <2>1, Zenon
  <2> QED BY <1>2, <1>5, <2>3, <2>9, <2>11, <2>13, <2>14, <2>15, <2>16, Zenon
<1>8. \/ /\ got # None
         /\ caller' = [caller EXCEPT ![c].pc = "start", ![c].conn = got]
         /\ SetCanceler(Req(c), "nothing")
         /\ UNCHANGED conn
      \/ /\ got = None
         /\ \E i \in Conns :
                /\ conn[i].dial = "no" /\ \A j \in Conns : j < i => conn[j].dial # "no"
                /\ conn' = [conn EXCEPT ![i].dial = "dialing", ![i].by = c, ![i].wanted = TRUE, ![i].key = key]
         /\ caller' = [caller EXCEPT ![c].pc = "join"]
         /\ SetCanceler(Req(c), "dial")
  BY <1>2, <1>3, Zenon DEF GetIdle
<1> QED BY <1>6, <1>7, <1>8, Zenon

LEMMA JoinFacts ==
    ASSUME H1Types, NEW c \in Callers, getIdleConnCh(c)
    PROVE  /\ UNCHANGED <<h, conn, reqCanceler, seen>> /\ caller[c].pc = "join"
           /\ OnlyCaller(c, {"pc", "live"}) /\ caller'[c].pc = "select"
           /\ pool' \in Pools /\ pool'.idle = pool.idle /\ pool'.lru = pool.lru
<1>1. AreCallers(caller) /\ IsCaller(caller[c]) /\ pool \in Pools
  BY TypeFacts DEF H1Types
<1>2. PICK b : b = h.keepAlive
  OBVIOUS
<1>3. /\ UNCHANGED <<h, conn, reqCanceler, seen>> /\ caller[c].pc = "join"
      /\ caller' = [caller EXCEPT ![c].pc = "select", ![c].live = b]
      /\ pool' = [pool EXCEPT !.wantIdle = @ /\ ~b]
  BY <1>2 DEF getIdleConnCh
<1>4. /\ Others(Callers, caller, caller', c) /\ CallerBut(caller[c], caller'[c], {"pc", "live"})
      /\ caller'[c].pc = "select" /\ caller'[c].live = b
  BY <1>1, <1>3 DEF Others, CallerBut, CallerFields, AreCallers, IsCaller
<1>5. b \in BOOLEAN
  BY <1>2, TypeFacts DEF Setting
<1>6. caller'[c].pc \in CallerTypes.pc /\ caller'[c].live \in CallerTypes.live
  <2>1. "select" \in Pcs
    BY DEF Pcs
  <2> QED BY <1>4, <1>5, <2>1, CallerTypesAre, Zenon
<1>7. OnlyCaller(c, {"pc", "live"})
  <2>1. \A f \in {"pc", "live"} \cap CallerTyped : caller'[c][f] \in CallerTypes[f]
    BY <1>6, Zenon
  <2>2. Others(Callers, caller, caller', c) /\ CallerBut(caller[c], caller'[c], {"pc", "live"})
    BY <1>4, Zenon
  <2> QED BY <1>1, <2>1, <2>2, CallerUpdated DEF OnlyCaller
<1>8. pool' \in Pools /\ pool'.idle = pool.idle /\ pool'.lru = pool.lru
  BY <1>1, <1>3, <1>5 DEF Pools
<1> QED BY <1>3, <1>4, <1>7, <1>8, Zenon

LEMMA DialledFacts ==
    ASSUME H1Types, NEW i \in Conns, NEW d \in {"up", "failed"}, NEW C, C = Dialled(i, d)
    PROVE  /\ AreConns(C) /\ Others(Conns, conn, C, i) /\ ConnBut(conn[i], C[i], {"dial", "wanted"})
           /\ C[i].dial = d
<1>1. AreConns(conn) /\ IsConn(conn[i])
  BY DEF H1Types, AreConns
<1>2. C = [conn EXCEPT ![i].dial = d, ![i].wanted = FALSE]
  BY Zenon DEF Dialled
<1>3. /\ Others(Conns, conn, C, i) /\ ConnBut(conn[i], C[i], {"dial", "wanted"})
      /\ C[i].dial = d /\ C[i].wanted = FALSE
  <2>1. PICK y : y = [conn[i] EXCEPT !.dial = d, !.wanted = FALSE]
    OBVIOUS
  <2>2. Others(Conns, conn, C, i) /\ C[i] = y
    BY <1>1, <1>2, <2>1 DEF AreConns, Others
  <2>3. ConnBut(conn[i], y, {"dial", "wanted"})
    BY <1>1, <2>1, Zenon DEF IsConn, ConnBut, ConnFields
  <2>4. y.dial = d /\ y.wanted = FALSE
    BY <1>1, <2>1, Zenon DEF IsConn, ConnFields
  <2> QED BY <2>2, <2>3, <2>4, Zenon
<1>4. C[i].dial \in ConnTypes.dial /\ C[i].wanted \in ConnTypes.wanted
  <2>1. d \in {"no", "dialing", "up", "failed"}
    OBVIOUS
  <2> QED BY <1>3, <2>1, ConnTypesAre, Zenon
<1>5. \A f \in {"dial", "wanted"} \cap ConnTyped : C[i][f] \in ConnTypes[f]
  BY <1>4, Zenon
<1>6. Others(Conns, conn, C, i) /\ ConnBut(conn[i], C[i], {"dial", "wanted"}) /\ C[i].dial = d
  BY <1>3, Zenon
<1> QED BY <1>1, <1>5, <1>6, ConnUpdated

LEMMA DialAnswersFacts ==
    ASSUME H1Types, NEW c \in Callers, NEW i \in Conns, DialAnswers(c, i)
    PROVE  /\ UNCHANGED <<h, pool, seen>> /\ caller[c].pc = "select" /\ conn[i].dial = "dialing"
           /\ conn[i].by = c /\ conn[i].wanted /\ OnlyConn(i, {"dial", "wanted"})
           /\ \/ /\ conn'[i].dial = "up" /\ OnlyCaller(c, {"pc", "conn"}) /\ UNCHANGED reqCanceler
                 /\ caller'[c].pc = "start" /\ caller'[c].conn = i
              \/ /\ conn'[i].dial = "failed"
                 /\ Fail(c, caller, FALSE, IF caller[c].cancel \/ caller[c].cancelc THEN "canceled" ELSE "dial error")
<1>1. AreCallers(caller) /\ IsCaller(caller[c])
  BY TypeFacts DEF H1Types
<1>2. /\ UNCHANGED <<h, pool, seen>> /\ caller[c].pc = "select" /\ conn[i].dial = "dialing"
      /\ conn[i].by = c /\ conn[i].wanted
  BY DEF DialAnswers, Dialling
<1>3. CASE /\ conn' = Dialled(i, "up")
           /\ caller' = [caller EXCEPT ![c].pc = "start", ![c].conn = i]
           /\ UNCHANGED reqCanceler
  <2>1. AreConns(conn') /\ Others(Conns, conn, conn', i) /\ ConnBut(conn[i], conn'[i], {"dial", "wanted"})
        /\ conn'[i].dial = "up"
    BY <1>3, DialledFacts
  <2>2. caller' = [caller EXCEPT ![c].pc = "start", ![c].conn = i]
    BY <1>3, Zenon
  <2>3. /\ Others(Callers, caller, caller', c) /\ CallerBut(caller[c], caller'[c], {"pc", "conn"})
        /\ caller'[c].pc = "start" /\ caller'[c].conn = i
    BY <1>1, <2>2 DEF Others, CallerBut, CallerFields, AreCallers, IsCaller
  <2>4. caller'[c].pc \in CallerTypes.pc /\ caller'[c].conn \in CallerTypes.conn
    BY <2>3, CallerTypesAre DEF Pcs
  <2>5. OnlyCaller(c, {"pc", "conn"})
    <3>1. \A f \in {"pc", "conn"} \cap CallerTyped : caller'[c][f] \in CallerTypes[f]
      BY <2>4, Zenon
    <3>2. Others(Callers, caller, caller', c) /\ CallerBut(caller[c], caller'[c], {"pc", "conn"})
      BY <2>3, Zenon
    <3> QED BY <1>1, <3>1, <3>2, CallerUpdated DEF OnlyCaller
  <2> QED BY <1>2, <1>3, <2>1, <2>3, <2>5, Zenon DEF OnlyConn
<1>4. CASE /\ conn' = Dialled(i, "failed")
           /\ Fail(c, caller, FALSE,
                  IF caller[c].cancel \/ caller[c].cancelc THEN "canceled" ELSE "dial error")
  <2>1. AreConns(conn') /\ Others(Conns, conn, conn', i) /\ ConnBut(conn[i], conn'[i], {"dial", "wanted"})
        /\ conn'[i].dial = "failed"
    <3>1. conn' = Dialled(i, "failed")
      BY <1>4, Zenon
    <3> QED BY <3>1, DialledFacts
  <2> QED BY <1>2, <1>4, <2>1, Zenon DEF OnlyConn
<1> QED BY <1>3, <1>4, Zenon DEF DialAnswers

LEMMA DialCanceledFacts ==
    ASSUME H1Types, NEW c \in Callers, DialCanceled(c)
    PROVE  /\ UNCHANGED <<h, pool, seen>> /\ caller[c].pc = "select" /\ (caller[c].cancel \/ caller[c].cancelc)
           /\ AreConns(conn') /\ (\A j \in Conns : ConnBut(conn[j], conn'[j], {"wanted"}))
           /\ Fail(c, caller, FALSE, "canceled")
<1>1. /\ UNCHANGED <<h, pool, seen>> /\ caller[c].pc = "select" /\ (caller[c].cancel \/ caller[c].cancelc)
      /\ conn' = HandPending(conn, c) /\ Fail(c, caller, FALSE, "canceled")
  BY Zenon DEF DialCanceled
<1>2. AreConns(conn)
  BY DEF H1Types
<1>3. AreConns(conn') /\ \A j \in Conns : ConnBut(conn[j], conn'[j], {"wanted"})
  <2>1. conn' = HandPending(conn, c)
    BY <1>1, Zenon
  <2> QED BY <1>2, <2>1, HandPendingFacts
<1> QED BY <1>1, <1>3, Zenon

LEMMA PendingDialFacts ==
    ASSUME H1Types, NEW i \in Conns, handlePendingDial(i)
    PROVE  /\ UNCHANGED <<h, reqCanceler, seen>> /\ conn[i].dial = "dialing"
           /\ \/ OnlyConn(i, {"dial", "wanted"}) /\ conn'[i].dial = "failed" /\ UNCHANGED <<caller, pool>>
              \/ \E C : /\ AreConns(C) /\ Others(Conns, conn, C, i) /\ ConnBut(conn[i], C[i], {"dial", "wanted"})
                        /\ C[i].dial = "up" /\ GivesBack(C, i, caller')
<1>1. UNCHANGED <<h, reqCanceler, seen>> /\ conn[i].dial = "dialing"
  BY DEF handlePendingDial, Dialling
<1>2. CASE conn' = Dialled(i, "failed") /\ UNCHANGED <<caller, pool>>
  <2>1. AreConns(conn') /\ Others(Conns, conn, conn', i) /\ ConnBut(conn[i], conn'[i], {"dial", "wanted"})
        /\ conn'[i].dial = "failed"
    BY <1>2, DialledFacts
  <2> QED BY <1>1, <1>2, <2>1, Zenon DEF OnlyConn
<1>3. CASE \E p \in putOrCloseIdleConn(Dialled(i, "up"), pool, i) :
                Settle(p, i) /\ caller' = Handed(caller, p.to, i)
  <2>1. PICK C : C = Dialled(i, "up")
    OBVIOUS
  <2>2. /\ AreConns(C) /\ Others(Conns, conn, C, i) /\ ConnBut(conn[i], C[i], {"dial", "wanted"})
        /\ C[i].dial = "up"
    BY <2>1, DialledFacts
  <2>3. PICK p \in putOrCloseIdleConn(C, pool, i) : Settle(p, i) /\ caller' = Handed(caller, p.to, i)
    BY <1>3, <2>1, Zenon
  <2>4. pool \in Pools
    BY DEF H1Types
  <2>5. Offered(C, pool, i, p)
    BY <2>2, <2>4, OfferFacts
  <2>6. GivesBack(C, i, caller')
    BY <2>3, <2>5, Zenon DEF GivesBack, Settle
  <2> QED BY <1>1, <2>2, <2>6, Zenon
<1> QED BY <1>2, <1>3, Zenon DEF handlePendingDial

LEMMA HeldConn ==
    ASSUME H1Types, NEW c \in Callers, caller[c].pc \in {"start", "wait", "map", "body", "eof"}
    PROVE  caller[c].conn \in Conns
<1>1. caller[c].conn # None /\ IsCaller(caller[c])
  BY TypeFacts DEF H1Types
<1> QED BY <1>1, CallerFacts

LEMMA RoundTripFacts ==
    ASSUME H1Types, NEW c \in Callers, roundTrip(c)
    PROVE  LET i == caller[c].conn IN
           /\ UNCHANGED <<h, seen>> /\ caller[c].pc = "start" /\ i \in Conns
           /\ \/ /\ reqCanceler[Req(c)] = "none"
                 /\ \E K : GivesBack(conn, i, K) /\ Fail(c, K, FALSE, "canceled")
              \/ /\ reqCanceler[Req(c)] # "none" /\ SetCanceler(Req(c), "conn") /\ UNCHANGED pool
                 /\ OnlyConn(i, {"expected", "writech", "reqch"})
                 /\ conn'[i].expected = conn[i].expected + 1
                 /\ conn'[i].writech = Append(conn[i].writech, Req(c))
                 /\ conn'[i].reqch = Append(conn[i].reqch, Req(c))
                 /\ OnlyCaller(c, {"pc", "start", "werr", "told"})
                 /\ caller'[c].pc = "wait" /\ caller'[c].start = conn[i].nwrite
                 /\ caller'[c].werr = Unset /\ caller'[c].told = FALSE
<1>1. AreConns(conn) /\ AreCallers(caller) /\ IsCaller(caller[c]) /\ Req(c) \in Reqs /\ pool \in Pools
  BY TypeFacts DEF H1Types
<1>2. UNCHANGED <<h, seen>> /\ caller[c].pc = "start"
  BY DEF roundTrip
<1>3. PICK i : i = caller[c].conn
  OBVIOUS
<1>4. i \in Conns
  BY <1>2, <1>3, HeldConn
<1>5. PICK q : q = Req(c)
  OBVIOUS
<1>6. CASE /\ reqCanceler[q] = "none"
           /\ \E p \in putOrCloseIdleConn(conn, pool, i) :
                Settle(p, i) /\ Fail(c, Handed(caller, p.to, i), FALSE, "canceled")
  <2>1. PICK p \in putOrCloseIdleConn(conn, pool, i) :
                Settle(p, i) /\ Fail(c, Handed(caller, p.to, i), FALSE, "canceled")
    BY <1>6
  <2>2. Offered(conn, pool, i, p)
    BY <1>1, <1>4, OfferFacts
  <2>3. GivesBack(conn, i, Handed(caller, p.to, i))
    BY <2>1, <2>2, Zenon DEF GivesBack, Settle
  <2> QED BY <1>2, <1>3, <1>4, <1>5, <1>6, <2>1, <2>3, Zenon
<1>7. CASE /\ reqCanceler[q] # "none"
           /\ SetCanceler(q, "conn")
           /\ conn' = [conn EXCEPT ![i].expected = @ + 1, ![i].writech = Append(@, q), ![i].reqch = Append(@, q)]
           /\ caller' = [caller EXCEPT ![c].pc = "wait", ![c].start = conn[i].nwrite,
                          ![c].werr = Unset, ![c].told = FALSE]
           /\ UNCHANGED pool
  <2>0. reqCanceler[q] # "none" /\ SetCanceler(q, "conn") /\ UNCHANGED pool
    BY <1>7, Zenon
  <2>1. IsConn(conn[i])
    BY <1>1, <1>4 DEF AreConns
  <2>2. /\ conn[i].expected \in Int /\ conn[i].writech \in Seq(Reqs) /\ conn[i].reqch \in Seq(Reqs)
        /\ conn[i].nwrite \in Nat
    BY <2>1, ConnFacts
  <2>3. PICK e, w, r, n : /\ e = conn[i].expected + 1 /\ w = Append(conn[i].writech, q)
                          /\ r = Append(conn[i].reqch, q) /\ n = conn[i].nwrite
    OBVIOUS
  <2>4. e \in Int /\ w \in Seq(Reqs) /\ r \in Seq(Reqs) /\ n \in Nat
    BY <1>1, <1>5, <2>2, <2>3
  <2>5. conn' = [conn EXCEPT ![i].expected = e, ![i].writech = w, ![i].reqch = r]
    BY <1>7, <2>3, Zenon
  <2>6. /\ Others(Conns, conn, conn', i) /\ ConnBut(conn[i], conn'[i], {"expected", "writech", "reqch"})
        /\ conn'[i].expected = e /\ conn'[i].writech = w /\ conn'[i].reqch = r
    BY <1>1, <1>4, <2>5 DEF Others, ConnBut, ConnFields, AreConns, IsConn
  <2>7. conn'[i].expected \in ConnTypes.expected /\ conn'[i].writech \in ConnTypes.writech
        /\ conn'[i].reqch \in ConnTypes.reqch
    BY <2>4, <2>6, ConnTypesAre, Zenon
  <2>8. OnlyConn(i, {"expected", "writech", "reqch"})
    <3>1. \A f \in {"expected", "writech", "reqch"} \cap ConnTyped : conn'[i][f] \in ConnTypes[f]
      BY <2>7, Zenon
    <3>2. Others(Conns, conn, conn', i) /\ ConnBut(conn[i], conn'[i], {"expected", "writech", "reqch"})
      BY <2>6, Zenon
    <3> QED BY <1>1, <1>4, <3>1, <3>2, ConnUpdated DEF OnlyConn
  <2>9. caller' = [caller EXCEPT ![c].pc = "wait", ![c].start = n, ![c].werr = Unset, ![c].told = FALSE]
    BY <1>7, <2>3, Zenon
  <2>10. PICK b : b = [caller[c] EXCEPT !.pc = "wait", !.start = n, !.werr = Unset, !.told = FALSE]
    OBVIOUS
  <2>11. Others(Callers, caller, caller', c) /\ caller'[c] = b
    BY <1>1, <2>9, <2>10 DEF AreCallers, Others
  <2>12. CallerBut(caller[c], b, {"pc", "start", "werr", "told"})
    BY <1>1, <2>10, Zenon DEF IsCaller, CallerBut, CallerFields
  <2>13. b.pc = "wait" /\ b.start = n /\ b.werr = Unset /\ b.told = FALSE
    BY <1>1, <2>10, Zenon DEF IsCaller, CallerFields
  <2>14. b.pc \in CallerTypes.pc /\ b.start \in CallerTypes.start /\ b.told \in CallerTypes.told
    <3>1. "wait" \in Pcs
      BY DEF Pcs
    <3> QED BY <2>4, <2>13, <3>1, CallerTypesAre, Zenon
  <2>15. OnlyCaller(c, {"pc", "start", "werr", "told"})
    <3>1. \A f \in {"pc", "start", "werr", "told"} \cap CallerTyped : b[f] \in CallerTypes[f]
      BY <2>14, Zenon DEF CallerTyped
    <3> QED BY <1>1, <2>11, <2>12, <3>1, CallerUpdated DEF OnlyCaller
  <2> QED BY <1>2, <1>3, <1>4, <1>5, <2>0, <2>3, <2>6, <2>8, <2>11, <2>13, <2>15, Zenon
<1> QED BY <1>3, <1>5, <1>6, <1>7, Zenon DEF roundTrip

LEMMA WriteFailedFacts ==
    ASSUME H1Types, NEW c \in Callers, WriteFailed(c)
    PROVE  LET i == caller[c].conn  err == IF conn[i].canceled THEN "canceled" ELSE caller[c].werr IN
           /\ UNCHANGED <<h, pool, seen>> /\ caller[c].pc = "wait" /\ caller[c].werr # Unset /\ i \in Conns
           /\ OnlyConn(i, {"closed"})
           /\ conn'[i].closed = IF conn[i].closed = Unset THEN "write error" ELSE conn[i].closed
           /\ Fail(c, caller, ShouldRetry(i, caller[c].method, err), err)
<1>1. AreConns(conn)
  BY DEF H1Types
<1>2. UNCHANGED <<h, pool, seen>> /\ caller[c].pc = "wait" /\ caller[c].werr # Unset
  BY DEF WriteFailed
<1>3. PICK i, err : i = caller[c].conn /\ err = IF conn[i].canceled THEN "canceled" ELSE caller[c].werr
  OBVIOUS
<1>4. i \in Conns
  BY <1>2, <1>3, HeldConn
<1>5. conn' = Close(conn, i, "write error") /\ Fail(c, caller, ShouldRetry(i, caller[c].method, err), err)
  BY <1>3, Zenon DEF WriteFailed
<1>6. /\ AreConns(conn') /\ Others(Conns, conn, conn', i) /\ ConnBut(conn[i], conn'[i], {"closed"})
      /\ conn'[i].closed = IF conn[i].closed = Unset THEN "write error" ELSE conn[i].closed
  <2>1. conn' = Close(conn, i, "write error")
    BY <1>5, Zenon
  <2> QED BY <1>1, <1>4, <2>1, CloseFacts
<1> QED BY <1>2, <1>3, <1>4, <1>5, <1>6, Zenon DEF OnlyConn

LEMMA MappedFacts ==
    ASSUME H1Types, NEW c \in Callers, NEW err, caller' = [caller EXCEPT ![c].pc = "map", ![c].err = err]
    PROVE  OnlyCaller(c, {"pc", "err"}) /\ caller'[c].pc = "map" /\ caller'[c].err = err
<1>1. AreCallers(caller) /\ IsCaller(caller[c])
  BY TypeFacts DEF H1Types
<1>2. PICK b : b = [caller[c] EXCEPT !.pc = "map", !.err = err]
  OBVIOUS
<1>3. Others(Callers, caller, caller', c) /\ caller'[c] = b
  BY <1>1, <1>2 DEF AreCallers, Others
<1>4. CallerBut(caller[c], b, {"pc", "err"})
  BY <1>1, <1>2, Zenon DEF IsCaller, CallerBut, CallerFields
<1>5. b.pc = "map" /\ b.err = err
  BY <1>1, <1>2, Zenon DEF IsCaller, CallerFields
<1>6. b.pc \in CallerTypes.pc
  BY <1>5, CallerTypesAre DEF Pcs
<1>7. \A f \in {"pc", "err"} \cap CallerTyped : b[f] \in CallerTypes[f]
  BY <1>6, Zenon DEF CallerTyped
<1>8. OnlyCaller(c, {"pc", "err"})
  BY <1>1, <1>3, <1>4, <1>7, CallerUpdated DEF OnlyCaller
<1> QED BY <1>3, <1>5, <1>8, Zenon

LEMMA ConnClosedFacts ==
    ASSUME H1Types, NEW c \in Callers, ConnClosed(c)
    PROVE  LET i == caller[c].conn  err == IF conn[i].canceled THEN "canceled" ELSE conn[i].closed IN
           /\ UNCHANGED <<h, conn, pool, seen>> /\ caller[c].pc = "wait" /\ conn[i].closed # Unset /\ i \in Conns
           /\ \/ /\ err \in {"canceled", "closed idle", "read error"}
                 /\ Fail(c, caller, ShouldRetry(i, caller[c].method, err), err)
              \/ /\ err \notin {"canceled", "closed idle", "read error"} /\ UNCHANGED reqCanceler
                 /\ OnlyCaller(c, {"pc", "err"}) /\ caller'[c].pc = "map" /\ caller'[c].err = "broken"
<1>1. UNCHANGED <<h, conn, pool, seen>> /\ caller[c].pc = "wait" /\ conn[caller[c].conn].closed # Unset
  BY DEF ConnClosed
<1>2. PICK i, err : i = caller[c].conn /\ err = IF conn[i].canceled THEN "canceled" ELSE conn[i].closed
  OBVIOUS
<1>3. i \in Conns
  BY <1>1, <1>2, HeldConn
<1>4. CASE /\ err \in {"canceled", "closed idle", "read error"}
           /\ Fail(c, caller, ShouldRetry(i, caller[c].method, err), err)
  BY <1>1, <1>2, <1>3, <1>4, Zenon
<1>5. CASE /\ err \notin {"canceled", "closed idle", "read error"}
           /\ caller' = [caller EXCEPT ![c].pc = "map", ![c].err = "broken"]
           /\ UNCHANGED reqCanceler
  <2>1. OnlyCaller(c, {"pc", "err"}) /\ caller'[c].pc = "map" /\ caller'[c].err = "broken"
    BY <1>5, MappedFacts, Zenon
  <2> QED BY <1>1, <1>2, <1>3, <1>5, <2>1, Zenon
<1> QED BY <1>2, <1>4, <1>5, Zenon DEF ConnClosed

LEMMA MapErrorFacts ==
    ASSUME H1Types, NEW c \in Callers, MapError(c)
    PROVE  LET i == caller[c].conn
               err == IF conn[i].nwrite = caller[c].start /\ outgoingLength(caller[c].method) = 0
                      THEN "nothing written" ELSE caller[c].err IN
           /\ UNCHANGED <<h, conn, pool, seen>> /\ caller[c].pc = "map" /\ conn[i].w = "done" /\ i \in Conns
           /\ Fail(c, caller, ShouldRetry(i, caller[c].method, err), err)
<1>1. UNCHANGED <<h, conn, pool, seen>> /\ caller[c].pc = "map"
  BY DEF MapError
<1>2. caller[c].conn \in Conns
  BY <1>1, HeldConn
<1> QED BY <1>1, <1>2, Zenon DEF MapError

LEMMA TimerFacts ==
    ASSUME H1Types, NEW c \in Callers, TimerFires(c)
    PROVE  /\ UNCHANGED <<h, conn, pool, reqCanceler, seen>> /\ caller[c].timer /\ ~caller[c].cancel
           /\ OnlyCaller(c, {"cancel"}) /\ caller'[c].cancel = TRUE
<1>1. AreCallers(caller) /\ IsCaller(caller[c])
  BY TypeFacts DEF H1Types
<1>2. /\ UNCHANGED <<h, conn, pool, reqCanceler, seen>> /\ caller[c].timer /\ ~caller[c].cancel
      /\ caller' = [caller EXCEPT ![c].cancel = TRUE]
  BY DEF TimerFires
<1>3. PICK b : b = [caller[c] EXCEPT !.cancel = TRUE]
  OBVIOUS
<1>4. Others(Callers, caller, caller', c) /\ caller'[c] = b
  BY <1>1, <1>2, <1>3 DEF AreCallers, Others
<1>5. CallerBut(caller[c], b, {"cancel"}) /\ b.cancel = TRUE
  BY <1>1, <1>3, Zenon DEF IsCaller, CallerBut, CallerFields
<1>6. \A f \in {"cancel"} \cap CallerTyped : b[f] \in CallerTypes[f]
  BY <1>5, CallerTypesAre, Zenon
<1>7. CallerBut(caller[c], b, {"cancel"})
  BY <1>5, Zenon
<1>8. OnlyCaller(c, {"cancel"})
  BY <1>1, <1>4, <1>6, <1>7, CallerUpdated DEF OnlyCaller
<1> QED BY <1>2, <1>4, <1>5, <1>8, Zenon

(* What the canceler of c does to the connections C and the callers K.     *)
Cancels(c, C, K) ==
    /\ AreConns(conn') /\ AreCallers(caller') /\ SetCanceler(Req(c), "none")
    /\ \/ conn' = C
       \/ LET i == caller[c].conn IN
          /\ reqCanceler[Req(c)] = "conn" /\ i \in Conns /\ Others(Conns, C, conn', i)
          /\ ConnBut(C[i], conn'[i], {"closed", "canceled"})
          /\ conn'[i].closed = (IF C[i].closed = Unset THEN "canceled" ELSE C[i].closed)
    /\ Others(Callers, K, caller', c) /\ CallerBut(K[c], caller'[c], {"cancelc"})

LEMMA CancelsFacts ==
    ASSUME H1Types, NEW c \in Callers, NEW C, AreConns(C), NEW K, AreCallers(K), RunCanceler(c, C, K)
    PROVE  Cancels(c, C, K)
<1>1. PICK i : i = caller[c].conn
  OBVIOUS
<1>2. i \in Conns \cup {None} /\ None \notin Conns /\ Req(c) \in Reqs /\ IsCaller(K[c])
  BY <1>1, TypeFacts, CallerFacts DEF AreCallers
<1>3. /\ conn' = IF reqCanceler[Req(c)] = "conn" THEN CancelConn(C, i) ELSE C
      /\ caller' = IF reqCanceler[Req(c)] = "dial" THEN [K EXCEPT ![c].cancelc = TRUE] ELSE K
      /\ SetCanceler(Req(c), "none")
  BY <1>1, Zenon DEF RunCanceler
<1>4. /\ AreConns(conn')
      /\ \/ conn' = C
         \/ /\ reqCanceler[Req(c)] = "conn" /\ i \in Conns /\ Others(Conns, C, conn', i)
            /\ ConnBut(C[i], conn'[i], {"closed", "canceled"})
            /\ conn'[i].closed = (IF C[i].closed = Unset THEN "canceled" ELSE C[i].closed)
  <2>1. CASE reqCanceler[Req(c)] # "conn"
    <3>1. conn' = C
      BY <1>3, <2>1, Zenon
    <3> QED BY <3>1
  <2>2. CASE reqCanceler[Req(c)] = "conn" /\ i \in Conns
    <3>1. conn' = CancelConn(C, i)
      BY <1>3, <2>2, Zenon
    <3>2. /\ AreConns(conn') /\ Others(Conns, C, conn', i) /\ ConnBut(C[i], conn'[i], {"closed", "canceled"})
          /\ conn'[i].closed = IF C[i].closed = Unset THEN "canceled" ELSE C[i].closed
      BY <2>2, <3>1, CancelConnFacts
    <3> QED BY <2>2, <3>2, Zenon
  <2>3. CASE reqCanceler[Req(c)] = "conn" /\ i \notin Conns
    <3>1. conn' = CancelConn(C, i)
      BY <1>3, <2>3, Zenon
    <3>2. PICK D : D = Close(C, i, "canceled")
      OBVIOUS
    <3>3. D = C
      BY <2>3, <3>2 DEF Close, AreConns
    <3>4. [D EXCEPT ![i].canceled = TRUE] = D
      BY <2>3, <3>3 DEF AreConns
    <3>5. conn' = [D EXCEPT ![i].canceled = TRUE]
      BY <3>1, <3>2, Zenon DEF CancelConn
    <3>6. conn' = C
      BY <3>3, <3>4, <3>5, Zenon
    <3> QED BY <3>6
  <2> QED BY <2>1, <2>2, <2>3, Zenon
<1>5. AreCallers(caller') /\ Others(Callers, K, caller', c) /\ CallerBut(K[c], caller'[c], {"cancelc"})
  <2>1. CASE reqCanceler[Req(c)] = "dial"
    <3>1. PICK b : b = [K[c] EXCEPT !.cancelc = TRUE]
      OBVIOUS
    <3>2. caller' = [K EXCEPT ![c] = b]
      BY <1>3, <2>1, <3>1, Zenon
    <3>3. Others(Callers, K, caller', c) /\ caller'[c] = b
      BY <3>2 DEF AreCallers, Others
    <3>4. CallerBut(K[c], b, {"cancelc"}) /\ b.cancelc = TRUE
      BY <1>2, <3>1, Zenon DEF IsCaller, CallerBut, CallerFields
    <3>5. \A f \in {"cancelc"} \cap CallerTyped : b[f] \in CallerTypes[f]
      BY <3>4, CallerTypesAre, Zenon
    <3>6. CallerBut(K[c], b, {"cancelc"})
      BY <3>4, Zenon
    <3> QED BY <3>3, <3>5, <3>6, CallerUpdated
  <2>2. CASE reqCanceler[Req(c)] # "dial"
    <3>1. caller' = K
      BY <1>3, <2>2, Zenon
    <3> QED BY <1>2, <3>1 DEF Others, CallerBut, AreCallers, IsCaller
  <2> QED BY <2>1, <2>2
<1> QED BY <1>1, <1>3, <1>4, <1>5, Zenon DEF Cancels

LEMMA CancelNoticedFacts ==
    ASSUME H1Types, NEW c \in Callers, CancelNoticed(c)
    PROVE  /\ UNCHANGED <<h, pool, seen>> /\ caller[c].pc = "wait" /\ caller[c].cancel
           /\ \E K : /\ AreCallers(K) /\ Others(Callers, caller, K, c) /\ CallerBut(caller[c], K[c], {"told"})
                     /\ Cancels(c, conn, K)
<1>1. AreCallers(caller) /\ IsCaller(caller[c]) /\ AreConns(conn)
  BY TypeFacts DEF H1Types
<1>2. PICK K : K = [caller EXCEPT ![c].told = TRUE]
  OBVIOUS
<1>3. UNCHANGED <<h, pool, seen>> /\ caller[c].pc = "wait" /\ caller[c].cancel /\ RunCanceler(c, conn, K)
  BY <1>2, Zenon DEF CancelNoticed
<1>4. PICK b : b = [caller[c] EXCEPT !.told = TRUE]
  OBVIOUS
<1>5. Others(Callers, caller, K, c) /\ K[c] = b
  BY <1>1, <1>2, <1>4 DEF AreCallers, Others
<1>6. CallerBut(caller[c], b, {"told"}) /\ b.told = TRUE
  BY <1>1, <1>4, Zenon DEF IsCaller, CallerBut, CallerFields
<1>7. \A f \in {"told"} \cap CallerTyped : b[f] \in CallerTypes[f]
  BY <1>6, CallerTypesAre, Zenon
<1>8. CallerBut(caller[c], b, {"told"})
  BY <1>6, Zenon
<1>9. AreCallers(K) /\ CallerBut(caller[c], K[c], {"told"})
  BY <1>1, <1>5, <1>7, <1>8, CallerUpdated
<1>10. Cancels(c, conn, K)
  <2>1. RunCanceler(c, conn, K)
    BY <1>3, Zenon
  <2> QED BY <1>1, <1>9, <2>1, CancelsFacts
<1> QED BY <1>3, <1>5, <1>9, <1>10, Zenon

LEMMA CancelRequestFacts ==
    ASSUME H1Types, NEW c \in Callers, CancelRequest(c)
    PROVE  /\ UNCHANGED <<h, pool, seen>> /\ caller[c].pc # "done"
           /\ \E K : /\ AreCallers(K) /\ Others(Callers, caller, K, c) /\ CallerBut(caller[c], K[c], {"asked"})
                     /\ K[c].asked = TRUE /\ Cancels(c, conn, K)
<1>1. AreCallers(caller) /\ IsCaller(caller[c]) /\ AreConns(conn)
  BY TypeFacts DEF H1Types
<1>2. PICK K : K = [caller EXCEPT ![c].asked = TRUE]
  OBVIOUS
<1>3. UNCHANGED <<h, pool, seen>> /\ caller[c].pc # "done" /\ RunCanceler(c, conn, K)
  BY <1>2, Zenon DEF CancelRequest
<1>4. PICK b : b = [caller[c] EXCEPT !.asked = TRUE]
  OBVIOUS
<1>5. Others(Callers, caller, K, c) /\ K[c] = b
  BY <1>1, <1>2, <1>4 DEF AreCallers, Others
<1>6. CallerBut(caller[c], b, {"asked"}) /\ b.asked = TRUE
  BY <1>1, <1>4, Zenon DEF IsCaller, CallerBut, CallerFields
<1>7. \A f \in {"asked"} \cap CallerTyped : b[f] \in CallerTypes[f]
  BY <1>6, CallerTypesAre, Zenon
<1>8. CallerBut(caller[c], b, {"asked"})
  BY <1>6, Zenon
<1>9. AreCallers(K) /\ CallerBut(caller[c], K[c], {"asked"})
  BY <1>1, <1>5, <1>7, <1>8, CallerUpdated
<1>10. Cancels(c, conn, K)
  <2>1. RunCanceler(c, conn, K)
    BY <1>3, Zenon
  <2> QED BY <1>1, <1>9, <2>1, CancelsFacts
<1> QED BY <1>3, <1>5, <1>6, <1>9, <1>10, Zenon

(* What Finish(K, c) makes of the callers, in K2.                          *)
Finished(K, K2, c) ==
    /\ AreCallers(K2) /\ Others(Callers, K, K2, c)
    /\ IF IsRedirect(K[c].res) /\ K[c].hop < h.redirects
       THEN IsSent(K2[c], K[c].hop + 1, RedirectMethod(K[c].method, K[c].res), FALSE, K[c].asked)
       ELSE IsReturned(K[c], K2[c], K[c].err)

LEMMA BodyReadFacts ==
    ASSUME H1Types, NEW i \in Conns, NEW b \in BOOLEAN, NEW C, C = [conn EXCEPT ![i].bodyRead = Append(@, b)]
    PROVE  /\ AreConns(C) /\ Others(Conns, conn, C, i) /\ ConnBut(conn[i], C[i], {"bodyRead"})
           /\ C[i].bodyRead = Append(conn[i].bodyRead, b)
<1>1. AreConns(conn) /\ IsConn(conn[i])
  BY DEF H1Types, AreConns
<1>2. PICK s : s = Append(conn[i].bodyRead, b)
  OBVIOUS
<1>3. s \in Seq(BOOLEAN)
  BY <1>1, <1>2, ConnFacts
<1>4. PICK y : y = [conn[i] EXCEPT !.bodyRead = s]
  OBVIOUS
<1>5. Others(Conns, conn, C, i) /\ C[i] = y
  BY <1>1, <1>2, <1>4 DEF AreConns, Others
<1>6. ConnBut(conn[i], y, {"bodyRead"}) /\ y.bodyRead = s
  BY <1>1, <1>4, Zenon DEF IsConn, ConnBut, ConnFields
<1>7. \A f \in {"bodyRead"} \cap ConnTyped : y[f] \in ConnTypes[f]
  BY <1>3, <1>6, ConnTypesAre, Zenon
<1>8. AreConns(C) /\ ConnBut(conn[i], C[i], {"bodyRead"})
  BY <1>1, <1>5, <1>6, <1>7, ConnUpdated
<1> QED BY <1>2, <1>5, <1>6, <1>8, Zenon

LEMMA CloseBodyFacts ==
    ASSUME H1Types, NEW c \in Callers, CloseBody(c)
    PROVE  LET i == caller[c].conn IN
           /\ UNCHANGED <<h, pool, reqCanceler, seen>> /\ caller[c].pc = "body" /\ i \in Conns
           /\ OnlyConn(i, {"bodyRead"}) /\ conn'[i].bodyRead = Append(conn[i].bodyRead, FALSE)
           /\ Finished(caller, caller', c)
<1>1. /\ UNCHANGED <<h, pool, reqCanceler, seen>> /\ caller[c].pc = "body" /\ caller' = Finish(caller, c)
      /\ conn' = [conn EXCEPT ![caller[c].conn].bodyRead = Append(@, FALSE)]
  BY Zenon DEF CloseBody
<1>2. PICK i : i = caller[c].conn
  OBVIOUS
<1>3. i \in Conns /\ AreCallers(caller)
  BY <1>1, <1>2, HeldConn DEF H1Types
<1>4. conn' = [conn EXCEPT ![i].bodyRead = Append(@, FALSE)]
  BY <1>1, <1>2, Zenon
<1>5. OnlyConn(i, {"bodyRead"}) /\ conn'[i].bodyRead = Append(conn[i].bodyRead, FALSE)
  BY <1>3, <1>4, BodyReadFacts DEF OnlyConn
<1>6. Finished(caller, caller', c)
  <2>1. caller' = Finish(caller, c)
    BY <1>1, Zenon
  <2> QED BY <1>3, <2>1, FinishFacts DEF Finished
<1> QED BY <1>1, <1>2, <1>3, <1>5, <1>6, Zenon

LEMMA BodyReleasedFacts ==
    ASSUME H1Types, NEW c \in Callers, BodyReleased(c)
    PROVE  /\ UNCHANGED <<h, conn, pool, reqCanceler, seen>> /\ caller[c].pc = "eof" /\ caller[c].conn \in Conns
           /\ conn[caller[c].conn].r \in {"exit", "gone"} /\ Finished(caller, caller', c)
<1>1. /\ UNCHANGED <<h, conn, pool, reqCanceler, seen>> /\ caller[c].pc = "eof" /\ caller' = Finish(caller, c)
      /\ conn[caller[c].conn].r \in {"exit", "gone"}
  BY Zenon DEF BodyReleased
<1>2. caller[c].conn \in Conns /\ AreCallers(caller)
  BY <1>1, HeldConn DEF H1Types
<1>3. Finished(caller, caller', c)
  <2>1. caller' = Finish(caller, c)
    BY <1>1, Zenon
  <2> QED BY <1>2, <2>1, FinishFacts DEF Finished
<1> QED BY <1>1, <1>2, <1>3, Zenon

LEMMA ReadBodyFacts ==
    ASSUME H1Types, NEW c \in Callers, ReadBody(c)
    PROVE  LET i == caller[c].conn IN
           /\ UNCHANGED <<h, pool, reqCanceler, seen>> /\ caller[c].pc = "body" /\ i \in Conns
           /\ \/ /\ conn[i].down # <<>> /\ OnlyConn(i, {"down", "bodyRead"}) /\ conn'[i].down = Tail(conn[i].down)
                 /\ conn'[i].bodyRead = Append(conn[i].bodyRead, TRUE)
                 /\ OnlyCaller(c, {"pc", "got"}) /\ caller'[c].pc = "eof" /\ caller'[c].got = Head(conn[i].down).req
              \/ /\ OnlyConn(i, {"sawEOF", "bodyRead"})
                 /\ conn'[i].bodyRead = Append(conn[i].bodyRead, FALSE)
                 /\ \E K : /\ AreCallers(K) /\ Others(Callers, caller, K, c) /\ CallerBut(caller[c], K[c], {"err"})
                           /\ K[c].err = IF conn[i].canceled THEN "canceled" ELSE "short body"
                           /\ Finished(K, caller', c)
<1>1. UNCHANGED <<h, pool, reqCanceler, seen>> /\ caller[c].pc = "body"
  BY DEF ReadBody
<1>2. PICK i : i = caller[c].conn
  OBVIOUS
<1>3. i \in Conns /\ AreCallers(caller) /\ IsCaller(caller[c]) /\ AreConns(conn) /\ IsConn(conn[i])
  BY <1>1, <1>2, HeldConn, TypeFacts DEF H1Types
<1>4. PICK t, u : t = Append(conn[i].bodyRead, TRUE) /\ u = Append(conn[i].bodyRead, FALSE)
  OBVIOUS
<1>5. t \in Seq(BOOLEAN) /\ u \in Seq(BOOLEAN) /\ conn[i].sawEOF \in BOOLEAN
  BY <1>3, <1>4, ConnFacts
<1>6. CASE /\ conn[i].down # <<>>
           /\ conn' = [conn EXCEPT ![i].down = Tail(@), ![i].bodyRead = Append(@, TRUE)]
           /\ caller' = [caller EXCEPT ![c].pc = "eof", ![c].got = Head(conn[i].down).req]
  <2>1. PICK d, g : d = Tail(conn[i].down) /\ g = Head(conn[i].down).req
    OBVIOUS
  <2>2. conn' = [conn EXCEPT ![i].down = d, ![i].bodyRead = t]
    BY <1>4, <1>6, <2>1, Zenon
  <2>3. PICK y : y = [conn[i] EXCEPT !.down = d, !.bodyRead = t]
    OBVIOUS
  <2>4. Others(Conns, conn, conn', i) /\ conn'[i] = y
    BY <1>3, <2>2, <2>3 DEF AreConns, Others
  <2>5. ConnBut(conn[i], y, {"down", "bodyRead"}) /\ y.down = d /\ y.bodyRead = t
    BY <1>3, <2>3, Zenon DEF IsConn, ConnBut, ConnFields
  <2>6. \A f \in {"down", "bodyRead"} \cap ConnTyped : y[f] \in ConnTypes[f]
    BY <1>5, <2>5, ConnTypesAre, Zenon DEF ConnTyped
  <2>7. OnlyConn(i, {"down", "bodyRead"})
    BY <1>3, <2>4, <2>5, <2>6, ConnUpdated DEF OnlyConn
  <2>8. caller' = [caller EXCEPT ![c].pc = "eof", ![c].got = g]
    BY <1>6, <2>1, Zenon
  <2>9. PICK b : b = [caller[c] EXCEPT !.pc = "eof", !.got = g]
    OBVIOUS
  <2>10. Others(Callers, caller, caller', c) /\ caller'[c] = b
    BY <1>3, <2>8, <2>9 DEF AreCallers, Others
  <2>11. CallerBut(caller[c], b, {"pc", "got"}) /\ b.pc = "eof" /\ b.got = g
    BY <1>3, <2>9, Zenon DEF IsCaller, CallerBut, CallerFields
  <2>12. "eof" \in Pcs
    BY DEF Pcs
  <2>13. \A f \in {"pc", "got"} \cap CallerTyped : b[f] \in CallerTypes[f]
    BY <2>11, <2>12, CallerTypesAre, Zenon DEF CallerTyped
  <2>14. OnlyCaller(c, {"pc", "got"})
    BY <1>3, <2>10, <2>11, <2>13, CallerUpdated DEF OnlyCaller
  <2> QED BY <1>1, <1>2, <1>3, <1>4, <1>6, <2>1, <2>4, <2>5, <2>7, <2>10, <2>11, <2>14, Zenon
<1>7. CASE /\ conn' = [conn EXCEPT ![i].bodyRead = Append(@, FALSE), ![i].sawEOF = @ \/ conn[i].closed = Unset]
           /\ caller' = Finish([caller EXCEPT ![c].err = IF conn[i].canceled THEN "canceled" ELSE "short body"], c)
  <2>1. PICK s \in BOOLEAN : s = (conn[i].sawEOF \/ conn[i].closed = Unset)
    BY <1>5
  <2>2. conn' = [conn EXCEPT ![i].bodyRead = u, ![i].sawEOF = s]
    BY <1>4, <1>7, <2>1, Zenon
  <2>3. PICK y : y = [conn[i] EXCEPT !.bodyRead = u, !.sawEOF = s]
    OBVIOUS
  <2>4. Others(Conns, conn, conn', i) /\ conn'[i] = y
    BY <1>3, <2>2, <2>3 DEF AreConns, Others
  <2>5. ConnBut(conn[i], y, {"sawEOF", "bodyRead"}) /\ y.bodyRead = u /\ y.sawEOF = s
    BY <1>3, <2>3, Zenon DEF IsConn, ConnBut, ConnFields
  <2>6. \A f \in {"sawEOF", "bodyRead"} \cap ConnTyped : y[f] \in ConnTypes[f]
    BY <1>5, <2>5, ConnTypesAre, Zenon
  <2>7. ConnBut(conn[i], y, {"sawEOF", "bodyRead"})
    BY <2>5, Zenon
  <2>8. OnlyConn(i, {"sawEOF", "bodyRead"})
    BY <1>3, <2>4, <2>6, <2>7, ConnUpdated DEF OnlyConn
  <2>9. PICK e : e = IF conn[i].canceled THEN "canceled" ELSE "short body"
    OBVIOUS
  <2>10. PICK K : K = [caller EXCEPT ![c].err = e]
    OBVIOUS
  <2>11. caller' = Finish(K, c)
    BY <1>7, <2>9, <2>10, Zenon
  <2>12. PICK b : b = [caller[c] EXCEPT !.err = e]
    OBVIOUS
  <2>13. Others(Callers, caller, K, c) /\ K[c] = b
    BY <1>3, <2>10, <2>12 DEF AreCallers, Others
  <2>14. CallerBut(caller[c], b, {"err"}) /\ b.err = e
    BY <1>3, <2>12, Zenon DEF IsCaller, CallerBut, CallerFields
  <2>15. \A f \in {"err"} \cap CallerTyped : b[f] \in CallerTypes[f]
    BY DEF CallerTyped
  <2>16. AreCallers(K) /\ CallerBut(caller[c], K[c], {"err"})
    BY <1>3, <2>13, <2>14, <2>15, CallerUpdated
  <2>17. K[c].hop = caller[c].hop
    BY <2>16 DEF CallerBut, CallerFields
  <2>18. Finished(K, caller', c)
    BY <2>11, <2>16, <2>17, FinishFacts DEF Finished
  <2> QED BY <1>1, <1>2, <1>3, <1>4, <2>4, <2>5, <2>8, <2>9, <2>13, <2>14, <2>16, <2>18, Zenon
<1> QED BY <1>2, <1>6, <1>7, Zenon DEF ReadBody

(* The writeLoop tells both its readLoop and the caller how the write went. *)
LEMMA WriteReportsFacts ==
    ASSUME H1Types, NEW i \in Conns, WriteReports(i)
    PROVE  LET e == conn[i].werr IN
           /\ UNCHANGED <<h, pool, reqCanceler, seen>> /\ conn[i].dial = "up" /\ conn[i].w = "report"
           /\ AreConns(conn') /\ Others(Conns, conn, conn', i) /\ AreCallers(caller')
           /\ \/ /\ e = "nil" /\ OnlyConn(i, {"writeErrCh", "werr", "wr", "w"}) /\ conn'[i].w = "idle"
                 /\ conn'[i].wr = NoReq
              \/ /\ e # "nil"
                 /\ \E k : /\ ConnBut(conn[i], k, {"writeErrCh", "werr", "wr", "w", "closed"}) /\ k.w = "done"
                           /\ k.closed = (IF conn[i].closed = Unset THEN "write error" ELSE conn[i].closed)
                           /\ k.closed # Unset /\ k.wr = NoReq
                           /\ IF conn[i].r = "gone" THEN Remains(k, conn'[i]) ELSE conn'[i] = k
           /\ \A c \in Callers :
                IF e # "nil" /\ caller[c].pc \in {"wait", "map"} /\ Waits(c, i, conn[i].wr)
                THEN CallerBut(caller[c], caller'[c], {"werr"}) /\ caller'[c].werr = e
                ELSE caller'[c] = caller[c]
<1> DEFINE C == [conn EXCEPT ![i].writeErrCh = <<conn[i].werr>>, ![i].werr = Unset, ![i].wr = NoReq]
           Told(c) == caller[c].pc \in {"wait", "map"} /\ Waits(c, i, conn[i].wr)
<1>1. AreConns(conn) /\ AreCallers(caller) /\ IsConn(conn[i])
  BY TypeFacts DEF H1Types
<1>2. /\ UNCHANGED <<h, pool, reqCanceler, seen>> /\ conn[i].dial = "up" /\ conn[i].w = "report"
  BY DEF WriteReports, Up
<1>3. conn' = IF conn[i].werr = "nil" THEN [C EXCEPT ![i].w = "idle"]
              ELSE Bury([Close(C, i, "write error") EXCEPT ![i].w = "done"], i)
  BY Zenon DEF WriteReports
<1>4. caller' = [c \in Callers |-> IF conn[i].werr # "nil" /\ Told(c)
                                   THEN [caller[c] EXCEPT !.werr = conn[i].werr] ELSE caller[c]]
  BY Zenon DEF WriteReports
<1>5. /\ Others(Conns, conn, C, i) /\ ConnBut(conn[i], C[i], {"writeErrCh", "werr", "wr"}) /\ C[i].wr = NoReq
  <2>1. PICK e2 : e2 = <<conn[i].werr>>
    OBVIOUS
  <2>2. PICK y : y = [conn[i] EXCEPT !.writeErrCh = e2, !.werr = Unset, !.wr = NoReq]
    OBVIOUS
  <2>3. Others(Conns, conn, C, i) /\ C[i] = y
    BY <1>1, <2>1, <2>2 DEF AreConns, Others
  <2>4. ConnBut(conn[i], y, {"writeErrCh", "werr", "wr"}) /\ y.wr = NoReq
    BY <1>1, <2>2, Zenon DEF IsConn, ConnBut, ConnFields
  <2> QED BY <2>3, <2>4, Zenon
<1> HIDE DEF C
<1>6. AreConns(C)
  <2>1. NoReq \in MaybeReq
    BY DEF MaybeReq
  <2>2. C[i].wr \in ConnTypes.wr
    BY <1>5, <2>1, ConnTypesAre, Zenon
  <2> QED BY <1>1, <1>5, <2>2, ConnUpdated DEF ConnTyped
<1>7. ASSUME NEW c \in Callers
      PROVE  /\ IsCaller(caller'[c])
             /\ IF conn[i].werr # "nil" /\ Told(c)
                THEN CallerBut(caller[c], caller'[c], {"werr"}) /\ caller'[c].werr = conn[i].werr
                ELSE caller'[c] = caller[c]
  <2>1. IsCaller(caller[c])
    BY <1>1 DEF AreCallers
  <2>2. CASE conn[i].werr # "nil" /\ Told(c)
    <3>1. PICK e : e = conn[i].werr
      OBVIOUS
    <3>2. PICK b : b = [caller[c] EXCEPT !.werr = e]
      OBVIOUS
    <3>3. caller'[c] = b
      BY <1>4, <2>2, <3>1, <3>2, Zenon
    <3>4. CallerBut(caller[c], b, {"werr"}) /\ b.werr = e
      BY <2>1, <3>2, Zenon DEF IsCaller, CallerBut, CallerFields
    <3>5. IsCaller(b)
      BY <2>1, <3>4, CallerRetyped DEF CallerTyped
    <3> QED BY <2>2, <3>1, <3>3, <3>4, <3>5, Zenon
  <2>3. CASE ~(conn[i].werr # "nil" /\ Told(c))
    <3>1. caller'[c] = caller[c]
      BY <1>4, <2>3, Zenon
    <3> QED BY <2>1, <2>3, <3>1, Zenon
  <2> QED BY <2>2, <2>3
<1>8. AreCallers(caller')
  <2>1. caller' = [c \in Callers |-> caller'[c]]
    BY <1>4
  <2> QED BY <1>7, <2>1 DEF AreCallers
<1>9. CASE conn[i].werr = "nil"
  <2>1. conn' = [C EXCEPT ![i].w = "idle"]
    BY <1>3, <1>9, Zenon
  <2>2. Others(Conns, C, conn', i) /\ ConnBut(C[i], conn'[i], {"w"}) /\ conn'[i].w = "idle"
    BY <1>6, <2>1 DEF Others, ConnBut, ConnFields, AreConns, IsConn
  <2>3. conn'[i].w \in ConnTypes.w
    BY <2>2, ConnTypesAre
  <2>4. AreConns(conn')
    <3>1. \A f \in {"w"} \cap ConnTyped : conn'[i][f] \in ConnTypes[f]
      BY <2>3, Zenon
    <3> QED BY <1>6, <2>2, <3>1, ConnUpdated
  <2>5. Others(Conns, conn, conn', i)
    BY <1>5, <2>2 DEF Others
  <2>6. ConnBut(conn[i], conn'[i], {"writeErrCh", "werr", "wr", "w"}) /\ conn'[i].wr = NoReq
    BY <1>5, <2>2 DEF ConnBut, ConnFields
  <2> QED BY <1>2, <1>7, <1>8, <1>9, <2>2, <2>4, <2>5, <2>6, Zenon DEF OnlyConn
<1>10. CASE conn[i].werr # "nil"
  <2>1. PICK D : D = Close(C, i, "write error")
    OBVIOUS
  <2>2. PICK E : E = [D EXCEPT ![i].w = "done"]
    OBVIOUS
  <2>3. conn' = Bury(E, i)
    BY <1>3, <1>10, <2>1, <2>2, Zenon
  <2>4. /\ AreConns(D) /\ Others(Conns, C, D, i) /\ ConnBut(C[i], D[i], {"closed"})
        /\ D[i].closed = IF C[i].closed = Unset THEN "write error" ELSE C[i].closed
    BY <1>6, <2>1, CloseFacts
  <2>5. Others(Conns, D, E, i) /\ ConnBut(D[i], E[i], {"w"}) /\ E[i].w = "done"
    BY <2>2, <2>4 DEF Others, ConnBut, ConnFields, AreConns, IsConn
  <2>6. E[i].w \in ConnTypes.w
    BY <2>5, ConnTypesAre
  <2>7. AreConns(E)
    <3>1. \A f \in {"w"} \cap ConnTyped : E[i][f] \in ConnTypes[f]
      BY <2>6, Zenon
    <3> QED BY <2>4, <2>5, <3>1, ConnUpdated
  <2>8. /\ AreConns(conn') /\ Others(Conns, E, conn', i)
        /\ IF E[i].r = "gone" /\ E[i].w = "done" THEN Remains(E[i], conn'[i]) ELSE conn' = E
    BY <2>3, <2>7, BuryFacts
  <2>9. Others(Conns, conn, conn', i)
    BY <1>5, <2>4, <2>5, <2>8 DEF Others
  <2>10. ConnBut(conn[i], E[i], {"writeErrCh", "werr", "wr", "w", "closed"}) /\ E[i].r = conn[i].r
         /\ E[i].closed = (IF conn[i].closed = Unset THEN "write error" ELSE conn[i].closed) /\ E[i].wr = NoReq
    BY <1>5, <2>4, <2>5 DEF ConnBut, ConnFields
  <2>11. E[i].closed # Unset
    BY <2>10 DEF Unset
  <2>12. IF conn[i].r = "gone" THEN Remains(E[i], conn'[i]) ELSE conn'[i] = E[i]
    BY <2>5, <2>8, <2>10
  <2> QED BY <1>2, <1>7, <1>8, <1>10, <2>5, <2>8, <2>9, <2>10, <2>11, <2>12, Zenon
<1> QED BY <1>9, <1>10

LEMMA MovesOn ==
    ASSUME NEW C, AreConns(C), NEW i \in Conns, NEW D,
           NEW v \in {"peek", "take", "recycle", "deliver", "body", "exit", "gone"}, D = [C EXCEPT ![i].r = v]
    PROVE  AreConns(D) /\ Others(Conns, C, D, i) /\ ConnBut(C[i], D[i], {"r"}) /\ D[i].r = v
<1>1. Others(Conns, C, D, i) /\ ConnBut(C[i], D[i], {"r"}) /\ D[i].r = v
  <2>1. PICK y : y = [C[i] EXCEPT !.r = v]
    OBVIOUS
  <2>2. Others(Conns, C, D, i) /\ D[i] = y /\ IsConn(C[i])
    BY <2>1 DEF AreConns, Others
  <2>3. ConnBut(C[i], y, {"r"}) /\ y.r = v
    BY <2>1, <2>2, Zenon DEF IsConn, ConnBut, ConnFields
  <2> QED BY <2>2, <2>3, Zenon
<1>2. \A f \in {"r"} \cap ConnTyped : D[i][f] \in ConnTypes[f]
  BY <1>1, ConnTypesAre, Zenon
<1> QED BY <1>1, <1>2, ConnUpdated

LEMMA AwaitBodyFacts ==
    ASSUME H1Types, NEW i \in Conns, AwaitBody(i)
    PROVE  LET k == conn[i]  k2 == conn'[i] IN
           /\ UNCHANGED <<h, pool, seen>> /\ k.dial = "up" /\ k.r = "body"
           /\ \/ /\ k.bodyRead # <<>> /\ OnlyConn(i, {"r", "alive", "bodyRead"}) /\ k2.r = "recycle"
                 /\ k2.bodyRead = <<>> /\ (k2.alive => k.alive /\ k.bodyRead[1])
                 /\ SetCanceler(k.rc, "none") /\ UNCHANGED caller
              \/ \E c \in Callers : \E C :
                   /\ k.rc = Req(c) /\ caller[c].conn = i /\ caller[c].cancel
                   /\ AreConns(C) /\ Others(Conns, conn, C, i) /\ ConnBut(conn[i], C[i], {"r"}) /\ C[i].r = "exit"
                   /\ Cancels(c, C, caller)
              \/ /\ k.closed # Unset /\ OnlyConn(i, {"r"}) /\ k2.r = "exit" /\ UNCHANGED <<caller, reqCanceler>>
<1>1. AreConns(conn) /\ AreCallers(caller) /\ IsConn(conn[i])
  BY TypeFacts DEF H1Types
<1>2. UNCHANGED <<h, pool, seen>> /\ conn[i].dial = "up" /\ conn[i].r = "body"
  BY DEF AwaitBody, Up
<1>3. PICK c : c = conn[i].rc[1]
  OBVIOUS
<1>4. CASE /\ conn[i].bodyRead # <<>>
           /\ conn' = [conn EXCEPT ![i].r = "recycle", ![i].alive = @ /\ Head(conn[i].bodyRead), ![i].bodyRead = <<>>]
           /\ SetCanceler(conn[i].rc, "none") /\ UNCHANGED caller
  <2>1. conn[i].bodyRead \in Seq(BOOLEAN) /\ conn[i].alive \in BOOLEAN
    BY <1>1, ConnFacts
  <2>2. Head(conn[i].bodyRead) = conn[i].bodyRead[1] /\ Head(conn[i].bodyRead) \in BOOLEAN
    <3>1. conn[i].bodyRead # <<>>
      BY <1>4, Zenon
    <3> QED BY <2>1, <3>1
  <2>3. PICK a \in BOOLEAN : a = (conn[i].alive /\ Head(conn[i].bodyRead))
    BY <2>1, <2>2
  <2>4. conn' = [conn EXCEPT ![i].r = "recycle", ![i].alive = a, ![i].bodyRead = <<>>]
    BY <1>4, <2>3, Zenon
  <2>5. PICK y : y = [conn[i] EXCEPT !.r = "recycle", !.alive = a, !.bodyRead = <<>>]
    OBVIOUS
  <2>6. Others(Conns, conn, conn', i) /\ conn'[i] = y
    BY <1>1, <2>4, <2>5 DEF AreConns, Others
  <2>7. ConnBut(conn[i], y, {"r", "alive", "bodyRead"})
    BY <1>1, <2>5, Zenon DEF IsConn, ConnBut, ConnFields
  <2>8. y.r = "recycle" /\ y.alive = a
    BY <1>1, <2>5, Zenon DEF IsConn, ConnFields
  <2>9. y.bodyRead = <<>>
    BY <1>1, <2>5, SMT DEF IsConn, ConnFields
  <2>10. <<>> \in Seq(BOOLEAN)
    OBVIOUS
  <2>11. y.r \in ConnTypes.r /\ y.alive \in ConnTypes.alive /\ y.bodyRead \in ConnTypes.bodyRead
    BY <2>3, <2>8, <2>9, <2>10, ConnTypesAre, Zenon
  <2>12. \A f \in {"r", "alive", "bodyRead"} \cap ConnTyped : y[f] \in ConnTypes[f]
    BY <2>11, Zenon
  <2>13. OnlyConn(i, {"r", "alive", "bodyRead"})
    BY <1>1, <2>6, <2>7, <2>12, ConnUpdated DEF OnlyConn
  <2>14. a => conn[i].alive /\ conn[i].bodyRead[1]
    BY <2>2, <2>3
  <2>15. conn'[i].r = "recycle" /\ conn'[i].bodyRead = <<>> /\ (conn'[i].alive => conn[i].alive /\ conn[i].bodyRead[1])
    BY <2>6, <2>8, <2>9, <2>14, Zenon
  <2> QED BY <1>2, <1>4, <2>13, <2>15, Zenon
<1>5. CASE caller[c].cancel /\ Waits(c, i, conn[i].rc) /\ RunCanceler(c, [conn EXCEPT ![i].r = "exit"], caller)
  <2>1. PICK C : C = [conn EXCEPT ![i].r = "exit"]
    OBVIOUS
  <2>2. AreConns(C) /\ Others(Conns, conn, C, i) /\ ConnBut(conn[i], C[i], {"r"}) /\ C[i].r = "exit"
    BY <1>1, <2>1, MovesOn
  <2>3. caller[c].conn = i /\ conn[i].rc = Req(c) /\ caller[c].cancel /\ RunCanceler(c, C, caller)
    BY <1>5, <2>1, Zenon DEF Waits
  <2>4. c \in Callers
    <3>1. conn[i].rc # NoReq
      BY <2>3 DEF Req, NoReq
    <3>2. conn[i].rc \in Reqs
      BY <1>1, <3>1, ConnFacts DEF MaybeReq
    <3> QED BY <1>3, <3>2 DEF Reqs
  <2>5. Cancels(c, C, caller)
    <3>1. RunCanceler(c, C, caller)
      BY <2>3, Zenon
    <3> QED BY <1>1, <2>2, <2>4, <3>1, CancelsFacts
  <2> QED BY <1>2, <2>2, <2>3, <2>4, <2>5, Zenon
<1>6. CASE conn[i].closed # Unset /\ conn' = [conn EXCEPT ![i].r = "exit"] /\ UNCHANGED <<caller, reqCanceler>>
  <2>1. conn' = [conn EXCEPT ![i].r = "exit"]
    BY <1>6, Zenon
  <2>2. AreConns(conn') /\ Others(Conns, conn, conn', i) /\ ConnBut(conn[i], conn'[i], {"r"}) /\ conn'[i].r = "exit"
    BY <1>1, <2>1, MovesOn
  <2> QED BY <1>2, <1>6, <2>2, Zenon DEF OnlyConn
<1>7. \/ /\ conn[i].bodyRead # <<>>
         /\ conn' = [conn EXCEPT ![i].r = "recycle", ![i].alive = @ /\ Head(conn[i].bodyRead), ![i].bodyRead = <<>>]
         /\ SetCanceler(conn[i].rc, "none") /\ UNCHANGED caller
      \/ caller[c].cancel /\ Waits(c, i, conn[i].rc) /\ RunCanceler(c, [conn EXCEPT ![i].r = "exit"], caller)
      \/ conn[i].closed # Unset /\ conn' = [conn EXCEPT ![i].r = "exit"] /\ UNCHANGED <<caller, reqCanceler>>
  BY <1>3, Zenon DEF AwaitBody
<1> QED BY <1>4, <1>5, <1>6, <1>7, Zenon

(* A response is given to its caller: it has no Location, has a body to    *)
(* read, or is all there is.                                               *)
Answers(K2, c, i, res, from) ==
    /\ AreCallers(K2) /\ Others(Callers, caller, K2, c)
    /\ \/ /\ res = "302 lost" /\ CallerBut(caller[c], K2[c], {"got", "pc", "conn", "err"})
          /\ K2[c].got = from /\ K2[c].pc = "done" /\ K2[c].conn = i /\ K2[c].err = "no Location"
       \/ /\ res # "302 lost" /\ HasBody(res) /\ CallerBut(caller[c], K2[c], {"got", "pc", "res"})
          /\ K2[c].got = from /\ K2[c].pc = "body" /\ K2[c].res = res
       \/ /\ ~HasBody(res)
          /\ \E K : /\ AreCallers(K) /\ Others(Callers, caller, K, c) /\ CallerBut(caller[c], K[c], {"got"})
                    /\ K[c].got = from /\ Finished(K, K2, c)

LEMMA AnswersFacts ==
    ASSUME H1Types, NEW c \in Callers, NEW i \in Conns, NEW res, NEW from, NEW K2,
           K2 = Answered([caller EXCEPT ![c].got = from], c, i, res)
    PROVE  Answers(K2, c, i, res, from)
<1>1. AreCallers(caller) /\ IsCaller(caller[c])
  BY TypeFacts DEF H1Types
<1>2. PICK K : K = [caller EXCEPT ![c].got = from]
  OBVIOUS
<1>3. PICK b : b = [caller[c] EXCEPT !.got = from]
  OBVIOUS
<1>4. Others(Callers, caller, K, c) /\ K[c] = b
  BY <1>1, <1>2, <1>3 DEF AreCallers, Others
<1>5. CallerBut(caller[c], b, {"got"}) /\ b.got = from
  BY <1>1, <1>3, Zenon DEF IsCaller, CallerBut, CallerFields
<1>6. \A f \in {"got"} \cap CallerTyped : b[f] \in CallerTypes[f]
  BY DEF CallerTyped
<1>7. AreCallers(K) /\ CallerBut(caller[c], K[c], {"got"}) /\ K[c].got = from /\ IsCaller(K[c])
  <2>1. AreCallers(K) /\ CallerBut(caller[c], K[c], {"got"})
    BY <1>1, <1>4, <1>5, <1>6, CallerUpdated
  <2>2. IsCaller(K[c])
    BY <2>1 DEF AreCallers
  <2> QED BY <1>4, <1>5, <2>1, <2>2, Zenon
<1>8. K2 = Answered(K, c, i, res)
  BY <1>2, Zenon
<1>9. CASE res = "302 lost"
  <2>1. K2 = [K EXCEPT ![c].pc = "done", ![c].conn = i, ![c].err = "no Location"]
    BY <1>8, <1>9, Zenon DEF Answered
  <2>2. PICK x : x = [K[c] EXCEPT !.pc = "done", !.conn = i, !.err = "no Location"]
    OBVIOUS
  <2>3. Others(Callers, K, K2, c) /\ K2[c] = x
    BY <1>7, <2>1, <2>2 DEF AreCallers, Others
  <2>4. CallerBut(K[c], x, {"pc", "conn", "err"}) /\ x.pc = "done" /\ x.conn = i /\ x.err = "no Location"
    BY <1>7, <2>2, Zenon DEF IsCaller, CallerBut, CallerFields
  <2>5. x.pc \in CallerTypes.pc /\ x.conn \in CallerTypes.conn
    <3>1. "done" \in Pcs /\ i \in Conns \cup {None}
      BY DEF Pcs
    <3> QED BY <2>4, <3>1, CallerTypesAre, Zenon
  <2>6. \A f \in {"pc", "conn", "err"} \cap CallerTyped : x[f] \in CallerTypes[f]
    BY <2>5, Zenon DEF CallerTyped
  <2>7. AreCallers(K2)
    BY <1>7, <2>3, <2>4, <2>6, CallerUpdated
  <2>8. Others(Callers, caller, K2, c)
    BY <1>4, <2>3 DEF Others
  <2>9. CallerBut(caller[c], x, {"got", "pc", "conn", "err"}) /\ x.got = from
    BY <1>7, <2>4 DEF CallerBut, CallerFields
  <2> QED BY <1>9, <2>3, <2>4, <2>7, <2>8, <2>9, Zenon DEF Answers
<1>10. CASE res # "302 lost" /\ HasBody(res)
  <2>1. K2 = [K EXCEPT ![c].pc = "body", ![c].res = res]
    BY <1>8, <1>10, Zenon DEF Answered
  <2>2. PICK x : x = [K[c] EXCEPT !.pc = "body", !.res = res]
    OBVIOUS
  <2>3. Others(Callers, K, K2, c) /\ K2[c] = x
    BY <1>7, <2>1, <2>2 DEF AreCallers, Others
  <2>4. CallerBut(K[c], x, {"pc", "res"}) /\ x.pc = "body" /\ x.res = res
    BY <1>7, <2>2, Zenon DEF IsCaller, CallerBut, CallerFields
  <2>5. x.pc \in CallerTypes.pc
    <3>1. "body" \in Pcs
      BY DEF Pcs
    <3> QED BY <2>4, <3>1, CallerTypesAre, Zenon
  <2>6. \A f \in {"pc", "res"} \cap CallerTyped : x[f] \in CallerTypes[f]
    BY <2>5, Zenon DEF CallerTyped
  <2>7. AreCallers(K2)
    BY <1>7, <2>3, <2>4, <2>6, CallerUpdated
  <2>8. Others(Callers, caller, K2, c)
    BY <1>4, <2>3 DEF Others
  <2>9. CallerBut(caller[c], x, {"got", "pc", "res"}) /\ x.got = from
    BY <1>7, <2>4 DEF CallerBut, CallerFields
  <2> QED BY <1>10, <2>3, <2>4, <2>7, <2>8, <2>9, Zenon DEF Answers
<1>11. CASE res # "302 lost" /\ ~HasBody(res)
  <2>1. K2 = Finish(K, c)
    BY <1>8, <1>11, Zenon DEF Answered
  <2>2. K[c].hop = caller[c].hop
    BY <1>7 DEF CallerBut, CallerFields
  <2>3. Finished(K, K2, c)
    BY <1>7, <2>1, <2>2, FinishFacts DEF Finished
  <2>4. AreCallers(K2) /\ Others(Callers, caller, K2, c)
    BY <1>4, <2>3 DEF Finished, Others
  <2> QED BY <1>4, <1>7, <1>11, <2>3, <2>4, Zenon DEF Answers
<1> QED BY <1>9, <1>10, <1>11, Zenon

LEMMA DeliverFacts ==
    ASSUME H1Types, NEW i \in Conns, Deliver(i)
    PROVE  LET k == conn[i]  k2 == conn'[i] IN
           /\ UNCHANGED <<h, pool, seen>> /\ k.dial = "up" /\ k.r = "deliver" /\ OnlyConn(i, {"r"})
           /\ \/ \E c \in Callers :
                   /\ k.rc = Req(c) /\ caller[c].conn = i /\ caller[c].pc = "wait"
                   /\ \/ /\ k.res \notin {"read error", "bad response"} /\ UNCHANGED reqCanceler
                         /\ k2.r = (IF HasBody(k.res) THEN "body" ELSE IF k.alive THEN "peek" ELSE "exit")
                         /\ Answers(caller', c, i, k.res, k.from)
                      \/ /\ k.res \in {"read error", "bad response"} /\ k2.r = "exit"
                         /\ \/ /\ k.res = "bad response" /\ ~k.canceled /\ k.closed # Unset /\ UNCHANGED reqCanceler
                               /\ OnlyCaller(c, {"pc", "err"}) /\ caller'[c].pc = "map"
                               /\ caller'[c].err = "bad response"
                            \/ LET err == IF k.canceled THEN "canceled" ELSE k.res IN
                               Fail(c, caller, ShouldRetry(i, caller[c].method, err), err)
              \/ /\ \A c \in Callers : k.rc = Req(c) /\ caller[c].conn = i => caller[c].pc \notin {"wait", "map"}
                 /\ k2.r = "exit" /\ UNCHANGED <<caller, reqCanceler>>
<1>1. AreConns(conn) /\ AreCallers(caller) /\ IsConn(conn[i])
  BY TypeFacts DEF H1Types
<1>2. UNCHANGED <<h, pool, seen>> /\ conn[i].dial = "up" /\ conn[i].r = "deliver"
  BY DEF Deliver, Up
<1>3. PICK c : c = conn[i].rc[1]
  OBVIOUS
<1> DEFINE failed == conn[i].res \in {"read error", "bad response"}
           after == IF failed THEN "exit"
                    ELSE IF HasBody(conn[i].res) THEN "body"
                    ELSE IF conn[i].alive THEN "peek" ELSE "exit"
           err == IF conn[i].canceled THEN "canceled" ELSE conn[i].res
           Got == [caller EXCEPT ![c].got = conn[i].from]
<1>4. \/ /\ Waits(c, i, conn[i].rc) /\ caller[c].pc = "wait"
         /\ conn' = [conn EXCEPT ![i].r = after]
         /\ IF ~failed
             THEN /\ caller' = Answered(Got, c, i, conn[i].res)
                  /\ UNCHANGED reqCanceler
             ELSE IF err = "bad response" /\ conn[i].closed # Unset
                  THEN caller' = [caller EXCEPT ![c].pc = "map", ![c].err = err]
                       /\ UNCHANGED reqCanceler
                  ELSE Fail(c, caller, ShouldRetry(i, caller[c].method, err), err)
      \/ /\ ~(Waits(c, i, conn[i].rc) /\ caller[c].pc \in {"wait", "map"})
         /\ conn' = [conn EXCEPT ![i].r = "exit"]
         /\ UNCHANGED <<caller, reqCanceler>>
  BY <1>3, Zenon DEF Deliver
<1>5. ASSUME NEW d \in Callers, conn[i].rc = Req(d) PROVE c = d
  BY <1>3, <1>5 DEF Req
<1>6. ASSUME NEW v \in {"peek", "body", "exit"}, conn' = [conn EXCEPT ![i].r = v]
      PROVE  OnlyConn(i, {"r"}) /\ conn'[i].r = v
  <2>1. CASE v = "peek"
    <3>1. conn' = [conn EXCEPT ![i].r = "peek"]
      BY <1>6, <2>1, Zenon
    <3> QED BY <1>1, <2>1, <3>1, MovesOn, ZenonT(40) DEF OnlyConn
  <2>2. CASE v = "body"
    <3>1. conn' = [conn EXCEPT ![i].r = "body"]
      BY <1>6, <2>2, Zenon
    <3> QED BY <1>1, <2>2, <3>1, MovesOn, ZenonT(40) DEF OnlyConn
  <2>3. CASE v = "exit"
    <3>1. conn' = [conn EXCEPT ![i].r = "exit"]
      BY <1>6, <2>3, Zenon
    <3> QED BY <1>1, <2>3, <3>1, MovesOn DEF OnlyConn
  <2> QED BY <2>1, <2>2, <2>3
<1>7. after \in {"peek", "body", "exit"}
  BY Zenon
<1>8. CASE /\ ~(Waits(c, i, conn[i].rc) /\ caller[c].pc \in {"wait", "map"})
           /\ conn' = [conn EXCEPT ![i].r = "exit"]
           /\ UNCHANGED <<caller, reqCanceler>>
  <2>1. OnlyConn(i, {"r"}) /\ conn'[i].r = "exit"
    BY <1>6, <1>8, Zenon
  <2>2. \A d \in Callers : conn[i].rc = Req(d) /\ caller[d].conn = i => caller[d].pc \notin {"wait", "map"}
    BY <1>5, <1>8, Zenon DEF Waits
  <2> QED BY <1>2, <1>8, <2>1, <2>2, Zenon
<1>9. CASE /\ Waits(c, i, conn[i].rc) /\ caller[c].pc = "wait"
           /\ conn' = [conn EXCEPT ![i].r = after]
           /\ IF ~failed
              THEN /\ caller' = Answered(Got, c, i, conn[i].res)
                   /\ UNCHANGED reqCanceler
              ELSE IF err = "bad response" /\ conn[i].closed # Unset
                   THEN caller' = [caller EXCEPT ![c].pc = "map", ![c].err = err]
                        /\ UNCHANGED reqCanceler
                   ELSE Fail(c, caller, ShouldRetry(i, caller[c].method, err), err)
  <2>1. OnlyConn(i, {"r"}) /\ conn'[i].r = after
    BY <1>6, <1>7, <1>9, Zenon
  <2>2. conn[i].rc = Req(c) /\ caller[c].conn = i /\ caller[c].pc = "wait"
    BY <1>9, Zenon DEF Waits
  <2>3. c \in Callers
    <3>1. conn[i].rc # NoReq
      BY <2>2 DEF Req, NoReq
    <3>2. conn[i].rc \in Reqs
      BY <1>1, <3>1, ConnFacts DEF MaybeReq
    <3> QED BY <1>3, <3>2 DEF Reqs
  <2>4. CASE ~failed
    <3>1. caller' = Answered(Got, c, i, conn[i].res) /\ UNCHANGED reqCanceler
      BY <1>9, <2>4, Zenon
    <3>2. Answers(caller', c, i, conn[i].res, conn[i].from)
      BY <2>3, <3>1, AnswersFacts, Zenon
    <3>3. conn'[i].r = (IF HasBody(conn[i].res) THEN "body" ELSE IF conn[i].alive THEN "peek" ELSE "exit")
      BY <2>1, <2>4, Zenon
    <3> QED BY <1>2, <2>1, <2>2, <2>3, <2>4, <3>1, <3>2, <3>3, Zenon
  <2>5. CASE failed
    <3>1. conn'[i].r = "exit"
      BY <2>1, <2>5, Zenon
    <3>2. CASE err = "bad response" /\ conn[i].closed # Unset
      <4>1. caller' = [caller EXCEPT ![c].pc = "map", ![c].err = err] /\ UNCHANGED reqCanceler
        BY <1>9, <2>5, <3>2, Zenon
      <4>2. ~conn[i].canceled /\ conn[i].res = "bad response"
        <5>1. "canceled" # "bad response"
          OBVIOUS
        <5> QED BY <3>2, <5>1, Zenon
      <4>3. caller' = [caller EXCEPT ![c].pc = "map", ![c].err = "bad response"]
        BY <3>2, <4>1, Zenon
      <4>4. OnlyCaller(c, {"pc", "err"}) /\ caller'[c].pc = "map" /\ caller'[c].err = "bad response"
        BY <2>3, <4>3, MappedFacts
      <4> QED BY <1>2, <2>1, <2>2, <2>3, <2>5, <3>1, <3>2, <4>1, <4>2, <4>4, Zenon
    <3>3. CASE ~(err = "bad response" /\ conn[i].closed # Unset)
      <4>1. Fail(c, caller, ShouldRetry(i, caller[c].method, err), err)
        BY <1>9, <2>5, <3>3, Zenon
      <4> QED BY <1>2, <2>1, <2>2, <2>3, <2>5, <3>1, <4>1, Zenon
    <3> QED BY <3>2, <3>3, Zenon
  <2> QED BY <2>4, <2>5, Zenon
<1> QED BY <1>4, <1>8, <1>9, Zenon

(* The caller whose body is at its end when the readLoop recycles i.       *)
Ends(c, i) == HasBody(conn[i].res) /\ conn[i].rc[1] = c /\ caller[c].pc = "eof" /\ caller[c].conn = i
Released(i, K) ==
    \/ K = caller /\ \A c \in Callers : ~Ends(c, i)
    \/ \E c \in Callers : Ends(c, i) /\ Finished(caller, K, c)
After(i, a) == IF ~HasBody(conn[i].res) THEN "deliver" ELSE IF a THEN "peek" ELSE "exit"

LEMMA RecycleFacts ==
    ASSUME H1Types, NEW i \in Conns, Recycle(i)
    PROVE  /\ UNCHANGED <<h, reqCanceler, seen>> /\ conn[i].dial = "up" /\ conn[i].r = "recycle"
           /\ \/ /\ OnlyConn(i, {"writeErrCh", "r", "alive"}) /\ conn'[i].r = After(i, FALSE) /\ conn'[i].alive = FALSE
                 /\ UNCHANGED pool /\ Released(i, caller')
              \/ \E E, p, D, K :
                   /\ conn[i].alive /\ AreConns(E) /\ Others(Conns, conn, E, i) /\ ConnBut(conn[i], E[i], {"writeErrCh"})
                   /\ AreConns(p.conn) /\ p.pool \in Pools /\ p.ok \in BOOLEAN
                   /\ Refused(E, pool, i, p) \/ GivenOn(E, pool, i, p) \/ Listed(E, pool, i, p) \/ Evicts(E, pool, i, p)
                   /\ AreConns(D) /\ Others(Conns, p.conn, D, i) /\ ConnBut(p.conn[i], D[i], {"r", "alive"})
                   /\ D[i].r = After(i, p.ok) /\ D[i].alive = p.ok
                   /\ pool' = p.pool /\ conn' = IF p.to = None THEN D ELSE HandPending(D, p.to)
                   /\ Released(i, K) /\ caller' = Handed(K, p.to, i)
<1>1. AreConns(conn) /\ AreCallers(caller) /\ IsConn(conn[i]) /\ pool \in Pools
  BY TypeFacts DEF H1Types
<1>2. UNCHANGED <<h, reqCanceler, seen>> /\ conn[i].dial = "up" /\ conn[i].r = "recycle"
  BY DEF Recycle, Up
<1> DEFINE c == conn[i].rc[1]
           afterBody == HasBody(conn[i].res)
           maybe == conn[i].alive /\ ~conn[i].sawEOF
           Step(C, a) == [C EXCEPT ![i].r = After(i, a), ![i].alive = a]
           K == IF afterBody /\ caller[c].pc = "eof" /\ caller[c].conn = i THEN Finish(caller, c) ELSE caller
           wrote == conn[i].writeErrCh = <<"nil">>
           emptied == [conn EXCEPT ![i].writeErrCh = <<>>]
<1>3. \/ /\ ~maybe \/ ~wrote
         /\ conn' = Step(IF maybe THEN emptied ELSE conn, FALSE)
         /\ caller' = K /\ UNCHANGED pool
      \/ /\ maybe /\ wrote
         /\ \E p \in tryPutIdleConn(emptied, pool, i) :
                Settle([p EXCEPT !.conn = Step(p.conn, p.ok)], i) /\ caller' = Handed(K, p.to, i)
  BY Zenon DEF Recycle, After
<1>4. Released(i, K)
  <2>1. CASE c \in Callers /\ Ends(c, i)
    <3>1. K = Finish(caller, c)
      BY <2>1, Zenon DEF Ends
    <3>2. Finished(caller, K, c)
      BY <1>1, <2>1, <3>1, FinishFacts DEF Finished
    <3> QED BY <2>1, <3>2, Zenon DEF Released
  <2>2. CASE c \in Callers /\ ~Ends(c, i)
    <3>1. K = caller
      BY <2>2, Zenon DEF Ends
    <3>2. \A d \in Callers : ~Ends(d, i)
      BY <2>2, Zenon DEF Ends
    <3> QED BY <3>1, <3>2, Zenon DEF Released
  <2>3. CASE c \notin Callers
    <3>1. Finish(caller, c) = caller
      <4>1. \A v : [caller EXCEPT ![c] = v] = caller
        BY <1>1, <2>3 DEF AreCallers
      <4> QED BY <4>1, Zenon DEF Finish
    <3>2. K = caller
      BY <3>1, Zenon
    <3>3. \A d \in Callers : ~Ends(d, i)
      BY <2>3, Zenon DEF Ends
    <3> QED BY <3>2, <3>3, Zenon DEF Released
  <2> QED BY <2>1, <2>2, <2>3, Zenon
<1> HIDE DEF K
<1>5. AreConns(emptied) /\ Others(Conns, conn, emptied, i) /\ ConnBut(conn[i], emptied[i], {"writeErrCh"})
  <2>1. PICK y : y = [conn[i] EXCEPT !.writeErrCh = <<>>]
    OBVIOUS
  <2>2. Others(Conns, conn, emptied, i) /\ emptied[i] = y
    BY <1>1, <2>1 DEF AreConns, Others
  <2>3. ConnBut(conn[i], y, {"writeErrCh"})
    BY <1>1, <2>1, Zenon DEF IsConn, ConnBut, ConnFields
  <2>4. \A f \in {"writeErrCh"} \cap ConnTyped : y[f] \in ConnTypes[f]
    BY DEF ConnTyped
  <2> HIDE DEF emptied
  <2> QED BY <1>1, <2>2, <2>3, <2>4, ConnUpdated
<1>6. ASSUME NEW C, AreConns(C), NEW a \in BOOLEAN, NEW D, D = Step(C, a)
      PROVE  /\ AreConns(D) /\ Others(Conns, C, D, i) /\ ConnBut(C[i], D[i], {"r", "alive"})
             /\ D[i].r = After(i, a) /\ D[i].alive = a
  <2>1. PICK v : v = After(i, a)
    OBVIOUS
  <2>2. v \in {"peek", "take", "recycle", "deliver", "body", "exit", "gone"}
    BY <2>1, Zenon DEF After
  <2>3. PICK y : y = [C[i] EXCEPT !.r = v, !.alive = a]
    OBVIOUS
  <2>4. D = [C EXCEPT ![i].r = v, ![i].alive = a]
    BY <1>6, <2>1, Zenon
  <2>5. Others(Conns, C, D, i) /\ D[i] = y /\ IsConn(C[i])
    BY <1>6, <2>3, <2>4 DEF AreConns, Others
  <2>6. ConnBut(C[i], y, {"r", "alive"})
    BY <2>3, <2>5, Zenon DEF IsConn, ConnBut, ConnFields
  <2>7. y.r = v /\ y.alive = a
    BY <2>3, <2>5, Zenon DEF IsConn, ConnFields
  <2>8. \A f \in {"r", "alive"} \cap ConnTyped : y[f] \in ConnTypes[f]
    BY <2>2, <2>7, ConnTypesAre, Zenon
  <2>9. AreConns(D) /\ ConnBut(C[i], D[i], {"r", "alive"})
    BY <1>6, <2>5, <2>6, <2>8, ConnUpdated
  <2> QED BY <2>1, <2>5, <2>7, <2>9, Zenon
<1> HIDE DEF emptied, Step
<1>7. CASE /\ ~maybe \/ ~wrote
           /\ conn' = Step(IF maybe THEN emptied ELSE conn, FALSE)
           /\ caller' = K /\ UNCHANGED pool
  <2>1. PICK C : C = IF maybe THEN emptied ELSE conn
    OBVIOUS
  <2>2. AreConns(C) /\ Others(Conns, conn, C, i) /\ ConnBut(conn[i], C[i], {"writeErrCh"})
    <3>1. Others(Conns, conn, conn, i) /\ ConnBut(conn[i], conn[i], {"writeErrCh"})
      BY <1>1 DEF AreConns, Others, ConnBut, IsConn
    <3> QED BY <1>1, <1>5, <2>1, <3>1, Zenon
  <2>3. FALSE \in BOOLEAN /\ conn' = Step(C, FALSE)
    BY <1>7, <2>1, Zenon
  <2>4. /\ AreConns(conn') /\ Others(Conns, C, conn', i) /\ ConnBut(C[i], conn'[i], {"r", "alive"})
        /\ conn'[i].r = After(i, FALSE) /\ conn'[i].alive = FALSE
    BY <1>6, <2>2, <2>3, Zenon
  <2>5. Others(Conns, conn, conn', i)
    BY <2>2, <2>4, Zenon DEF Others
  <2>6. ConnBut(conn[i], conn'[i], {"writeErrCh", "r", "alive"})
    BY <2>2, <2>4, Zenon DEF ConnBut
  <2> QED BY <1>2, <1>4, <1>7, <2>4, <2>5, <2>6, Zenon DEF OnlyConn
<1>8. CASE /\ maybe /\ wrote
           /\ \E p \in tryPutIdleConn(emptied, pool, i) :
                Settle([p EXCEPT !.conn = Step(p.conn, p.ok)], i) /\ caller' = Handed(K, p.to, i)
  <2>1. PICK p \in tryPutIdleConn(emptied, pool, i) :
            Settle([p EXCEPT !.conn = Step(p.conn, p.ok)], i) /\ caller' = Handed(K, p.to, i)
    BY <1>8, Zenon
  <2>2. /\ AreConns(p.conn) /\ p.pool \in Pools /\ IsPut(p)
        /\ Refused(emptied, pool, i, p) \/ GivenOn(emptied, pool, i, p) \/ Listed(emptied, pool, i, p)
           \/ Evicts(emptied, pool, i, p)
    BY <1>1, <1>5, PutFacts
  <2>3. PICK D : D = Step(p.conn, p.ok)
    OBVIOUS
  <2>4. /\ AreConns(D) /\ Others(Conns, p.conn, D, i) /\ ConnBut(p.conn[i], D[i], {"r", "alive"})
        /\ D[i].r = After(i, p.ok) /\ D[i].alive = p.ok
    <3>1. PICK ok, C : ok = p.ok /\ C = p.conn
      OBVIOUS
    <3>2. ok \in BOOLEAN /\ AreConns(C) /\ D = Step(C, ok)
      BY <2>2, <2>3, <3>1, Zenon DEF IsPut
    <3>3. /\ AreConns(D) /\ Others(Conns, C, D, i) /\ ConnBut(C[i], D[i], {"r", "alive"})
          /\ D[i].r = After(i, ok) /\ D[i].alive = ok
      BY <1>6, <3>2, Zenon
    <3> QED BY <3>1, <3>3, Zenon
  <2>5. PICK o : o = [p EXCEPT !.conn = D]
    OBVIOUS
  <2>6. o.conn = D /\ o.pool = p.pool /\ o.to = p.to
    BY <2>2, <2>5, Zenon DEF IsPut
  <2>7. pool' = o.pool /\ conn' = IF o.to = None THEN o.conn ELSE HandPending(o.conn, o.to)
    <3>1. Settle(o, i)
      BY <2>1, <2>3, <2>5, Zenon
    <3> QED BY <3>1, Zenon DEF Settle
  <2>8. p.ok \in BOOLEAN
    BY <2>2, Zenon DEF IsPut
  <2>9. pool' = p.pool /\ conn' = IF p.to = None THEN D ELSE HandPending(D, p.to)
    BY <2>6, <2>7, Zenon
  <2>10. conn[i].alive /\ caller' = Handed(K, p.to, i)
    BY <1>8, <2>1, Zenon
  <2> QED BY <1>2, <1>4, <1>5, <2>2, <2>4, <2>8, <2>9, <2>10, Zenon
<1> QED BY <1>3, <1>7, <1>8, Zenon

-----------------------------------------------------------------------------
(* No request that is not replayable reaches a server twice.  What a step  *)
(* does to the callers and to what is still to be written, in short.       *)

Before == {"getconn", "join", "select", "start"}
Awaits == {"wait", "map"}
Past == {"body", "eof", "done"}

(* A RoundTrip starts again with its request.                              *)
Retries(a, b) ==
    /\ a.pc \in Awaits /\ b.pc = "getconn"
    /\ \/ isReplayable(a.method) \/ a.werr = "nothing written"
       \/ conn[a.conn].w = "done" /\ conn[a.conn].nwrite = a.start
Moves(a, b) ==
    \/ /\ b.hop = a.hop /\ b.method = a.method
       /\ \/ a.pc \in Before /\ b.pc \in Before
          \/ /\ a.pc \in Awaits /\ b.pc \in Awaits
             /\ b.conn = a.conn /\ b.start = a.start /\ b.werr = a.werr
          \/ b.pc \in Past
          \/ Retries(a, b)
    \/ b.hop = a.hop + 1 /\ a.hop < h.redirects /\ b.pc = "getconn"
(* What holds of a caller whatever it does.                                *)
Sound(b) ==
    /\ b.pc \in {"start", "wait", "map", "body", "eof"} => b.conn # None
    /\ b.pc = "map" => b.err \in {"broken", "bad response"}
Calm(k, k2) ==
    /\ k2.nwrite = k.nwrite /\ (k2.writech = k.writech \/ k2.writech = <<>>)
    /\ \/ k2.w = k.w /\ k2.wr = k.wr /\ k2.werr = k.werr
       \/ k2.w = "done"
Holding == \A c \in Callers : Sound(caller[c])

Retyped ==
    /\ h' = h /\ AreConns(conn') /\ AreCallers(caller') /\ pool' \in Pools
    /\ reqCanceler' \in [Reqs -> {"none", "nothing", "dial", "conn"}]
    /\ \A c \in Callers : Sound(caller'[c])
Steady ==
    /\ Retyped /\ seen' = seen
    /\ \A i \in Conns : Calm(conn[i], conn'[i])
    /\ \A c \in Callers : Moves(caller[c], caller'[c])

WriteFields == {"nwrite", "writech", "w", "wr", "werr"}
MoveFields == {"pc", "hop", "method", "conn", "start", "werr", "err"}

LEMMA CalmBut ==
    ASSUME NEW k, NEW k2, NEW F, ConnBut(k, k2, F), F \cap WriteFields = {}
    PROVE  Calm(k, k2)
  BY DEF Calm, ConnBut, ConnFields, WriteFields

LEMMA CalmRemains ==
    ASSUME NEW k, NEW k1, NEW k2, NEW F, ConnBut(k, k1, F), F \cap {"nwrite"} = {}, Remains(k1, k2)
    PROVE  Calm(k, k2)
  BY DEF Calm, ConnBut, ConnFields, Remains

LEMMA OnlyCalm ==
    ASSUME H1Types, NEW i \in Conns, NEW F, OnlyConn(i, F), F \cap WriteFields = {}
    PROVE  \A j \in Conns : Calm(conn[j], conn'[j])
<1>1. \A j \in Conns \ {i} : Calm(conn[j], conn'[j])
  BY DEF OnlyConn, Others, Calm
<1>2. Calm(conn[i], conn'[i])
  BY CalmBut DEF OnlyConn
<1> QED BY <1>1, <1>2

LEMMA SameMoves ==
    ASSUME NEW a, IsCaller(a), NEW b, NEW F, CallerBut(a, b, F), F \cap MoveFields = {}, Sound(a)
    PROVE  Moves(a, b) /\ Sound(b)
<1>1. b.pc = a.pc /\ b.hop = a.hop /\ b.method = a.method /\ b.conn = a.conn /\ b.start = a.start
      /\ b.werr = a.werr /\ b.err = a.err
  BY DEF CallerBut, CallerFields, MoveFields
<1>2. a.pc \in Before \/ a.pc \in Awaits \/ a.pc \in Past
  BY CallerFacts DEF Pcs, Before, Awaits, Past
<1> QED BY <1>1, <1>2 DEF Moves, Sound

LEMMA IdleMoves ==
    ASSUME NEW a, IsCaller(a), Sound(a)
    PROVE  Moves(a, a)
<1>1. a.pc \in Before \/ a.pc \in Awaits \/ a.pc \in Past
  BY CallerFacts DEF Pcs, Before, Awaits, Past
<1> QED BY <1>1 DEF Moves

LEMMA ReturnedMoves ==
    ASSUME NEW a, NEW b, NEW err, IsReturned(a, b, err)
    PROVE  Moves(a, b) /\ Sound(b)
  BY DEF IsReturned, Moves, Sound, Past

LEMMA FailMoves ==
    ASSUME H1Types, Holding, NEW c \in Callers, NEW err, NEW again \in BOOLEAN, Fail(c, caller, again, err),
           again => Retries(caller[c], [pc |-> "getconn"])
    PROVE  /\ AreCallers(caller') /\ reqCanceler' \in [Reqs -> {"none", "nothing", "dial", "conn"}]
           /\ \A d \in Callers : Moves(caller[d], caller'[d]) /\ Sound(caller'[d])
<1>1. AreCallers(caller) /\ Req(c) \in Reqs /\ \A d \in Callers : IsCaller(caller[d])
  BY TypeFacts DEF H1Types
<1>2. /\ AreCallers(caller') /\ Others(Callers, caller, caller', c)
      /\ IF again THEN IsSent(caller'[c], caller[c].hop, caller[c].method, caller[c].cancel, caller[c].asked)
         ELSE IsReturned(caller[c], caller'[c], err)
      /\ reqCanceler' = [reqCanceler EXCEPT ![Req(c)] = "none"]
  BY <1>1, FailFacts
<1>3. reqCanceler' \in [Reqs -> {"none", "nothing", "dial", "conn"}]
  BY <1>1, <1>2 DEF H1Types
<1>4. \A d \in Callers \ {c} : Moves(caller[d], caller'[d]) /\ Sound(caller'[d])
  BY <1>1, <1>2, IdleMoves DEF Others, Holding
<1>5. Moves(caller[c], caller'[c]) /\ Sound(caller'[c])
  <2>1. CASE again
    <3>1. caller'[c].pc = "getconn" /\ caller'[c].hop = caller[c].hop /\ caller'[c].method = caller[c].method
      BY <1>2, <2>1 DEF IsSent
    <3>2. Retries(caller[c], caller'[c])
      BY <2>1, <3>1 DEF Retries
    <3> QED BY <3>1, <3>2 DEF Moves, Sound
  <2>2. CASE ~again
    BY <1>2, <2>2, ReturnedMoves
  <2> QED BY <2>1, <2>2
<1> QED BY <1>2, <1>3, <1>4, <1>5

LEMMA FinishedMoves ==
    ASSUME H1Types, NEW K, NEW K2, NEW c \in Callers, Finished(K, K2, c), K[c].hop = caller[c].hop,
           K[c].method = caller[c].method
    PROVE  Moves(caller[c], K2[c]) /\ Sound(K2[c])
<1>1. CASE IsRedirect(K[c].res) /\ K[c].hop < h.redirects
  BY <1>1 DEF Finished, IsSent, Moves, Sound
<1>2. CASE ~(IsRedirect(K[c].res) /\ K[c].hop < h.redirects)
  BY <1>2 DEF Finished, IsReturned, Moves, Sound, Past
<1> QED BY <1>1, <1>2

LEMMA OnlyMoves ==
    ASSUME H1Types, Holding, NEW c \in Callers, NEW F, OnlyCaller(c, F), Moves(caller[c], caller'[c]), Sound(caller'[c])
    PROVE  \A d \in Callers : Moves(caller[d], caller'[d]) /\ Sound(caller'[d])
<1>1. \A d \in Callers : IsCaller(caller[d])
  BY TypeFacts
<1> QED BY <1>1, IdleMoves DEF OnlyCaller, Others, Holding

LEMMA StillMoves ==
    ASSUME H1Types, Holding
    PROVE  \A d \in Callers : Moves(caller[d], caller[d])
  BY TypeFacts, IdleMoves DEF Holding

LEMMA KindlyMoves ==
    ASSUME H1Types, Holding, NEW K, NEW i \in Conns, Kindly(caller, K, i)
    PROVE  \A d \in Callers : Moves(caller[d], K[d]) /\ Sound(K[d])
<1> SUFFICES ASSUME NEW d \in Callers PROVE Moves(caller[d], K[d]) /\ Sound(K[d])
  OBVIOUS
<1>1. i # None /\ IsCaller(caller[d])
  BY TypeFacts
<1>2. CASE K[d] = caller[d]
  BY <1>1, <1>2, IdleMoves DEF Holding
<1>3. CASE /\ caller[d].pc = "select" /\ CallerBut(caller[d], K[d], {"pc", "conn"})
           /\ K[d].pc = "start" /\ K[d].conn = i
  BY <1>1, <1>3 DEF Moves, Sound, Before, CallerBut, CallerFields
<1> QED BY <1>2, <1>3 DEF Kindly

CancelerTyped == reqCanceler' \in [Reqs -> {"none", "nothing", "dial", "conn"}]

LEMMA ShouldRetryBoolean ==
    ASSUME NEW i, NEW method, NEW err
    PROVE  ShouldRetry(i, method, err) \in BOOLEAN
  BY DEF ShouldRetry

(* A connection's step that leaves the callers alone.                      *)
LEMMA ConnSteady ==
    ASSUME H1Types, Holding, UNCHANGED <<h, caller, seen>>, pool' \in Pools, CancelerTyped, AreConns(conn'),
           \A j \in Conns : Calm(conn[j], conn'[j])
    PROVE  Steady
  BY StillMoves DEF Steady, Retyped, Holding, H1Types, CancelerTyped

(* A caller's step.                                                        *)
LEMMA CallerSteady ==
    ASSUME H1Types, Holding, UNCHANGED <<h, seen>>, pool' \in Pools, CancelerTyped, AreConns(conn'),
           \A j \in Conns : Calm(conn[j], conn'[j]), AreCallers(caller'),
           \A d \in Callers : Moves(caller[d], caller'[d]) /\ Sound(caller'[d])
    PROVE  Steady
  BY DEF Steady, Retyped, CancelerTyped

LEMMA CalmSame ==
    ASSUME H1Types, UNCHANGED conn
    PROVE  AreConns(conn') /\ \A j \in Conns : Calm(conn[j], conn'[j])
  BY DEF Calm, H1Types

LEMMA PeekSteady ==
    ASSUME H1Types, Holding, NEW i \in Conns, Peek(i)
    PROVE  Steady
<1>1. UNCHANGED <<h, caller, pool, reqCanceler, seen>> /\ OnlyConn(i, {"sawEOF", "peeked", "closed", "r"})
  BY PeekFacts
<1>2. \A j \in Conns : Calm(conn[j], conn'[j])
  BY <1>1, OnlyCalm DEF WriteFields
<1> QED BY <1>1, <1>2, ConnSteady DEF OnlyConn, H1Types, CancelerTyped

LEMMA ReadResponseSteady ==
    ASSUME H1Types, Holding, NEW i \in Conns, readResponse(i)
    PROVE  Steady
<1>1. /\ UNCHANGED <<h, caller, pool, seen>> /\ conn[i].reqch[1] \in Reqs
      /\ \/ OnlyConn(i, {"r", "res", "alive", "rc", "reqch", "down"})
         \/ OnlyConn(i, {"r", "res", "from", "alive", "rc", "reqch", "down", "expected", "sawEOF"})
      /\ \/ reqCanceler' = reqCanceler \/ reqCanceler' = [reqCanceler EXCEPT ![conn[i].reqch[1]] = "none"]
  BY ReadResponseFacts, Zenon
<1>2. \A j \in Conns : Calm(conn[j], conn'[j])
  BY <1>1, OnlyCalm DEF WriteFields
<1>3. CancelerTyped
  BY <1>1 DEF H1Types, CancelerTyped
<1>4. AreConns(conn')
  BY <1>1 DEF OnlyConn
<1> QED BY <1>1, <1>2, <1>3, <1>4, ConnSteady DEF H1Types

LEMMA ReadLoopEndsSteady ==
    ASSUME H1Types, Holding, NEW i \in Conns, readLoopEnds(i)
    PROVE  Steady
<1>1. /\ UNCHANGED <<h, caller, reqCanceler, seen>> /\ AreConns(conn') /\ Others(Conns, conn, conn', i)
      /\ pool' \in Pools
      /\ \E k : ConnBut(conn[i], k, {"closed", "r"}) /\ (Remains(k, conn'[i]) \/ conn'[i] = k)
  BY ReadLoopEndsFacts, Zenon
<1>2. Calm(conn[i], conn'[i])
  BY <1>1, CalmRemains, CalmBut DEF WriteFields
<1>3. \A j \in Conns : Calm(conn[j], conn'[j])
  BY <1>1, <1>2 DEF Others, Calm
<1> QED BY <1>1, <1>3, ConnSteady DEF H1Types, CancelerTyped

LEMMA WriteLoopEndsSteady ==
    ASSUME H1Types, Holding, NEW i \in Conns, writeLoopEnds(i)
    PROVE  Steady
<1>1. /\ UNCHANGED <<h, caller, pool, reqCanceler, seen>> /\ AreConns(conn') /\ Others(Conns, conn, conn', i)
      /\ \E k : ConnBut(conn[i], k, {"w"}) /\ k.w = "done" /\ (Remains(k, conn'[i]) \/ conn'[i] = k)
  BY WriteLoopEndsFacts, Zenon
<1>2. Calm(conn[i], conn'[i])
  BY <1>1 DEF Calm, Remains, ConnBut, ConnFields
<1>3. \A j \in Conns : Calm(conn[j], conn'[j])
  BY <1>1, <1>2 DEF Others, Calm
<1> QED BY <1>1, <1>3, ConnSteady DEF H1Types, CancelerTyped

LEMMA SurroundingsSteady ==
    ASSUME H1Types, Holding, NEW i \in Conns,
           \/ IdleTimerFires(i) \/ ServerAnswers(i) \/ ServerSendsBody(i) \/ ServerHangsUp(i)
           \/ closeConnIfStillIdle(i)
    PROVE  Steady
<1>1. /\ UNCHANGED <<h, caller, reqCanceler, seen>> /\ pool' \in Pools
      /\ \/ OnlyConn(i, {"fired"}) \/ OnlyConn(i, {"closed"}) \/ OnlyConn(i, {"up", "down", "owes", "eof"})
         \/ OnlyConn(i, {"down", "owes"}) \/ OnlyConn(i, {"eof"})
  BY IdleTimerFacts, StillIdleFacts, ServerAnswersFacts, ServerSendsFacts, HangsUpFacts, Zenon DEF H1Types
<1>2. \A j \in Conns : Calm(conn[j], conn'[j])
  BY <1>1, OnlyCalm DEF WriteFields
<1>3. AreConns(conn')
  BY <1>1 DEF OnlyConn
<1> QED BY <1>1, <1>2, <1>3, ConnSteady DEF H1Types, CancelerTyped

LEMMA CloseIdleSteady ==
    ASSUME H1Types, Holding, CloseIdleConnections
    PROVE  Steady
<1>1. /\ UNCHANGED <<h, reqCanceler, seen>> /\ AreConns(conn') /\ AreCallers(caller') /\ pool' \in Pools
      /\ \A c \in Callers : CallerBut(caller[c], caller'[c], {"live"})
      /\ \A i \in Conns : ConnBut(conn[i], conn'[i], {"closed"}) \/ conn'[i] = conn[i]
  BY CloseIdleFacts, Zenon
<1>2. \A i \in Conns : Calm(conn[i], conn'[i])
  BY <1>1, CalmBut DEF WriteFields, Calm
<1>3. \A d \in Callers : Moves(caller[d], caller'[d]) /\ Sound(caller'[d])
  BY <1>1, SameMoves, TypeFacts DEF Holding, MoveFields
<1> QED BY <1>1, <1>2, <1>3, CallerSteady DEF H1Types, CancelerTyped

LEMMA GetIdleSteady ==
    ASSUME H1Types, Holding, NEW c \in Callers, GetIdle(c)
    PROVE  Steady
<1>1. UNCHANGED <<h, seen>> /\ caller[c].pc = "getconn" /\ Req(c) \in Reqs /\ Sound(caller[c])
  BY GetIdleFacts, TypeFacts DEF Holding
<1>2. CASE \E p \in Conns : \E keep :
              /\ Takes(HostOf(caller[c].hop), p, pool', keep) /\ OnlyCaller(c, {"pc", "conn"})
              /\ caller'[c].pc = "start" /\ caller'[c].conn = p /\ conn' = conn
              /\ SetCanceler(Req(c), "nothing")
  <2>1. PICK p \in Conns : \E keep :
              /\ Takes(HostOf(caller[c].hop), p, pool', keep) /\ OnlyCaller(c, {"pc", "conn"})
              /\ caller'[c].pc = "start" /\ caller'[c].conn = p /\ conn' = conn
              /\ SetCanceler(Req(c), "nothing")
    BY <1>2
  <2>2. pool' \in Pools /\ AreCallers(caller')
    <3>1. PICK keep : Takes(HostOf(caller[c].hop), p, pool', keep)
      BY <2>1
    <3> QED BY <2>1, <3>1 DEF Takes, OnlyCaller
  <2>3. CancelerTyped
    BY <1>1, <2>1, CancelerFacts DEF CancelerTyped
  <2>4. p # None
    BY TypeFacts
  <2>5. Moves(caller[c], caller'[c]) /\ Sound(caller'[c])
    BY <1>1, <2>1, <2>4 DEF Moves, Sound, Before, OnlyCaller, CallerBut, CallerFields
  <2>6. \A d \in Callers : Moves(caller[d], caller'[d]) /\ Sound(caller'[d])
    BY <2>1, <2>5, OnlyMoves
  <2>7. AreConns(conn') /\ \A j \in Conns : Calm(conn[j], conn'[j])
    BY <2>1, CalmSame
  <2> QED BY <1>1, <2>2, <2>3, <2>6, <2>7, CallerSteady
<1>3. CASE \E i \in Conns :
              /\ Takes(HostOf(caller[c].hop), None, pool', 0) /\ OnlyCaller(c, {"pc"})
              /\ caller'[c].pc = "join" /\ SetCanceler(Req(c), "dial")
              /\ OnlyConn(i, {"dial", "by", "wanted", "key"})
  <2>1. PICK i \in Conns :
              /\ Takes(HostOf(caller[c].hop), None, pool', 0) /\ OnlyCaller(c, {"pc"})
              /\ caller'[c].pc = "join" /\ SetCanceler(Req(c), "dial")
              /\ OnlyConn(i, {"dial", "by", "wanted", "key"})
    BY <1>3
  <2>2. pool' \in Pools /\ AreCallers(caller') /\ AreConns(conn')
    BY <2>1 DEF Takes, OnlyCaller, OnlyConn
  <2>3. CancelerTyped
    BY <1>1, <2>1, CancelerFacts DEF CancelerTyped
  <2>5. Moves(caller[c], caller'[c]) /\ Sound(caller'[c])
    BY <1>1, <2>1 DEF Moves, Sound, Before, OnlyCaller, CallerBut, CallerFields
  <2>6. \A d \in Callers : Moves(caller[d], caller'[d]) /\ Sound(caller'[d])
    BY <2>1, <2>5, OnlyMoves
  <2>7. \A j \in Conns : Calm(conn[j], conn'[j])
    BY <2>1, OnlyCalm DEF WriteFields
  <2> QED BY <1>1, <2>2, <2>3, <2>6, <2>7, CallerSteady
<1> QED BY <1>2, <1>3, GetIdleFacts, Zenon

LEMMA JoinSteady ==
    ASSUME H1Types, Holding, NEW c \in Callers, getIdleConnCh(c)
    PROVE  Steady
<1>1. /\ UNCHANGED <<h, conn, reqCanceler, seen>> /\ caller[c].pc = "join"
      /\ OnlyCaller(c, {"pc", "live"}) /\ caller'[c].pc = "select" /\ pool' \in Pools
  BY JoinFacts
<1>2. Moves(caller[c], caller'[c]) /\ Sound(caller'[c])
  BY <1>1 DEF Moves, Sound, Before, OnlyCaller, CallerBut, CallerFields
<1>3. \A d \in Callers : Moves(caller[d], caller'[d]) /\ Sound(caller'[d])
  BY <1>1, <1>2, OnlyMoves
<1>4. AreConns(conn') /\ \A j \in Conns : Calm(conn[j], conn'[j])
  BY <1>1, CalmSame
<1>5. AreCallers(caller') /\ CancelerTyped
  BY <1>1 DEF OnlyCaller, H1Types, CancelerTyped
<1> QED BY <1>1, <1>3, <1>4, <1>5, CallerSteady

LEMMA FailSteady ==
    ASSUME H1Types, Holding, NEW c \in Callers, NEW again \in BOOLEAN, NEW err, Fail(c, caller, again, err),
           again => Retries(caller[c], [pc |-> "getconn"]),
           UNCHANGED <<h, seen>>, pool' \in Pools, AreConns(conn'), \A j \in Conns : Calm(conn[j], conn'[j])
    PROVE  Steady
<1>1. /\ AreCallers(caller') /\ CancelerTyped
      /\ \A d \in Callers : Moves(caller[d], caller'[d]) /\ Sound(caller'[d])
  BY FailMoves DEF CancelerTyped
<1> QED BY <1>1, CallerSteady

LEMMA DialAnswersSteady ==
    ASSUME H1Types, Holding, NEW c \in Callers, NEW i \in Conns, DialAnswers(c, i)
    PROVE  Steady
<1>1. /\ UNCHANGED <<h, pool, seen>> /\ caller[c].pc = "select" /\ OnlyConn(i, {"dial", "wanted"})
      /\ \/ /\ OnlyCaller(c, {"pc", "conn"}) /\ UNCHANGED reqCanceler
            /\ caller'[c].pc = "start" /\ caller'[c].conn = i
         \/ Fail(c, caller, FALSE, IF caller[c].cancel \/ caller[c].cancelc THEN "canceled" ELSE "dial error")
  BY DialAnswersFacts, Zenon
<1>2. AreConns(conn') /\ \A j \in Conns : Calm(conn[j], conn'[j])
  BY <1>1, OnlyCalm DEF WriteFields, OnlyConn
<1>3. pool' \in Pools
  BY <1>1 DEF H1Types
<1>4. CASE /\ OnlyCaller(c, {"pc", "conn"}) /\ UNCHANGED reqCanceler
           /\ caller'[c].pc = "start" /\ caller'[c].conn = i
  <2>1. i # None
    BY TypeFacts
  <2>2. Moves(caller[c], caller'[c]) /\ Sound(caller'[c])
    BY <1>1, <1>4, <2>1 DEF Moves, Sound, Before, OnlyCaller, CallerBut, CallerFields
  <2>3. \A d \in Callers : Moves(caller[d], caller'[d]) /\ Sound(caller'[d])
    BY <1>4, <2>2, OnlyMoves
  <2>4. AreCallers(caller') /\ CancelerTyped
    BY <1>4 DEF OnlyCaller, H1Types, CancelerTyped
  <2> QED BY <1>1, <1>2, <1>3, <2>3, <2>4, CallerSteady
<1>5. CASE Fail(c, caller, FALSE, IF caller[c].cancel \/ caller[c].cancelc THEN "canceled" ELSE "dial error")
  BY <1>1, <1>2, <1>3, <1>5, FailSteady, Zenon
<1> QED BY <1>1, <1>4, <1>5

LEMMA DialCanceledSteady ==
    ASSUME H1Types, Holding, NEW c \in Callers, DialCanceled(c)
    PROVE  Steady
<1>1. /\ UNCHANGED <<h, pool, seen>> /\ AreConns(conn') /\ (\A j \in Conns : ConnBut(conn[j], conn'[j], {"wanted"}))
      /\ Fail(c, caller, FALSE, "canceled")
  BY DialCanceledFacts
<1>2. \A j \in Conns : Calm(conn[j], conn'[j])
  BY <1>1, CalmBut DEF WriteFields
<1>3. pool' \in Pools
  BY <1>1 DEF H1Types
<1> QED BY <1>1, <1>2, <1>3, FailSteady, Zenon

LEMMA TameCalm ==
    ASSUME NEW C, NEW D, Tame(C, D), NEW j \in Conns, NEW k, Calm(k, C[j])
    PROVE  Calm(k, D[j])
<1>1. ConnBut(C[j], D[j], {"reused", "closed", "wanted"})
  BY DEF Tame
<1> QED BY <1>1 DEF ConnBut, ConnFields, Calm

LEMMA PendingDialSteady ==
    ASSUME H1Types, Holding, NEW i \in Conns, handlePendingDial(i)
    PROVE  Steady
<1>1. UNCHANGED <<h, reqCanceler, seen>>
  BY PendingDialFacts
<1>2. CASE OnlyConn(i, {"dial", "wanted"}) /\ UNCHANGED <<caller, pool>>
  <2>1. AreConns(conn') /\ \A j \in Conns : Calm(conn[j], conn'[j])
    BY <1>2, OnlyCalm DEF WriteFields, OnlyConn
  <2> QED BY <1>1, <1>2, <2>1, ConnSteady DEF H1Types, CancelerTyped
<1>3. CASE \E C : /\ AreConns(C) /\ Others(Conns, conn, C, i) /\ ConnBut(conn[i], C[i], {"dial", "wanted"})
                  /\ GivesBack(C, i, caller')
  <2>1. PICK C : /\ AreConns(C) /\ Others(Conns, conn, C, i) /\ ConnBut(conn[i], C[i], {"dial", "wanted"})
                 /\ GivesBack(C, i, caller')
    BY <1>3
  <2>2. \A j \in Conns : Calm(conn[j], C[j])
    BY <2>1, CalmBut DEF WriteFields, Others, Calm
  <2>3. /\ AreConns(conn') /\ Tame(C, conn') /\ pool' \in Pools
        /\ AreCallers(caller') /\ Kindly(caller, caller', i)
    BY <2>1, GivesBackFacts
  <2>4. \A j \in Conns : Calm(conn[j], conn'[j])
    BY <2>2, <2>3, TameCalm
  <2>5. \A d \in Callers : Moves(caller[d], caller'[d]) /\ Sound(caller'[d])
    BY <2>3, KindlyMoves
  <2>6. CancelerTyped
    BY <1>1 DEF H1Types, CancelerTyped
  <2> QED BY <1>1, <2>3, <2>4, <2>5, <2>6, CallerSteady
<1> QED BY <1>2, <1>3, PendingDialFacts, Zenon

LEMMA RefusedSteady ==
    ASSUME H1Types, Holding, NEW c \in Callers, caller[c].pc = "start", NEW i \in Conns, i = caller[c].conn,
           UNCHANGED <<h, seen>>, NEW K, GivesBack(conn, i, K), Fail(c, K, FALSE, "canceled")
    PROVE  Steady
<1>1. /\ AreConns(conn') /\ Tame(conn, conn') /\ pool' \in Pools /\ AreCallers(K) /\ Kindly(caller, K, i)
  BY GivesBackFacts DEF H1Types
<1>2. \A j \in Conns : Calm(conn[j], conn'[j])
  BY <1>1, TameCalm DEF Calm
<1>3. K[c] = caller[c]
  BY <1>1 DEF Kindly
<1>4. /\ AreCallers(caller') /\ Others(Callers, K, caller', c)
      /\ IsReturned(caller[c], caller'[c], "canceled")
      /\ reqCanceler' = [reqCanceler EXCEPT ![Req(c)] = "none"]
  <2>1. FALSE \in BOOLEAN
    OBVIOUS
  <2> QED BY <1>1, <1>3, <2>1, FailFacts, Zenon
<1>5. CancelerTyped
  BY <1>4, TypeFacts DEF H1Types, CancelerTyped
<1>6. \A d \in Callers : Moves(caller[d], K[d]) /\ Sound(K[d])
  BY <1>1, KindlyMoves
<1>7. \A d \in Callers : Moves(caller[d], caller'[d]) /\ Sound(caller'[d])
  BY <1>4, <1>6, ReturnedMoves DEF Others
<1> QED BY <1>1, <1>2, <1>4, <1>5, <1>7, CallerSteady

LEMMA RetriesFacts ==
    ASSUME NEW c \in Callers, NEW i, NEW err, i = caller[c].conn, caller[c].pc \in Awaits,
           ShouldRetry(i, caller[c].method, err),
           \/ err \in {"canceled", "closed idle", "read error", "bad response", "broken"}
           \/ err = caller[c].werr \/ (conn[i].w = "done" /\ conn[i].nwrite = caller[c].start)
    PROVE  Retries(caller[c], [pc |-> "getconn"])
  BY DEF Retries, ShouldRetry

LEMMA WriteFailedSteady ==
    ASSUME H1Types, Holding, NEW c \in Callers, WriteFailed(c)
    PROVE  Steady
<1> DEFINE i == caller[c].conn
           err == IF conn[i].canceled THEN "canceled" ELSE caller[c].werr
           again == ShouldRetry(i, caller[c].method, err)
<1>1. /\ UNCHANGED <<h, pool, seen>> /\ caller[c].pc = "wait" /\ i \in Conns
      /\ OnlyConn(i, {"closed"}) /\ Fail(c, caller, again, err)
  BY WriteFailedFacts, Zenon
<1>2. again \in BOOLEAN /\ (err = "canceled" \/ err = caller[c].werr)
  BY ShouldRetryBoolean, Zenon
<1> HIDE DEF err
<1>3. again => Retries(caller[c], [pc |-> "getconn"])
  <2>1. caller[c].pc \in Awaits
    BY <1>1 DEF Awaits
  <2>2. \/ err \in {"canceled", "closed idle", "read error", "bad response", "broken"}
        \/ err = caller[c].werr \/ (conn[i].w = "done" /\ conn[i].nwrite = caller[c].start)
    <3>1. err = "canceled" \/ err = caller[c].werr
      BY <1>2, Zenon
    <3> QED BY <3>1
  <2> QED BY <2>1, <2>2, RetriesFacts, Zenon
<1>4. AreConns(conn') /\ \A j \in Conns : Calm(conn[j], conn'[j])
  BY <1>1, OnlyCalm DEF WriteFields, OnlyConn
<1>5. pool' \in Pools
  BY <1>1 DEF H1Types
<1> HIDE DEF again, i
<1> QED BY <1>1, <1>2, <1>3, <1>4, <1>5, FailSteady, Zenon

LEMMA MappedMoves ==
    ASSUME H1Types, Holding, NEW c \in Callers, caller[c].pc = "wait", OnlyCaller(c, {"pc", "err"}),
           caller'[c].pc = "map", caller'[c].err \in {"broken", "bad response"}
    PROVE  \A d \in Callers : Moves(caller[d], caller'[d]) /\ Sound(caller'[d])
<1>1. Moves(caller[c], caller'[c]) /\ Sound(caller'[c])
  BY DEF Moves, Sound, Awaits, OnlyCaller, CallerBut, CallerFields, Holding
<1> QED BY <1>1, OnlyMoves

LEMMA ConnClosedSteady ==
    ASSUME H1Types, Holding, NEW c \in Callers, ConnClosed(c)
    PROVE  Steady
<1> DEFINE i == caller[c].conn
           err == IF conn[i].canceled THEN "canceled" ELSE conn[i].closed
           again == ShouldRetry(i, caller[c].method, err)
<1>1. /\ UNCHANGED <<h, conn, pool, seen>> /\ caller[c].pc = "wait" /\ i \in Conns
      /\ \/ /\ err \in {"canceled", "closed idle", "read error"}
            /\ Fail(c, caller, again, err)
         \/ /\ UNCHANGED reqCanceler
            /\ OnlyCaller(c, {"pc", "err"}) /\ caller'[c].pc = "map" /\ caller'[c].err = "broken"
  BY ConnClosedFacts, Zenon
<1>2. again \in BOOLEAN
  BY ShouldRetryBoolean, Zenon
<1> HIDE DEF err
<1>3. AreConns(conn') /\ \A j \in Conns : Calm(conn[j], conn'[j])
  BY <1>1, CalmSame
<1>4. pool' \in Pools
  BY <1>1 DEF H1Types
<1>5. CASE err \in {"canceled", "closed idle", "read error"} /\ Fail(c, caller, again, err)
  <2>1. again => Retries(caller[c], [pc |-> "getconn"])
    BY <1>1, <1>5, RetriesFacts DEF Awaits
  <2> HIDE DEF again, i
  <2> QED BY <1>1, <1>2, <1>3, <1>4, <1>5, <2>1, FailSteady, Zenon
<1>6. CASE UNCHANGED reqCanceler /\ OnlyCaller(c, {"pc", "err"}) /\ caller'[c].pc = "map" /\ caller'[c].err = "broken"
  <2>1. \A d \in Callers : Moves(caller[d], caller'[d]) /\ Sound(caller'[d])
    BY <1>1, <1>6, MappedMoves
  <2>2. AreCallers(caller') /\ CancelerTyped
    BY <1>6 DEF OnlyCaller, H1Types, CancelerTyped
  <2> QED BY <1>1, <1>3, <1>4, <2>1, <2>2, CallerSteady
<1> QED BY <1>1, <1>5, <1>6

LEMMA MapErrorSteady ==
    ASSUME H1Types, Holding, NEW c \in Callers, MapError(c)
    PROVE  Steady
<1> DEFINE i == caller[c].conn
           err == IF conn[i].nwrite = caller[c].start /\ outgoingLength(caller[c].method) = 0
                  THEN "nothing written" ELSE caller[c].err
           again == ShouldRetry(i, caller[c].method, err)
<1>1. /\ UNCHANGED <<h, conn, pool, seen>> /\ caller[c].pc = "map" /\ i \in Conns /\ conn[i].w = "done"
      /\ Fail(c, caller, again, err)
  BY MapErrorFacts, Zenon
<1>2. again \in BOOLEAN
  BY ShouldRetryBoolean, Zenon
<1>3. AreConns(conn') /\ \A j \in Conns : Calm(conn[j], conn'[j])
  BY <1>1, CalmSame
<1>4. pool' \in Pools
  BY <1>1 DEF H1Types
<1>5. conn[i].nwrite = caller[c].start \/ err = caller[c].err
  BY Zenon
<1>6. caller[c].err \in {"broken", "bad response"}
  BY <1>1 DEF Holding, Sound
<1> HIDE DEF err
<1>7. again => Retries(caller[c], [pc |-> "getconn"])
  BY <1>1, <1>5, <1>6, RetriesFacts DEF Awaits
<1> HIDE DEF again, i
<1> QED BY <1>1, <1>2, <1>3, <1>4, <1>7, FailSteady, Zenon

LEMMA TimerSteady ==
    ASSUME H1Types, Holding, NEW c \in Callers, TimerFires(c)
    PROVE  Steady
<1>1. UNCHANGED <<h, conn, pool, reqCanceler, seen>> /\ OnlyCaller(c, {"cancel"})
  BY TimerFacts
<1>2. AreConns(conn') /\ \A j \in Conns : Calm(conn[j], conn'[j])
  BY <1>1, CalmSame
<1>3. Moves(caller[c], caller'[c]) /\ Sound(caller'[c])
  BY <1>1, SameMoves, TypeFacts DEF MoveFields, OnlyCaller, Holding
<1>4. \A d \in Callers : Moves(caller[d], caller'[d]) /\ Sound(caller'[d])
  BY <1>1, <1>3, OnlyMoves
<1>5. AreCallers(caller') /\ CancelerTyped /\ pool' \in Pools
  BY <1>1 DEF OnlyCaller, H1Types, CancelerTyped
<1> QED BY <1>1, <1>2, <1>4, <1>5, CallerSteady

LEMMA CancelsSteady ==
    ASSUME H1Types, Holding, NEW c \in Callers, NEW C, NEW K, NEW F, UNCHANGED <<h, pool, seen>>,
           \A j \in Conns : Calm(conn[j], C[j]),
           Others(Callers, caller, K, c), CallerBut(caller[c], K[c], F), F \cap MoveFields = {}, Cancels(c, C, K)
    PROVE  Steady
<1>1. AreConns(conn') /\ AreCallers(caller')
  BY DEF Cancels
<1>2. CancelerTyped
  BY TypeFacts, CancelerFacts DEF Cancels, CancelerTyped
<1>3. \A j \in Conns : Calm(conn[j], conn'[j])
  <2> SUFFICES ASSUME NEW j \in Conns PROVE Calm(conn[j], conn'[j])
    OBVIOUS
  <2>1. conn' = C \/ conn'[j] = C[j] \/ ConnBut(C[j], conn'[j], {"closed", "canceled"})
    BY Zenon DEF Cancels, Others
  <2> QED BY <2>1 DEF Calm, ConnBut, ConnFields
<1>4. \A d \in Callers : Moves(caller[d], caller'[d]) /\ Sound(caller'[d])
  <2>1. CallerBut(caller[c], caller'[c], F \cup {"cancelc"}) /\ \A d \in Callers \ {c} : caller'[d] = caller[d]
    BY DEF Cancels, Others, CallerBut
  <2>2. (F \cup {"cancelc"}) \cap MoveFields = {}
    BY DEF MoveFields
  <2>3. Moves(caller[c], caller'[c]) /\ Sound(caller'[c])
    BY <2>1, <2>2, SameMoves, TypeFacts DEF Holding
  <2>4. \A d \in Callers \ {c} : Moves(caller[d], caller'[d]) /\ Sound(caller'[d])
    BY <2>1, IdleMoves, TypeFacts DEF Holding
  <2> QED BY <2>3, <2>4
<1> QED BY <1>1, <1>2, <1>3, <1>4, CallerSteady DEF H1Types

LEMMA CancelingSteady ==
    ASSUME H1Types, Holding, NEW c \in Callers, CancelNoticed(c) \/ CancelRequest(c)
    PROVE  Steady
<1>1. \A j \in Conns : Calm(conn[j], conn[j])
  BY DEF Calm
<1>2. CASE CancelNoticed(c)
  <2>1. UNCHANGED <<h, pool, seen>>
    BY <1>2, CancelNoticedFacts
  <2>2. PICK K : /\ AreCallers(K) /\ Others(Callers, caller, K, c) /\ CallerBut(caller[c], K[c], {"told"})
                 /\ Cancels(c, conn, K)
    BY <1>2, CancelNoticedFacts
  <2>3. {"told"} \cap MoveFields = {}
    BY DEF MoveFields
  <2> QED BY <1>1, <2>1, <2>2, <2>3, CancelsSteady
<1>3. CASE CancelRequest(c)
  <2>1. UNCHANGED <<h, pool, seen>>
    BY <1>3, CancelRequestFacts
  <2>2. PICK K : /\ AreCallers(K) /\ Others(Callers, caller, K, c) /\ CallerBut(caller[c], K[c], {"asked"})
                 /\ Cancels(c, conn, K)
    BY <1>3, CancelRequestFacts
  <2>3. {"asked"} \cap MoveFields = {}
    BY DEF MoveFields
  <2> QED BY <1>1, <2>1, <2>2, <2>3, CancelsSteady
<1> QED BY <1>2, <1>3

LEMMA FinishSteady ==
    ASSUME H1Types, Holding, NEW c \in Callers, NEW K, Others(Callers, caller, K, c), K[c].hop = caller[c].hop,
           K[c].method = caller[c].method, Finished(K, caller', c),
           UNCHANGED <<h, seen>>, pool' \in Pools, CancelerTyped, AreConns(conn'),
           \A j \in Conns : Calm(conn[j], conn'[j])
    PROVE  Steady
<1>1. AreCallers(caller') /\ \A d \in Callers \ {c} : caller'[d] = caller[d]
  BY DEF Finished, Others
<1>2. Moves(caller[c], caller'[c]) /\ Sound(caller'[c])
  BY FinishedMoves
<1>3. \A d \in Callers \ {c} : Moves(caller[d], caller'[d]) /\ Sound(caller'[d])
  BY <1>1, IdleMoves, TypeFacts DEF Holding
<1>4. \A d \in Callers : Moves(caller[d], caller'[d]) /\ Sound(caller'[d])
  BY <1>2, <1>3
<1> QED BY <1>1, <1>4, CallerSteady

LEMMA BodySteady ==
    ASSUME H1Types, Holding, NEW c \in Callers, CloseBody(c) \/ BodyReleased(c)
    PROVE  Steady
<1>1. /\ UNCHANGED <<h, pool, reqCanceler, seen>> /\ caller[c].conn \in Conns /\ Finished(caller, caller', c)
      /\ UNCHANGED conn \/ OnlyConn(caller[c].conn, {"bodyRead"})
  BY CloseBodyFacts, BodyReleasedFacts, Zenon
<1>2. AreConns(conn') /\ \A j \in Conns : Calm(conn[j], conn'[j])
  BY <1>1, CalmSame, OnlyCalm DEF WriteFields, OnlyConn
<1>3. pool' \in Pools /\ CancelerTyped /\ Others(Callers, caller, caller, c)
  BY <1>1 DEF H1Types, CancelerTyped, Others, AreCallers
<1> QED BY <1>1, <1>2, <1>3, FinishSteady

LEMMA ReadBodySteady ==
    ASSUME H1Types, Holding, NEW c \in Callers, ReadBody(c)
    PROVE  Steady
<1> DEFINE i == caller[c].conn
<1>1. UNCHANGED <<h, pool, reqCanceler, seen>> /\ caller[c].pc = "body" /\ i \in Conns /\ Sound(caller[c])
  BY ReadBodyFacts DEF Holding
<1>2. pool' \in Pools /\ CancelerTyped
  BY <1>1 DEF H1Types, CancelerTyped
<1>3. CASE OnlyConn(i, {"down", "bodyRead"}) /\ OnlyCaller(c, {"pc", "got"}) /\ caller'[c].pc = "eof"
  <2>1. AreConns(conn') /\ AreCallers(caller') /\ \A j \in Conns : Calm(conn[j], conn'[j])
    BY <1>1, <1>3, OnlyCalm DEF WriteFields, OnlyConn, OnlyCaller
  <2>2. Moves(caller[c], caller'[c]) /\ Sound(caller'[c])
    BY <1>1, <1>3 DEF Moves, Sound, Past, OnlyCaller, CallerBut, CallerFields
  <2>3. \A d \in Callers : Moves(caller[d], caller'[d]) /\ Sound(caller'[d])
    BY <1>3, <2>2, OnlyMoves
  <2> QED BY <1>1, <1>2, <2>1, <2>3, CallerSteady
<1>4. CASE /\ OnlyConn(i, {"sawEOF", "bodyRead"})
           /\ \E K : /\ AreCallers(K) /\ Others(Callers, caller, K, c) /\ CallerBut(caller[c], K[c], {"err"})
                     /\ Finished(K, caller', c)
  <2>1. AreConns(conn') /\ \A j \in Conns : Calm(conn[j], conn'[j])
    BY <1>1, <1>4, OnlyCalm DEF WriteFields, OnlyConn
  <2>2. PICK K : /\ AreCallers(K) /\ Others(Callers, caller, K, c) /\ CallerBut(caller[c], K[c], {"err"})
                 /\ Finished(K, caller', c)
    BY <1>4
  <2>3. K[c].hop = caller[c].hop /\ K[c].method = caller[c].method
    BY <2>2 DEF CallerBut, CallerFields
  <2> QED BY <1>1, <1>2, <2>1, <2>2, <2>3, FinishSteady
<1> QED BY <1>3, <1>4, ReadBodyFacts, Zenon

LEMMA AwaitBodySteady ==
    ASSUME H1Types, Holding, NEW i \in Conns, AwaitBody(i)
    PROVE  Steady
<1>1. UNCHANGED <<h, pool, seen>>
  BY AwaitBodyFacts, Zenon
<1>2. CASE OnlyConn(i, {"r", "alive", "bodyRead"}) /\ SetCanceler(conn[i].rc, "none") /\ UNCHANGED caller
  <2>1. AreConns(conn') /\ \A j \in Conns : Calm(conn[j], conn'[j])
    BY <1>2, OnlyCalm DEF WriteFields, OnlyConn
  <2>2. CancelerTyped
    BY <1>2 DEF SetCanceler, CancelerTyped, H1Types
  <2> QED BY <1>1, <1>2, <2>1, <2>2, ConnSteady DEF H1Types
<1>3. CASE \E c \in Callers : \E C :
             /\ Others(Conns, conn, C, i) /\ ConnBut(conn[i], C[i], {"r"}) /\ Cancels(c, C, caller)
  <2>0. PICK c \in Callers : \E C :
             /\ Others(Conns, conn, C, i) /\ ConnBut(conn[i], C[i], {"r"}) /\ Cancels(c, C, caller)
    BY <1>3
  <2>1. PICK C :
             /\ Others(Conns, conn, C, i) /\ ConnBut(conn[i], C[i], {"r"}) /\ Cancels(c, C, caller)
    BY <2>0
  <2>2. \A j \in Conns : Calm(conn[j], C[j])
    BY <2>1, CalmBut DEF WriteFields, Others, Calm
  <2>3. Others(Callers, caller, caller, c) /\ CallerBut(caller[c], caller[c], {})
    BY DEF Others, CallerBut, H1Types, AreCallers, IsCaller
  <2> QED BY <1>1, <2>1, <2>2, <2>3, CancelsSteady
<1>4. CASE OnlyConn(i, {"r"}) /\ UNCHANGED <<caller, reqCanceler>>
  <2>1. AreConns(conn') /\ \A j \in Conns : Calm(conn[j], conn'[j])
    BY <1>4, OnlyCalm DEF WriteFields, OnlyConn
  <2> QED BY <1>1, <1>4, <2>1, ConnSteady DEF H1Types, CancelerTyped
<1> QED BY <1>2, <1>3, <1>4, AwaitBodyFacts, Zenon

LEMMA AnswersSteady ==
    ASSUME H1Types, Holding, NEW c \in Callers, NEW i \in Conns, NEW res, NEW from, caller[c].pc = "wait",
           Answers(caller', c, i, res, from), UNCHANGED <<h, pool, reqCanceler, seen>>, AreConns(conn'),
           \A j \in Conns : Calm(conn[j], conn'[j])
    PROVE  Steady
<1>1. AreCallers(caller') /\ Others(Callers, caller, caller', c) /\ i # None /\ Sound(caller[c])
  BY TypeFacts DEF Answers, Holding
<1>2. pool' \in Pools /\ CancelerTyped
  BY DEF H1Types, CancelerTyped
<1>3. \A d \in Callers \ {c} : Moves(caller[d], caller'[d]) /\ Sound(caller'[d])
  BY <1>1, IdleMoves, TypeFacts DEF Others, Holding
<1>4. CASE CallerBut(caller[c], caller'[c], {"got", "pc", "conn", "err"}) /\ caller'[c].pc = "done"
  <2>1. Moves(caller[c], caller'[c]) /\ Sound(caller'[c])
    BY <1>4 DEF Moves, Sound, Past, CallerBut, CallerFields
  <2>2. \A d \in Callers : Moves(caller[d], caller'[d]) /\ Sound(caller'[d])
    BY <1>3, <2>1
  <2> QED BY <1>1, <1>2, <2>2, CallerSteady
<1>5. CASE CallerBut(caller[c], caller'[c], {"got", "pc", "res"}) /\ caller'[c].pc = "body"
  <2>1. Moves(caller[c], caller'[c]) /\ Sound(caller'[c])
    BY <1>1, <1>5 DEF Moves, Sound, Past, CallerBut, CallerFields
  <2>2. \A d \in Callers : Moves(caller[d], caller'[d]) /\ Sound(caller'[d])
    BY <1>3, <2>1
  <2> QED BY <1>1, <1>2, <2>2, CallerSteady
<1>6. CASE \E K : /\ AreCallers(K) /\ Others(Callers, caller, K, c) /\ CallerBut(caller[c], K[c], {"got"})
                  /\ Finished(K, caller', c)
  <2>1. PICK K : /\ AreCallers(K) /\ Others(Callers, caller, K, c) /\ CallerBut(caller[c], K[c], {"got"})
                 /\ Finished(K, caller', c)
    BY <1>6
  <2>2. K[c].hop = caller[c].hop /\ K[c].method = caller[c].method
    BY <2>1 DEF CallerBut, CallerFields
  <2> QED BY <1>2, <2>1, <2>2, FinishSteady
<1> QED BY <1>4, <1>5, <1>6, Zenon DEF Answers

LEMMA DeliverSteady ==
    ASSUME H1Types, Holding, NEW i \in Conns, Deliver(i)
    PROVE  Steady
<1> DEFINE k == conn[i]
           err == IF k.canceled THEN "canceled" ELSE k.res
<1>1. UNCHANGED <<h, pool, seen>> /\ OnlyConn(i, {"r"})
  BY DeliverFacts, Zenon
<1>2. AreConns(conn') /\ \A j \in Conns : Calm(conn[j], conn'[j])
  BY <1>1, OnlyCalm DEF WriteFields, OnlyConn
<1>3. pool' \in Pools
  BY <1>1 DEF H1Types
<1>4. CASE UNCHANGED <<caller, reqCanceler>>
  BY <1>1, <1>2, <1>3, <1>4, ConnSteady DEF H1Types, CancelerTyped
<1>5. CASE \E c \in Callers :
             /\ caller[c].conn = i /\ caller[c].pc = "wait"
             /\ \/ UNCHANGED reqCanceler /\ Answers(caller', c, i, k.res, k.from)
                \/ /\ k.res \in {"read error", "bad response"}
                   /\ \/ /\ UNCHANGED reqCanceler /\ OnlyCaller(c, {"pc", "err"}) /\ caller'[c].pc = "map"
                         /\ caller'[c].err = "bad response"
                      \/ Fail(c, caller, ShouldRetry(i, caller[c].method, err), err)
  <2>1. PICK c \in Callers :
             /\ caller[c].conn = i /\ caller[c].pc = "wait"
             /\ \/ UNCHANGED reqCanceler /\ Answers(caller', c, i, k.res, k.from)
                \/ /\ k.res \in {"read error", "bad response"}
                   /\ \/ /\ UNCHANGED reqCanceler /\ OnlyCaller(c, {"pc", "err"}) /\ caller'[c].pc = "map"
                         /\ caller'[c].err = "bad response"
                      \/ Fail(c, caller, ShouldRetry(i, caller[c].method, err), err)
    BY <1>5
  <2>2. CASE UNCHANGED reqCanceler /\ Answers(caller', c, i, k.res, k.from)
    BY <1>1, <1>2, <2>1, <2>2, AnswersSteady
  <2>3. CASE /\ UNCHANGED reqCanceler /\ OnlyCaller(c, {"pc", "err"}) /\ caller'[c].pc = "map"
             /\ caller'[c].err = "bad response"
    <3>1. \A d \in Callers : Moves(caller[d], caller'[d]) /\ Sound(caller'[d])
      BY <2>1, <2>3, MappedMoves
    <3>2. AreCallers(caller') /\ CancelerTyped
      BY <2>3 DEF OnlyCaller, H1Types, CancelerTyped
    <3> QED BY <1>1, <1>2, <1>3, <3>1, <3>2, CallerSteady
  <2>4. CASE /\ k.res \in {"read error", "bad response"}
             /\ Fail(c, caller, ShouldRetry(i, caller[c].method, err), err)
    <3>1. err = "canceled" \/ err = k.res
      BY Zenon
    <3> HIDE DEF err
    <3>2. err \in {"canceled", "closed idle", "read error", "bad response", "broken"}
      BY <2>4, <3>1
    <3>3. ShouldRetry(i, caller[c].method, err) => Retries(caller[c], [pc |-> "getconn"])
      BY <2>1, <3>2, RetriesFacts DEF Awaits
    <3> DEFINE again == ShouldRetry(i, caller[c].method, err)
    <3>4. again \in BOOLEAN /\ (again => Retries(caller[c], [pc |-> "getconn"])) /\ Fail(c, caller, again, err)
      BY <2>4, <3>3, ShouldRetryBoolean, Zenon
    <3> HIDE DEF again
    <3> QED BY <1>1, <1>2, <1>3, <3>4, FailSteady, Zenon
  <2> QED BY <2>1, <2>2, <2>3, <2>4
<1> QED BY <1>4, <1>5, DeliverFacts, Zenon

LEMMA ReleasedMoves ==
    ASSUME H1Types, Holding, NEW i \in Conns, NEW K, Released(i, K)
    PROVE  /\ AreCallers(K) /\ \A d \in Callers : Moves(caller[d], K[d]) /\ Sound(K[d])
           /\ \A d \in Callers : caller[d].pc = "select" => K[d] = caller[d]
<1>1. CASE K = caller
  BY <1>1, StillMoves DEF Holding, H1Types
<1>2. CASE \E c \in Callers : Ends(c, i) /\ Finished(caller, K, c)
  <2>1. PICK c \in Callers : Ends(c, i) /\ Finished(caller, K, c)
    BY <1>2
  <2>2. Moves(caller[c], K[c]) /\ Sound(K[c])
    BY <2>1, FinishedMoves
  <2>3. AreCallers(K) /\ (\A d \in Callers \ {c} : K[d] = caller[d]) /\ caller[c].pc = "eof"
    BY <2>1 DEF Finished, Others, Ends
  <2>4. \A d \in Callers \ {c} : Moves(caller[d], K[d]) /\ Sound(K[d])
    BY <2>3, StillMoves DEF Holding
  <2> QED BY <2>2, <2>3, <2>4
<1> QED BY <1>1, <1>2 DEF Released

LEMMA PutTame ==
    ASSUME NEW C, AreConns(C), NEW P \in Pools, NEW i \in Conns, NEW p, AreConns(p.conn), p.pool \in Pools,
           Refused(C, P, i, p) \/ GivenOn(C, P, i, p) \/ Listed(C, P, i, p) \/ Evicts(C, P, i, p)
    PROVE  /\ Tame(C, p.conn)
           /\ p.to = None \/ (p.to \in Callers /\ caller[p.to].pc = "select")
<1>1. CASE Refused(C, P, i, p)
  <2>1. PICK D : D = p.conn
    OBVIOUS
  <2>2. AreConns(D) /\ Reuses(C, D, i) /\ p.to = None
    BY <1>1, <2>1, Zenon DEF Refused
  <2>3. Tame(C, D)
    BY <2>2, ReusesTame
  <2>4. Tame(C, p.conn)
    BY <2>1, <2>3, Zenon
  <2> QED BY <2>2, <2>4
<1>2. CASE ~Refused(C, P, i, p)
  <2>1. Offered(C, P, i, p)
    BY <1>2 DEF Offered
  <2>2. Tame(C, p.conn)
    BY <2>1, OfferTame, Zenon
  <2>3. p.to = None \/ (p.to \in Callers /\ caller[p.to].pc = "select")
    <3>1. GivenOn(C, P, i, p) \/ Listed(C, P, i, p) \/ Evicts(C, P, i, p)
      BY <1>2
    <3>2. GivenOn(C, P, i, p) => p.to \in Callers /\ caller[p.to].pc = "select"
      BY Zenon DEF GivenOn
    <3>3. Listed(C, P, i, p) => p.to = None
      BY Zenon DEF Listed
    <3>4. Evicts(C, P, i, p) => p.to = None
      BY Zenon DEF Evicts
    <3> QED BY <3>1, <3>2, <3>3, <3>4, Zenon
  <2> QED BY <2>2, <2>3
<1> QED BY <1>1, <1>2

LEMMA RecycleSteady ==
    ASSUME H1Types, Holding, NEW i \in Conns, Recycle(i)
    PROVE  Steady
<1>1. UNCHANGED <<h, reqCanceler, seen>>
  BY RecycleFacts
<1>2. CancelerTyped
  BY <1>1 DEF H1Types, CancelerTyped
<1>3. CASE OnlyConn(i, {"writeErrCh", "r", "alive"}) /\ UNCHANGED pool /\ Released(i, caller')
  <2>1. AreConns(conn') /\ \A j \in Conns : Calm(conn[j], conn'[j])
    BY <1>3, OnlyCalm DEF WriteFields, OnlyConn
  <2>2. AreCallers(caller') /\ \A d \in Callers : Moves(caller[d], caller'[d]) /\ Sound(caller'[d])
    BY <1>3, ReleasedMoves
  <2> QED BY <1>1, <1>2, <1>3, <2>1, <2>2, CallerSteady DEF H1Types
<1>4. CASE \E E, p, D, K :
             /\ conn[i].alive /\ AreConns(E) /\ Others(Conns, conn, E, i) /\ ConnBut(conn[i], E[i], {"writeErrCh"})
             /\ AreConns(p.conn) /\ p.pool \in Pools /\ p.ok \in BOOLEAN
             /\ Refused(E, pool, i, p) \/ GivenOn(E, pool, i, p) \/ Listed(E, pool, i, p) \/ Evicts(E, pool, i, p)
             /\ AreConns(D) /\ Others(Conns, p.conn, D, i) /\ ConnBut(p.conn[i], D[i], {"r", "alive"})
             /\ D[i].r = After(i, p.ok) /\ D[i].alive = p.ok
             /\ pool' = p.pool /\ conn' = IF p.to = None THEN D ELSE HandPending(D, p.to)
             /\ Released(i, K) /\ caller' = Handed(K, p.to, i)
  <2>1. PICK E, p, D, K :
             /\ conn[i].alive /\ AreConns(E) /\ Others(Conns, conn, E, i) /\ ConnBut(conn[i], E[i], {"writeErrCh"})
             /\ AreConns(p.conn) /\ p.pool \in Pools /\ p.ok \in BOOLEAN
             /\ Refused(E, pool, i, p) \/ GivenOn(E, pool, i, p) \/ Listed(E, pool, i, p) \/ Evicts(E, pool, i, p)
             /\ AreConns(D) /\ Others(Conns, p.conn, D, i) /\ ConnBut(p.conn[i], D[i], {"r", "alive"})
             /\ D[i].r = After(i, p.ok) /\ D[i].alive = p.ok
             /\ pool' = p.pool /\ conn' = IF p.to = None THEN D ELSE HandPending(D, p.to)
             /\ Released(i, K) /\ caller' = Handed(K, p.to, i)
    BY <1>4
  <2>2. PICK to, B : to = p.to /\ B = p.conn
    OBVIOUS
  <2>3. pool \in Pools
    BY DEF H1Types
  <2>4. Tame(E, B) /\ (to = None \/ (to \in Callers /\ caller[to].pc = "select"))
    BY <2>1, <2>2, <2>3, PutTame, Zenon
  <2>5. \A j \in Conns : Calm(conn[j], E[j])
    BY <2>1, CalmBut DEF WriteFields, Others, Calm
  <2>6. \A j \in Conns : Calm(conn[j], B[j])
    BY <2>4, <2>5, TameCalm
  <2>7. \A j \in Conns : Calm(conn[j], D[j])
    <3>1. Others(Conns, B, D, i) /\ ConnBut(B[i], D[i], {"r", "alive"})
      BY <2>1, <2>2, Zenon
    <3> QED BY <2>6, <3>1 DEF Others, ConnBut, ConnFields, Calm
  <2>8. conn' = D \/ conn' = HandPending(D, to)
    BY <2>1, <2>2, Zenon
  <2>9. AreConns(conn') /\ \A j \in Conns : Calm(conn[j], conn'[j])
    <3>1. AreConns(D)
      BY <2>1
    <3>2. CASE conn' = D
      BY <2>7, <3>1, <3>2
    <3>3. CASE conn' = HandPending(D, to)
      <4>1. AreConns(conn') /\ \A j \in Conns : ConnBut(D[j], conn'[j], {"wanted"})
        BY <3>1, <3>3, HandPendingFacts
      <4>2. SUFFICES ASSUME NEW j \in Conns PROVE Calm(conn[j], conn'[j])
        BY <4>1
      <4>3. /\ conn'[j].nwrite = D[j].nwrite /\ conn'[j].writech = D[j].writech /\ conn'[j].w = D[j].w
            /\ conn'[j].wr = D[j].wr /\ conn'[j].werr = D[j].werr
        BY <4>1, ZenonT(40) DEF ConnBut, ConnFields
      <4>4. Calm(conn[j], D[j])
        BY <2>7
      <4> QED BY <4>3, <4>4 DEF Calm
    <3> QED BY <2>8, <3>2, <3>3
  <2>10. /\ AreCallers(K) /\ \A d \in Callers : Moves(caller[d], K[d]) /\ Sound(K[d])
         /\ \A d \in Callers : caller[d].pc = "select" => K[d] = caller[d]
    BY <2>1, ReleasedMoves
  <2>11. caller' = Handed(K, to, i)
    BY <2>1, <2>2, Zenon
  <2>12. AreCallers(caller') /\ \A d \in Callers : Moves(caller[d], caller'[d]) /\ Sound(caller'[d])
    <3>1. CASE to = None
      BY <2>10, <2>11, <3>1 DEF Handed
    <3>2. CASE to \in Callers /\ caller[to].pc = "select"
      <4>1. /\ AreCallers(caller') /\ Others(Callers, K, caller', to)
            /\ CallerBut(K[to], caller'[to], {"pc", "conn"}) /\ caller'[to].pc = "start" /\ caller'[to].conn = i
        BY <2>10, <2>11, <3>2, HandedFacts, TypeFacts
      <4>2. CallerBut(caller[to], caller'[to], {"pc", "conn"}) /\ i # None
        BY <2>10, <3>2, <4>1, TypeFacts
      <4>3. Moves(caller[to], caller'[to]) /\ Sound(caller'[to])
        BY <3>2, <4>1, <4>2 DEF Moves, Sound, Before, CallerBut, CallerFields
      <4> QED BY <2>10, <4>1, <4>3 DEF Others
    <3> QED BY <2>4, <3>1, <3>2
  <2>13. pool' \in Pools
    BY <2>1
  <2> QED BY <1>1, <1>2, <2>9, <2>12, <2>13, CallerSteady
<1> QED BY <1>3, <1>4, RecycleFacts, Zenon

(* A request still to be written, and one a connection has nothing of.     *)
Pends(k, q) == k.w # "done" /\ \E n \in 1..Len(k.writech) : k.writech[n] = q
Absent(q, i) == <<q, i>> \notin seen /\ ~Pends(conn[i], q)
(* What has been sent belongs to the hop of its caller or to an earlier one. *)
Earlier ==
    /\ \A q \in Reqs, i \in Conns : <<q, i>> \in seen => q[2] \in 0..caller[q[1]].hop
    /\ \A q \in Reqs, i \in Conns : Pends(conn[i], q) => q[2] \in 0..caller[q[1]].hop
(* While a caller waits, only its own connection has its request, and once *)
(* that has written some of it no error says that nothing was written.     *)
Waiting(c) ==
    LET a == caller[c]  q == Req(c)  k == conn[caller[c].conn] IN
    /\ \A j \in Conns \ {a.conn} : Absent(q, j)
    /\ <<q, a.conn>> \in seen => ~Pends(k, q) /\ k.nwrite > a.start /\ a.werr # "nothing written"
    /\ k.nwrite >= a.start
    /\ a.werr # Unset => k.w = "done"
    /\ k.w = "report" /\ k.wr = q /\ k.werr = "nothing written" => <<q, a.conn>> \notin seen
OnceOK(c) ==
    ~isReplayable(caller[c].method) =>
        /\ caller[c].pc \in Before => \A i \in Conns : Absent(Req(c), i)
        /\ caller[c].pc \in Awaits => Waiting(c)
        /\ \A i, j \in Conns : i = j \/ Absent(Req(c), i) \/ Absent(Req(c), j)
Once == H1Types /\ Holding /\ Earlier /\ \A c \in Callers : OnceOK(c)

LEMMA RetypedTypes ==
    ASSUME H1Types, Retyped, seen' \in SUBSET (Reqs \X Conns),
           \A c \in Callers : caller'[c].hop <= h.redirects
    PROVE  H1Types' /\ Holding'
<1>1. \A c \in Callers : caller'[c].pc \in {"start", "wait", "map", "body", "eof"} => caller'[c].conn # None
  BY DEF Retyped, Sound
<1>2. \A c \in Callers : Sound(caller[c])'
  BY DEF Retyped, Sound
<1> QED BY <1>1, <1>2 DEF H1Types, Holding, Retyped

LEMMA CalmPends ==
    ASSUME NEW k, NEW k2, Calm(k, k2), NEW q, Pends(k2, q)
    PROVE  Pends(k, q)
<1>1. k2.w # "done" /\ k2.w = k.w
  BY DEF Calm, Pends
<1>2. k2.writech # <<>>
  BY DEF Pends
<1>3. k2.writech = k.writech
  BY <1>2 DEF Calm
<1> QED BY <1>1, <1>3 DEF Pends

LEMMA MovesFacts ==
    ASSUME Once, Steady, NEW c \in Callers
    PROVE  /\ caller[c].hop \in Nat /\ caller'[c].hop \in Nat /\ caller'[c].hop >= caller[c].hop
           /\ caller'[c].hop <= h.redirects
<1>1. IsCaller(caller[c]) /\ IsCaller(caller'[c]) /\ caller[c].hop \in 0..h.redirects /\ h.redirects \in Nat
  BY TypeFacts DEF Once, Steady, Retyped, AreCallers
<1>2. caller[c].hop \in Nat /\ caller'[c].hop \in Nat
  BY <1>1, CallerFacts
<1>3. caller'[c].hop = caller[c].hop \/ (caller'[c].hop = caller[c].hop + 1 /\ caller[c].hop < h.redirects)
  BY DEF Steady, Moves
<1> QED BY <1>1, <1>2, <1>3

LEMMA SteadyOnce ==
    ASSUME Once, Steady
    PROVE  Once'
<1>1. H1Types /\ Holding /\ Retyped /\ seen' = seen /\ h' = h
  BY DEF Once, Steady, Retyped
<1>2. seen' \in SUBSET (Reqs \X Conns)
  BY <1>1 DEF H1Types
<1>3. H1Types' /\ Holding'
  BY <1>1, <1>2, MovesFacts, RetypedTypes
<1>4. \A q \in Reqs, i \in Conns : Pends(conn[i], q)' => Pends(conn[i], q)
  <2> SUFFICES ASSUME NEW q \in Reqs, NEW i \in Conns, Pends(conn'[i], q) PROVE Pends(conn[i], q)
    BY DEF Pends
  <2> QED BY CalmPends DEF Steady
<1>5. \A q \in Reqs, i \in Conns : Absent(q, i) => Absent(q, i)'
  BY <1>1, <1>4 DEF Absent
<1>6. \A q \in Reqs : q[1] \in Callers /\ q[2] \in Hops
  BY DEF Reqs
<1>7. Earlier'
  <2>1. \A q \in Reqs : caller'[q[1]].hop \in Nat /\ caller[q[1]].hop \in Nat /\ caller'[q[1]].hop >= caller[q[1]].hop
    BY <1>6, MovesFacts
  <2>2. \A q \in Reqs : q[2] \in 0..caller[q[1]].hop => q[2] \in 0..caller'[q[1]].hop
    BY <2>1
  <2>3. Earlier
    BY DEF Once
  <2> QED BY <1>1, <1>4, <2>2, <2>3 DEF Earlier
<1>8. ASSUME NEW c \in Callers PROVE OnceOK(c)'
  <2> DEFINE a == caller[c]
             b == caller'[c]
             q == Req(c)
  <2>1. OnceOK(c) /\ Moves(a, b) /\ Earlier
    BY DEF Once, Steady
  <2>2. q \in Reqs /\ Req(c)' \in Reqs
    <3>1. IsCaller(a) /\ IsCaller(b)
      BY <1>1, <1>3 DEF H1Types, AreCallers
    <3>2. a.hop \in Hops /\ b.hop \in Hops
      BY <3>1, CallerFacts
    <3> QED BY <3>2 DEF Req, Reqs
  <2>3. CASE b.hop = a.hop + 1 /\ b.pc = "getconn"
    <3>1. Req(c)'[1] = c /\ Req(c)'[2] = a.hop + 1 /\ a.hop \in Nat
      BY <2>3, MovesFacts DEF Req
    <3>2. ~(Req(c)'[2] \in 0..caller[Req(c)'[1]].hop)
      BY <3>1
    <3>3. \A i \in Conns : Absent(Req(c)', i)
      BY <2>1, <2>2, <3>2 DEF Absent, Earlier
    <3>4. \A i \in Conns : Absent(Req(c), i)'
      BY <1>1, <1>4, <2>2, <3>3 DEF Absent
    <3>5. b.pc \notin Awaits
      BY <2>3 DEF Awaits
    <3> QED BY <3>4, <3>5 DEF OnceOK
  <2>4. CASE b.hop = a.hop /\ b.method = a.method
    <3>1. Req(c)' = q
      BY <2>4 DEF Req
    <3>2. SUFFICES ASSUME ~isReplayable(a.method)
                   PROVE  /\ b.pc \in Before => \A i \in Conns : Absent(Req(c), i)'
                          /\ b.pc \in Awaits => Waiting(c)'
                          /\ \A i, j \in Conns : i = j \/ Absent(Req(c), i)' \/ Absent(Req(c), j)'
      BY <2>4 DEF OnceOK, isReplayable
    <3>3. \A i \in Conns : Absent(q, i) => Absent(Req(c), i)'
      BY <1>5, <2>2, <3>1 DEF Absent
    <3>4. /\ a.pc \in Before => \A i \in Conns : Absent(q, i)
          /\ a.pc \in Awaits => Waiting(c)
          /\ \A i, j \in Conns : i = j \/ Absent(q, i) \/ Absent(q, j)
      BY <2>1, <3>2 DEF OnceOK
    <3>5. \A i, j \in Conns : i = j \/ Absent(Req(c), i)' \/ Absent(Req(c), j)'
      BY <3>3, <3>4
    <3>6. ASSUME b.pc \in Before, NEW i \in Conns PROVE Absent(q, i)
      <4>1. CASE a.pc \in Before
        BY <3>4, <4>1
      <4>2. CASE Retries(a, b)
        <5>1. Waiting(c) /\ a.pc \in Awaits
          BY <3>4, <4>2 DEF Retries
        <5>2. CASE i # a.conn
          BY <5>1, <5>2 DEF Waiting
        <5>3. CASE i = a.conn
          <6>1. a.werr = "nothing written" \/ (conn[i].w = "done" /\ conn[i].nwrite = a.start)
            BY <3>2, <4>2, <5>3 DEF Retries
          <6>2. conn[i].w = "done"
            BY <5>1, <5>3, <6>1 DEF Waiting, Unset
          <6>3. conn[i].nwrite \in Nat /\ a.start \in Nat
            BY <1>1, TypeFacts, ConnFacts, CallerFacts
          <6>4. <<q, i>> \notin seen
            <7>1. <<q, i>> \in seen => conn[i].nwrite > a.start /\ a.werr # "nothing written"
              BY <5>1, <5>3, Zenon DEF Waiting
            <7>2. conn[i].nwrite = a.start => ~(conn[i].nwrite > a.start)
              BY <6>3
            <7> QED BY <6>1, <7>1, <7>2, Zenon
          <6> QED BY <6>2, <6>4 DEF Absent, Pends
        <5> QED BY <5>2, <5>3
      <4>3. b.pc \notin Awaits /\ b.pc \notin Past /\ a.hop \in Nat
        BY <3>6, MovesFacts DEF Before, Awaits, Past
      <4> QED BY <2>1, <2>4, <4>1, <4>2, <4>3 DEF Moves
    <3>7. ASSUME b.pc \in Awaits PROVE Waiting(c)'
      <4>1. /\ a.pc \in Awaits /\ b.conn = a.conn /\ b.start = a.start /\ b.werr = a.werr
        <5>1. b.pc # "getconn" /\ b.pc \notin Before /\ b.pc \notin Past
          BY <3>7 DEF Awaits, Before, Past
        <5> QED BY <2>1, <2>4, <5>1 DEF Moves, Retries
      <4>2. Waiting(c)
        BY <3>4, <4>1
      <4>3. PICK i \in Conns : i = a.conn
        BY <1>1, <4>1, HeldConn DEF Awaits
      <4>4. Calm(conn[i], conn'[i])
        BY DEF Steady
      <4>5. \A j \in Conns \ {i} : Absent(Req(c), j)'
        BY <3>3, <4>2, <4>3 DEF Waiting
      <4>6. <<q, i>> \in seen => ~Pends(conn'[i], q) /\ conn'[i].nwrite > a.start /\ a.werr # "nothing written"
        <5>1. <<q, i>> \in seen => ~Pends(conn[i], q) /\ conn[i].nwrite > a.start /\ a.werr # "nothing written"
          BY <4>2, <4>3, Zenon DEF Waiting
        <5>2. ~Pends(conn[i], q) => ~Pends(conn'[i], q)
          BY <4>4, CalmPends
        <5>3. conn'[i].nwrite = conn[i].nwrite
          BY <4>4 DEF Calm
        <5> QED BY <5>1, <5>2, <5>3
      <4>7. conn'[i].nwrite >= a.start /\ (a.werr # Unset => conn'[i].w = "done")
        BY <4>2, <4>3, <4>4 DEF Waiting, Calm
      <4>8. conn'[i].w = "report" /\ conn'[i].wr = q /\ conn'[i].werr = "nothing written" => <<q, i>> \notin seen
        BY <4>2, <4>3, <4>4 DEF Waiting, Calm
      <4> QED BY <1>1, <3>1, <4>1, <4>3, <4>5, <4>6, <4>7, <4>8 DEF Waiting, Pends
    <3> QED BY <3>3, <3>5, <3>6, <3>7
  <2> QED BY <2>1, <2>3, <2>4 DEF Moves
<1> QED BY <1>1, <1>3, <1>7, <1>8 DEF Once

LEMMA SendOnce ==
    ASSUME Once, NEW c \in Callers, NEW i \in Conns, i = caller[c].conn, caller[c].pc = "start",
           UNCHANGED <<h, seen, pool>>, SetCanceler(Req(c), "conn"),
           OnlyConn(i, {"expected", "writech", "reqch"}), conn'[i].writech = Append(conn[i].writech, Req(c)),
           OnlyCaller(c, {"pc", "start", "werr", "told"}),
           caller'[c].pc = "wait", caller'[c].start = conn[i].nwrite, caller'[c].werr = Unset
    PROVE  Once'
<1> DEFINE q == Req(c)
<1>1. H1Types /\ Holding /\ Earlier /\ q \in Reqs /\ OnceOK(c) /\ \A d \in Callers : OnceOK(d)
  BY TypeFacts DEF Once
<1>2. /\ AreConns(conn') /\ AreCallers(caller') /\ (\A j \in Conns \ {i} : conn'[j] = conn[j])
      /\ \A d \in Callers \ {c} : caller'[d] = caller[d]
  BY DEF OnlyConn, OnlyCaller, Others
<1>3. /\ conn'[i].w = conn[i].w /\ conn'[i].wr = conn[i].wr /\ conn'[i].werr = conn[i].werr
      /\ conn'[i].nwrite = conn[i].nwrite
  BY DEF OnlyConn, ConnBut, ConnFields
<1>4. /\ caller'[c].hop = caller[c].hop /\ caller'[c].method = caller[c].method /\ caller'[c].conn = i
      /\ caller'[c].err = caller[c].err
  BY DEF OnlyCaller, CallerBut, CallerFields
<1>5. \A d \in Callers : Req(d)' = Req(d) /\ Req(d) \in Reqs /\ caller'[d].hop = caller[d].hop
  BY <1>1, <1>2, <1>4, TypeFacts DEF Req
<1>6. i # None
  BY <1>1, TypeFacts
<1>7. H1Types' /\ Holding'
  <2>1. \A d \in Callers : Sound(caller'[d])
    BY <1>1, <1>2, <1>4, <1>6 DEF Holding, Sound
  <2>2. reqCanceler' \in [Reqs -> {"none", "nothing", "dial", "conn"}]
    BY <1>1, CancelerFacts
  <2>3. \A d \in Callers : caller'[d].hop <= h.redirects
    BY <1>1, <1>5 DEF H1Types
  <2>4. Retyped /\ seen' \in SUBSET (Reqs \X Conns)
    BY <1>1, <1>2, <2>1, <2>2 DEF Retyped, H1Types
  <2> QED BY <1>1, <2>3, <2>4, RetypedTypes
<1>8. \A x \in Reqs \ {q}, j \in Conns : Pends(conn'[j], x) => Pends(conn[j], x)
  <2> SUFFICES ASSUME NEW x \in Reqs \ {q}, NEW j \in Conns, Pends(conn'[j], x) PROVE Pends(conn[j], x)
    OBVIOUS
  <2>1. CASE j # i
    BY <1>2, <2>1
  <2>2. CASE j = i
    <3>1. PICK s \in Seq(Reqs) : s = conn[i].writech
      BY <1>1, TypeFacts, ConnFacts
    <3>2. conn'[i].w # "done" /\ \E n \in 1..Len(Append(s, q)) : Append(s, q)[n] = x
      BY <2>2, <3>1 DEF Pends
    <3>3. \E n \in 1..Len(s) : s[n] = x
      BY <1>1, <3>2
    <3> QED BY <1>3, <2>2, <3>1, <3>2, <3>3 DEF Pends
  <2> QED BY <2>1, <2>2
<1>9. \A x \in Reqs, j \in Conns : (x # q \/ j # i) /\ Absent(x, j) => Absent(x, j)'
  BY <1>2, <1>8 DEF Absent
<1>10. Earlier'
  <2>1. \A x \in Reqs : x[1] \in Callers
    BY DEF Reqs
  <2>2. \A x \in Reqs : caller'[x[1]].hop = caller[x[1]].hop
    BY <1>5, <2>1
  <2>3. q[1] = c /\ q[2] = caller[c].hop /\ caller[c].hop \in Nat
    BY <1>1, TypeFacts, CallerFacts DEF Req
  <2>4. q[2] \in 0..caller'[q[1]].hop
    BY <1>4, <2>3
  <2>5. \A x \in Reqs, j \in Conns : <<x, j>> \in seen' => x[2] \in 0..caller'[x[1]].hop
    BY <1>1, <2>2 DEF Earlier
  <2>6. \A x \in Reqs, j \in Conns : Pends(conn'[j], x) => x[2] \in 0..caller'[x[1]].hop
    BY <1>1, <1>8, <2>2, <2>4 DEF Earlier
  <2> QED BY <2>5, <2>6 DEF Earlier, Pends
<1>11. ASSUME NEW d \in Callers \ {c} PROVE OnceOK(d)'
  <2>1. Req(d)' = Req(d) /\ Req(d) # q /\ Req(d) \in Reqs
    BY <1>5 DEF Req
  <2>2. \A j \in Conns : Absent(Req(d), j) => Absent(Req(d), j)'
    BY <1>9, <2>1 DEF Absent
  <2>3. caller'[d] = caller[d] /\ OnceOK(d)
    BY <1>1, <1>2
  <2>4. SUFFICES ASSUME ~isReplayable(caller[d].method), caller[d].pc \in Awaits PROVE Waiting(d)'
    BY <2>2, <2>3 DEF OnceOK, isReplayable
  <2>5. Waiting(d)
    BY <2>3, <2>4 DEF OnceOK
  <2>6. PICK j \in Conns : j = caller[d].conn
    BY <1>1, <2>4, HeldConn DEF Awaits
  <2>7. /\ conn'[j].w = conn[j].w /\ conn'[j].wr = conn[j].wr /\ conn'[j].werr = conn[j].werr
        /\ conn'[j].nwrite = conn[j].nwrite /\ (Pends(conn'[j], Req(d)) => Pends(conn[j], Req(d)))
    BY <1>2, <1>3, <1>8, <2>1
  <2>8. \A n \in Conns \ {j} : Absent(Req(d), n)'
    BY <2>2, <2>5, <2>6 DEF Waiting
  <2>9. /\ <<Req(d), j>> \in seen => ~Pends(conn'[j], Req(d)) /\ conn'[j].nwrite > caller[d].start
                                     /\ caller[d].werr # "nothing written"
        /\ conn'[j].nwrite >= caller[d].start /\ (caller[d].werr # Unset => conn'[j].w = "done")
        /\ conn'[j].w = "report" /\ conn'[j].wr = Req(d) /\ conn'[j].werr = "nothing written" => <<Req(d), j>> \notin seen
    BY <2>5, <2>6, <2>7 DEF Waiting
  <2> QED BY <2>1, <2>3, <2>6, <2>8, <2>9 DEF Waiting, Pends
<1>12. OnceOK(c)'
  <2>1. SUFFICES ASSUME ~isReplayable(caller[c].method)
                 PROVE  Waiting(c)' /\ \A j \in Conns \ {i} : Absent(Req(c), j)'
    <3>1. caller'[c].pc \notin Before
      BY DEF Before
    <3> QED BY <1>4, <3>1 DEF OnceOK, isReplayable
  <2>2. \A j \in Conns : Absent(q, j)
    BY <1>1, <2>1 DEF OnceOK, Before
  <2>3. \A j \in Conns \ {i} : Absent(Req(c), j)'
    BY <1>1, <1>5, <1>9, <2>2 DEF Absent
  <2>4. <<q, i>> \notin seen
    BY <2>2 DEF Absent
  <2>5. conn'[i].nwrite >= caller'[c].start
    BY <1>1, <1>3, TypeFacts, ConnFacts
  <2> QED BY <1>4, <1>5, <2>3, <2>4, <2>5 DEF Waiting
<1> QED BY <1>7, <1>10, <1>11, <1>12 DEF Once

LEMMA RoundTripOnce ==
    ASSUME Once, NEW c \in Callers, roundTrip(c)
    PROVE  Once'
<1>1. H1Types /\ Holding
  BY DEF Once
<1>2. PICK i : i = caller[c].conn
  OBVIOUS
<1>3. UNCHANGED <<h, seen>> /\ caller[c].pc = "start" /\ i \in Conns
  BY <1>1, <1>2, RoundTripFacts
<1>4. CASE \E K : GivesBack(conn, i, K) /\ Fail(c, K, FALSE, "canceled")
  BY <1>1, <1>2, <1>3, <1>4, RefusedSteady, SteadyOnce
<1>5. CASE /\ SetCanceler(Req(c), "conn") /\ UNCHANGED pool
           /\ OnlyConn(i, {"expected", "writech", "reqch"}) /\ conn'[i].writech = Append(conn[i].writech, Req(c))
           /\ OnlyCaller(c, {"pc", "start", "werr", "told"})
           /\ caller'[c].pc = "wait" /\ caller'[c].start = conn[i].nwrite /\ caller'[c].werr = Unset
  BY <1>2, <1>3, <1>5, SendOnce
<1> QED BY <1>1, <1>2, <1>4, <1>5, RoundTripFacts, Zenon

LEMMA WriteOnce ==
    ASSUME Once, NEW i \in Conns, Write(i)
    PROVE  Once'
<1> DEFINE q == conn[i].writech[1]
<1>1. H1Types /\ Holding /\ Earlier /\ \A d \in Callers : OnceOK(d)
  BY DEF Once
<1>2. /\ UNCHANGED <<h, caller, pool, reqCanceler>> /\ conn[i].w = "idle" /\ conn[i].writech # <<>> /\ q \in Reqs
      /\ OnlyConn(i, {"writech", "nwrite", "w", "wr", "werr", "up"})
      /\ conn'[i].writech = <<>> /\ conn'[i].w = "report" /\ conn'[i].wr = q
  BY <1>1, WriteFacts, Zenon
<1>3. \/ /\ seen' = seen /\ (conn'[i].nwrite = conn[i].nwrite + 1 \/ conn'[i].nwrite = conn[i].nwrite)
      \/ /\ seen' = seen \cup {<<q, i>>} /\ conn'[i].nwrite = conn[i].nwrite + 1 /\ conn'[i].werr = "nil"
  <2>1. conn[i].eof \in BOOLEAN
    BY <1>1, TypeFacts, ConnFacts
  <2> QED BY <1>1, <2>1, WriteFacts, Zenon
<1>4. AreConns(conn') /\ \A j \in Conns \ {i} : conn'[j] = conn[j]
  BY <1>2 DEF OnlyConn, Others
<1>5. H1Types' /\ Holding'
  <2>1. Retyped /\ \A d \in Callers : caller'[d].hop <= h.redirects
    BY <1>1, <1>2, <1>4 DEF Retyped, H1Types, Holding
  <2>2. seen' \in SUBSET (Reqs \X Conns)
    BY <1>1, <1>2, <1>3 DEF H1Types
  <2> QED BY <1>1, <2>1, <2>2, RetypedTypes
<1>6. Pends(conn[i], q)
  <2>1. conn[i].writech \in Seq(Reqs)
    BY <1>1, TypeFacts, ConnFacts
  <2>2. 1 \in 1..Len(conn[i].writech)
    BY <1>2, <2>1
  <2> QED BY <1>2, <2>2 DEF Pends
<1>7. \A x : ~Pends(conn'[i], x)
  BY <1>2 DEF Pends
<1>8. \A x \in Reqs, j \in Conns : (x # q \/ j # i) /\ Absent(x, j) => Absent(x, j)'
  BY <1>3, <1>4, <1>7 DEF Absent, Pends
<1>9. Earlier'
  <2>1. \A x \in Reqs, j \in Conns : <<x, j>> \in seen' => <<x, j>> \in seen \/ (x = q /\ j = i)
    BY <1>3
  <2>2. q[2] \in 0..caller[q[1]].hop
    BY <1>1, <1>2, <1>6 DEF Earlier
  <2>3. \A x \in Reqs, j \in Conns : <<x, j>> \in seen' => x[2] \in 0..caller[x[1]].hop
    BY <1>1, <2>1, <2>2 DEF Earlier
  <2>4. \A x \in Reqs, j \in Conns : Pends(conn'[j], x) => x[2] \in 0..caller[x[1]].hop
    BY <1>1, <1>4, <1>7 DEF Earlier
  <2> QED BY <1>2, <2>3, <2>4 DEF Earlier, Pends
<1>10. ASSUME NEW c \in Callers PROVE OnceOK(c)'
  <2>1. Req(c)' = Req(c) /\ caller'[c] = caller[c] /\ Req(c) \in Reqs
    BY <1>1, <1>2, TypeFacts DEF Req
  <2>2. SUFFICES ASSUME ~isReplayable(caller[c].method)
                 PROVE  /\ caller[c].pc \in Before => \A j \in Conns : Absent(Req(c), j)'
                        /\ caller[c].pc \in Awaits => Waiting(c)'
                        /\ \A n, j \in Conns : n = j \/ Absent(Req(c), n)' \/ Absent(Req(c), j)'
    BY <2>1 DEF OnceOK, isReplayable
  <2>3. /\ caller[c].pc \in Before => \A j \in Conns : Absent(Req(c), j)
        /\ caller[c].pc \in Awaits => Waiting(c)
        /\ \A n, j \in Conns : n = j \/ Absent(Req(c), n) \/ Absent(Req(c), j)
    BY <1>1, <2>2 DEF OnceOK
  <2>4. \A j \in Conns : (Req(c) # q \/ j # i) /\ Absent(Req(c), j) => Absent(Req(c), j)'
    BY <1>8, <2>1 DEF Absent
  <2>5. Req(c) = q => ~Absent(Req(c), i)
    BY <1>6 DEF Absent
  <2>6. caller[c].pc \in Before => \A j \in Conns : Absent(Req(c), j)'
    BY <2>3, <2>4, <2>5
  <2>7. \A n, j \in Conns : n = j \/ Absent(Req(c), n)' \/ Absent(Req(c), j)'
    BY <2>3, <2>4, <2>5
  <2>8. ASSUME caller[c].pc \in Awaits PROVE Waiting(c)'
    <3>1. PICK j \in Conns : j = caller[c].conn
      BY <1>1, <2>8, HeldConn DEF Awaits
    <3>2. /\ \A n \in Conns \ {j} : Absent(Req(c), n)
          /\ <<Req(c), j>> \in seen => ~Pends(conn[j], Req(c)) /\ conn[j].nwrite > caller[c].start
                                       /\ caller[c].werr # "nothing written"
          /\ conn[j].nwrite >= caller[c].start /\ (caller[c].werr # Unset => conn[j].w = "done")
          /\ conn[j].w = "report" /\ conn[j].wr = Req(c) /\ conn[j].werr = "nothing written" => <<Req(c), j>> \notin seen
      BY <2>3, <2>8, <3>1, Zenon DEF Waiting
    <3>3. \A n \in Conns \ {j} : Absent(Req(c), n)'
      BY <2>4, <2>5, <3>2
    <3>4. conn[i].nwrite \in Nat /\ conn[j].nwrite \in Nat /\ caller[c].start \in Nat
      BY <1>1, TypeFacts, ConnFacts, CallerFacts
    <3>5. CASE j # i
      <4>1. conn'[j] = conn[j] /\ (<<Req(c), j>> \in seen' => <<Req(c), j>> \in seen)
        BY <1>3, <1>4, <3>5
      <4> QED BY <2>1, <3>1, <3>2, <3>3, <4>1 DEF Waiting, Pends
    <3>6. CASE j = i
      <4>1. caller[c].werr = Unset
        BY <1>2, <3>2, <3>6
      <4>2. conn'[j].nwrite >= caller[c].start
        <5>1. conn[i].nwrite >= caller[c].start
          BY <3>2, <3>6, Zenon
        <5>2. conn'[i].nwrite = conn[i].nwrite + 1 \/ conn'[i].nwrite = conn[i].nwrite
          BY <1>3, Zenon
        <5> QED BY <3>4, <3>6, <5>1, <5>2
      <4>3. <<Req(c), j>> \in seen' => conn'[j].nwrite > caller[c].start
        <5>1. CASE seen' = seen
          <6>1. <<Req(c), j>> \in seen => conn[j].nwrite > caller[c].start
            BY <3>2
          <6> QED BY <1>3, <3>4, <3>6, <5>1, <6>1
        <5>2. CASE conn'[i].nwrite = conn[i].nwrite + 1
          <6>1. conn[i].nwrite >= caller[c].start
            BY <3>2, <3>6, Zenon
          <6> QED BY <3>4, <3>6, <5>2, <6>1
        <5> QED BY <1>3, <5>1, <5>2
      <4>4. conn'[j].wr = Req(c) /\ conn'[j].werr = "nothing written" => <<Req(c), j>> \notin seen'
        <5>1. Req(c) = q => <<Req(c), j>> \notin seen
          BY <1>6, <3>2, <3>6
        <5>2. conn'[j].werr = "nothing written" => seen' = seen
          BY <1>3, <3>6
        <5> QED BY <1>2, <3>6, <5>1, <5>2
      <4> QED BY <1>7, <2>1, <3>1, <3>3, <3>6, <4>1, <4>2, <4>3, <4>4 DEF Waiting, Pends, Unset
    <3> QED BY <3>5, <3>6
  <2> QED BY <2>6, <2>7, <2>8
<1> QED BY <1>5, <1>9, <1>10 DEF Once

LEMMA WriteReportsOnce ==
    ASSUME Once, NEW i \in Conns, WriteReports(i)
    PROVE  Once'
<1> DEFINE e == conn[i].werr
<1>1. H1Types /\ Holding /\ Earlier /\ \A d \in Callers : OnceOK(d)
  BY DEF Once
<1>2. /\ UNCHANGED <<h, pool, reqCanceler, seen>> /\ conn[i].w = "report"
      /\ AreConns(conn') /\ Others(Conns, conn, conn', i) /\ AreCallers(caller')
  BY <1>1, WriteReportsFacts
<1>3. /\ conn'[i].nwrite = conn[i].nwrite /\ (conn'[i].writech = conn[i].writech \/ conn'[i].writech = <<>>)
      /\ conn'[i].w # "report" /\ (e # "nil" => conn'[i].w = "done")
  <2>1. CASE e = "nil" /\ OnlyConn(i, {"writeErrCh", "werr", "wr", "w"}) /\ conn'[i].w = "idle"
    BY <2>1 DEF OnlyConn, ConnBut, ConnFields
  <2>2. CASE \E k : /\ ConnBut(conn[i], k, {"writeErrCh", "werr", "wr", "w", "closed"}) /\ k.w = "done"
                    /\ Remains(k, conn'[i]) \/ conn'[i] = k
    BY <2>2 DEF ConnBut, ConnFields, Remains
  <2> QED BY <1>1, <2>1, <2>2, WriteReportsFacts, Zenon
<1>4. \A c \in Callers :
        \/ caller'[c] = caller[c]
        \/ /\ e # "nil" /\ caller[c].pc \in Awaits /\ caller[c].conn = i /\ Req(c) = conn[i].wr
           /\ CallerBut(caller[c], caller'[c], {"werr"}) /\ caller'[c].werr = e
  BY <1>1, WriteReportsFacts, Zenon DEF Waits, Awaits
<1>5. \A c \in Callers : /\ caller'[c].pc = caller[c].pc /\ caller'[c].hop = caller[c].hop
                         /\ caller'[c].method = caller[c].method /\ caller'[c].conn = caller[c].conn
                         /\ caller'[c].start = caller[c].start /\ caller'[c].err = caller[c].err
  BY <1>4 DEF CallerBut, CallerFields
<1>6. \A c \in Callers : Req(c)' = Req(c) /\ Req(c) \in Reqs
  BY <1>1, <1>5, TypeFacts DEF Req
<1>7. H1Types' /\ Holding'
  <2>1. \A d \in Callers : Sound(caller'[d])
    BY <1>1, <1>5 DEF Holding, Sound
  <2>2. Retyped /\ seen' \in SUBSET (Reqs \X Conns) /\ \A d \in Callers : caller'[d].hop <= h.redirects
    BY <1>1, <1>2, <1>5, <2>1 DEF Retyped, H1Types
  <2> QED BY <1>1, <2>2, RetypedTypes
<1>8. \A x \in Reqs, j \in Conns : Pends(conn'[j], x) => Pends(conn[j], x)
  <2> SUFFICES ASSUME NEW x \in Reqs, NEW j \in Conns, Pends(conn'[j], x) PROVE Pends(conn[j], x)
    OBVIOUS
  <2>1. CASE j # i
    BY <1>2, <2>1 DEF Others
  <2>2. CASE j = i
    <3>1. conn'[i].writech # <<>>
      BY <2>2 DEF Pends
    <3>2. conn'[i].writech = conn[i].writech
      BY <1>3, <3>1
    <3> QED BY <1>2, <2>2, <3>2 DEF Pends
  <2> QED BY <2>1, <2>2
<1>9. \A x \in Reqs, j \in Conns : Absent(x, j) => Absent(x, j)'
  BY <1>2, <1>8 DEF Absent
<1>10. Earlier'
  <2>1. \A x \in Reqs : x[1] \in Callers
    BY DEF Reqs
  <2>2. \A x \in Reqs : caller'[x[1]].hop = caller[x[1]].hop
    BY <1>5, <2>1
  <2>3. \A x \in Reqs, j \in Conns : Pends(conn'[j], x) => x[2] \in 0..caller'[x[1]].hop
    BY <1>1, <1>8, <2>2 DEF Earlier
  <2> QED BY <1>1, <1>2, <2>2, <2>3 DEF Earlier, Pends
<1>11. ASSUME NEW c \in Callers PROVE OnceOK(c)'
  <2>1. Req(c)' = Req(c) /\ Req(c) \in Reqs /\ caller'[c].pc = caller[c].pc /\ caller'[c].method = caller[c].method
    BY <1>5, <1>6
  <2>2. \A j \in Conns : Absent(Req(c), j) => Absent(Req(c), j)'
    BY <1>9, <2>1 DEF Absent
  <2>3. OnceOK(c)
    BY <1>1
  <2>4. SUFFICES ASSUME ~isReplayable(caller[c].method), caller[c].pc \in Awaits PROVE Waiting(c)'
    BY <2>1, <2>2, <2>3 DEF OnceOK, isReplayable
  <2>5. PICK j \in Conns : j = caller[c].conn
    BY <1>1, <2>4, HeldConn DEF Awaits
  <2>6. Waiting(c)
    BY <2>3, <2>4 DEF OnceOK
  <2>7. /\ \A n \in Conns \ {j} : Absent(Req(c), n)
        /\ <<Req(c), j>> \in seen => ~Pends(conn[j], Req(c)) /\ conn[j].nwrite > caller[c].start
                                     /\ caller[c].werr # "nothing written"
        /\ conn[j].nwrite >= caller[c].start /\ (caller[c].werr # Unset => conn[j].w = "done")
        /\ conn[j].w = "report" /\ conn[j].wr = Req(c) /\ conn[j].werr = "nothing written" => <<Req(c), j>> \notin seen
    BY <2>5, <2>6, Zenon DEF Waiting
  <2>8. \A n \in Conns \ {j} : Absent(Req(c), n)'
    BY <2>2, <2>7
  <2>9. conn'[j].nwrite = conn[j].nwrite /\ caller'[c].start = caller[c].start /\ caller'[c].conn = j
    BY <1>2, <1>3, <1>5, <2>5 DEF Others
  <2>10. ~Pends(conn[j], Req(c)) => ~Pends(conn'[j], Req(c))
    BY <1>8, <2>1
  <2>11. <<Req(c), j>> \in seen => caller'[c].werr # "nothing written"
    BY <1>2, <1>4, <2>5, <2>7
  <2>12. caller'[c].werr # Unset => conn'[j].w = "done"
    <3>1. CASE j # i
      <4>1. conn'[j] = conn[j] /\ caller'[c] = caller[c]
        BY <1>2, <1>4, <2>5, <3>1 DEF Others
      <4> QED BY <2>7, <4>1
    <3>2. CASE j = i
      <4>1. caller[c].werr = Unset
        BY <1>2, <2>7, <3>2
      <4> QED BY <1>3, <1>4, <3>2, <4>1
    <3> QED BY <3>1, <3>2
  <2>13. conn'[j].w = "report" => conn'[j] = conn[j]
    BY <1>2, <1>3 DEF Others
  <2>14. conn'[j].w = "report" /\ conn'[j].wr = Req(c) /\ conn'[j].werr = "nothing written" => <<Req(c), j>> \notin seen
    BY <2>7, <2>13
  <2>15. /\ <<Req(c), j>> \in seen => ~Pends(conn'[j], Req(c)) /\ conn'[j].nwrite > caller[c].start
                                      /\ caller'[c].werr # "nothing written"
         /\ conn'[j].nwrite >= caller[c].start
    BY <2>7, <2>9, <2>10, <2>11
  <2> QED BY <1>2, <2>1, <2>8, <2>9, <2>12, <2>14, <2>15 DEF Waiting, Pends
<1> QED BY <1>7, <1>10, <1>11 DEF Once

LEMMA OnceInit == H1Init => Once
<1> SUFFICES ASSUME H1Init PROVE Once
  OBVIOUS
<1>1. /\ h \in Settings /\ h \in Setting /\ h.redirects \in Nat /\ 0 \in Hops /\ h.method \in Methods /\ seen = {}
      /\ h.timeout \in BOOLEAN
  <2>1. h \in Settings /\ seen = {}
    BY DEF H1Init
  <2>2. h \in Setting /\ 0..h.redirects \subseteq Hops
    BY <2>1, SettingsAssumption
  <2>3. h.redirects \in Nat /\ h.method \in Methods /\ h.timeout \in BOOLEAN
    BY <2>2 DEF Setting
  <2> QED BY <2>1, <2>2, <2>3
<1>2. \A c \in Callers : IsCaller(caller[c]) /\ caller[c].pc \in {"getconn", "done"} /\ caller[c].hop = 0
  <2> SUFFICES ASSUME NEW c \in Callers
               PROVE  IsCaller(caller[c]) /\ caller[c].pc \in {"getconn", "done"} /\ caller[c].hop = 0
    OBVIOUS
  <2>1. PICK x : x = CallerInit
    OBVIOUS
  <2>2. /\ x.pc = "done" /\ x.hop = 0 /\ x.method = "GET" /\ x.conn = None /\ x.live = FALSE /\ x.cancel = FALSE
        /\ x.cancelc = FALSE /\ x.told = FALSE /\ x.timer = FALSE /\ x.start = 0 /\ x.asked = FALSE
        /\ x = [f \in CallerFields |-> x[f]]
    BY <2>1, CallerInitFacts, Zenon
  <2>3. IsCaller(x)
    <3>1. /\ x.pc \in Pcs /\ x.hop \in Hops \cap Nat /\ x.method \in Methods /\ x.conn \in Conns \cup {None}
          /\ x.start \in Nat
      <4>1. x.pc = "done" /\ x.hop = 0 /\ x.method = "GET" /\ x.conn = None /\ x.start = 0
        BY <2>2
      <4>2. 0 \in Hops \cap Nat /\ 0 \in Nat
        <5>1. 0 \in Hops
          BY <1>1
        <5> QED BY <5>1
      <4>3. "done" \in Pcs /\ "GET" \in Methods
        BY DEF Pcs, Methods
      <4> QED BY <4>1, <4>2, <4>3, Zenon
    <3>2. /\ x.live \in BOOLEAN /\ x.cancel \in BOOLEAN /\ x.cancelc \in BOOLEAN /\ x.told \in BOOLEAN
          /\ x.timer \in BOOLEAN /\ x.asked \in BOOLEAN
      BY <2>2, Zenon
    <3>3. \A f \in CallerTyped : x[f] \in CallerTypes[f]
      BY <3>1, <3>2, CallerTypesAre, Zenon DEF CallerTyped, CallerFields
    <3> QED BY <2>2, <3>3, Zenon DEF IsCaller
  <2>4. CASE c \notin h.users
    <3>1. caller[c] = x
      BY <2>1, <2>4 DEF H1Init
    <3> QED BY <2>2, <2>3, <3>1, Zenon
  <2>5. CASE c \in h.users
    <3>1. caller[c] = Sending(CallerInit, 0, h.method)
      BY <2>5 DEF H1Init
    <3>2. PICK y : y = [x EXCEPT !.pc = "getconn", !.hop = 0, !.method = h.method, !.timer = h.timeout,
                          !.asked = x.asked]
      OBVIOUS
    <3>3. caller[c] = y
      BY <2>1, <3>1, <3>2, Zenon DEF Sending
    <3>4. CallerBut(x, y, {"pc", "hop", "method", "timer", "asked"})
      BY <2>2, <3>2, Zenon DEF CallerBut, CallerFields
    <3>5. y.pc = "getconn" /\ y.hop = 0 /\ y.method = h.method /\ y.timer = h.timeout /\ y.asked = x.asked
      BY <2>2, <3>2, Zenon DEF CallerFields
    <3>6. y.pc \in Pcs /\ y.hop \in Hops \cap Nat /\ y.method \in Methods
      BY <1>1, <3>5 DEF Pcs
    <3>7. y.timer \in BOOLEAN /\ y.asked \in BOOLEAN
      BY <1>1, <2>2, <3>5, Zenon
    <3>8. \A f \in {"pc", "hop", "method", "timer", "asked"} \cap CallerTyped : y[f] \in CallerTypes[f]
      BY <3>6, <3>7, CallerTypesAre, Zenon
    <3>9. IsCaller(y)
      BY <2>3, <3>4, <3>8, CallerRetyped
    <3>10. y.pc \in {"getconn", "done"} /\ y.hop = 0
      BY <3>5
    <3> QED BY <3>3, <3>9, <3>10
  <2> QED BY <2>4, <2>5
<1>3. AreCallers(caller)
  BY <1>2 DEF H1Init, AreCallers
<1>4. AreConns(conn) /\ \A i \in Conns : conn[i].writech = <<>>
  <2>1. conn = [i \in Conns |-> ConnInit]
    BY DEF H1Init
  <2>2. \A i \in Conns : conn[i] = ConnInit
    BY <2>1
  <2> QED BY <2>1, <2>2, ConnInitFacts DEF AreConns
<1>5. pool \in Pools
  <2>1. pool = [idle |-> [k \in Hosts |-> <<>>], lru |-> <<>>, wantIdle |-> FALSE]
    BY DEF H1Init
  <2> QED BY <2>1 DEF Pools
<1>6. reqCanceler \in [Reqs -> {"none", "nothing", "dial", "conn"}]
  BY DEF H1Init, Reqs
<1>7. H1Types /\ Holding
  <2>1. \A c \in Callers : caller[c].hop <= h.redirects /\ Sound(caller[c])
    <3>1. \A c \in Callers : caller[c].hop = 0 /\ caller[c].pc \in {"getconn", "done"}
      BY <1>2
    <3>2. \A c \in Callers : Sound(caller[c])
      BY <3>1 DEF Sound
    <3>3. 0 <= h.redirects
      <4>1. h.redirects \in Nat
        BY <1>1
      <4> QED BY <4>1
    <3> QED BY <3>1, <3>2, <3>3
  <2>2. \A c \in Callers : caller[c].pc \notin {"start", "wait", "map", "body", "eof"}
    BY <1>2
  <2>3. seen \in SUBSET (Reqs \X Conns)
    BY <1>1
  <2> QED BY <1>1, <1>3, <1>4, <1>5, <1>6, <2>1, <2>2, <2>3, Zenon DEF H1Types, Holding
<1>8. \A q, i : i \in Conns => Absent(q, i)
  BY <1>1, <1>4 DEF Absent, Pends
<1>9. Earlier
  BY <1>8 DEF Earlier, Absent
<1>10. \A c \in Callers : OnceOK(c)
  BY <1>2, <1>8 DEF OnceOK, Awaits
<1> QED BY <1>7, <1>9, <1>10 DEF Once

LEMMA OnceNext == Once /\ [H1Next]_h1Vars => Once'
<1> SUFFICES ASSUME Once, [H1Next]_h1Vars PROVE Once'
  OBVIOUS
<1>1. H1Types /\ Holding
  BY DEF Once
<1>2. ASSUME NEW c \in Callers, CallerStep(c) PROVE Once'
  <2>1. CASE roundTrip(c)
    BY <2>1, RoundTripOnce
  <2>2. CASE Steady
    BY <2>2, SteadyOnce
  <2> QED BY <1>1, <1>2, <2>1, <2>2, GetIdleSteady, JoinSteady, DialCanceledSteady, DialAnswersSteady,
             WriteFailedSteady, ConnClosedSteady, MapErrorSteady, CancelingSteady, TimerSteady,
             ReadBodySteady, BodySteady DEF CallerStep
<1>3. ASSUME NEW i \in Conns, ConnStep(i) PROVE Once'
  <2>1. CASE Write(i)
    BY <2>1, WriteOnce
  <2>2. CASE WriteReports(i)
    BY <2>2, WriteReportsOnce
  <2>3. CASE Steady
    BY <2>3, SteadyOnce
  <2> QED BY <1>1, <1>3, <2>1, <2>2, <2>3, PendingDialSteady, PeekSteady, ReadResponseSteady, RecycleSteady,
             DeliverSteady, AwaitBodySteady, ReadLoopEndsSteady, WriteLoopEndsSteady, SurroundingsSteady DEF ConnStep
<1>4. ASSUME Surroundings PROVE Once'
  <2>1. Steady
    BY <1>1, <1>4, CancelingSteady, SurroundingsSteady, CloseIdleSteady DEF Surroundings
  <2> QED BY <2>1, SteadyOnce
<1>5. CASE UNCHANGED h1Vars
  BY <1>5, ZenonT(40) DEF Once, H1Types, Holding, Earlier, OnceOK, Waiting, Absent, Req, HostOf, h1Vars
<1> QED BY <1>2, <1>3, <1>4, <1>5 DEF H1Next, H1Client

LEMMA OnceSent == Once => SentOnce
<1> SUFFICES ASSUME Once, NEW c \in Callers, ~isReplayable(caller[c].method)
             PROVE  Cardinality({s \in seen : s[1] = Req(c)}) <= 1
  BY DEF SentOnce
<1> DEFINE S == {s \in seen : s[1] = Req(c)}
<1>1. \A s, t \in S : s = t
  <2> SUFFICES ASSUME NEW s \in S, NEW t \in S PROVE s = t
    OBVIOUS
  <2>1. PICK i, j \in Conns : s = <<Req(c), i>> /\ t = <<Req(c), j>>
    BY DEF Once, H1Types
  <2>2. i = j \/ Absent(Req(c), i) \/ Absent(Req(c), j)
    BY DEF Once, OnceOK
  <2> QED BY <2>1, <2>2 DEF Absent
<1>2. CASE S = {}
  BY <1>2, FS_EmptySet
<1>3. CASE S # {}
  <2>1. PICK s : s \in S
    BY <1>3
  <2>2. S = {s}
    BY <1>1, <2>1
  <2> QED BY <2>2, FS_Singleton
<1> QED BY <1>2, <1>3

-----------------------------------------------------------------------------
(* The pool of idle connections.  The readLoop gives a connection to the   *)
(* pool before it delivers a response without a body: until then the       *)
(* caller is leaving, and the connection may have another user already.    *)
Errors == {"read error", "bad response"}
Leaving(k, a, q) == a.pc \in Awaits /\ k.r = "deliver" /\ k.rc = q /\ ~HasBody(k.res)
(* The readLoop has a response that keeps the connection out of the pool.  *)
Busy(k) ==
    \/ k.r \in {"recycle", "body"}
    \/ k.r = "deliver" /\ (HasBody(k.res) \/ ~k.alive \/ k.res \in Errors)
(* An open connection that waits for a request, or will.                   *)
Free(k) ==
    /\ k.dial = "up" /\ k.closed = Unset /\ ~k.fired /\ k.expected = 0
    /\ k.r = "peek" \/ (k.r = "deliver" /\ ~Busy(k))

(* What holds of connection i with record k, where L are the listed ones.  *)
ConnKept(k, L, i) ==
    /\ k.dial # "up" => k.r = "peek" /\ k.reqch = <<>> /\ i \notin L
    /\ k.expected >= 0 /\ (k.r = "take" => k.expected > 0)
    /\ k.w = "done" => k.closed # Unset
    /\ k.r \in {"peek", "take", "recycle", "deliver"} => k.bodyRead = <<>>
    /\ k.down \in Seq(Frames) /\ (k.r = "take" /\ k.peeked => k.down # <<>>)
    /\ k.r = "recycle" => k.res \notin Errors
    /\ k.r = "body" => HasBody(k.res)
    /\ k.reqch # <<>> => i \notin L
    /\ Busy(k) => k.reqch = <<>> /\ i \notin L
(* What holds of a caller a, with request q, that has that connection.     *)
UserKept(k, a, q, L, i) ==
    /\ k.dial = "up"
    /\ i \in L => Leaving(k, a, q)
    /\ a.pc = "start" => k.reqch = <<>> /\ ~Busy(k)
    /\ a.pc \in Awaits =>
        /\ k.reqch # <<>> => Leaving(k, a, q) \/ q = k.reqch[1]
        /\ Busy(k) => q = k.rc /\ k.r # "body" /\ (k.r = "recycle" => ~HasBody(k.res))
    /\ a.pc \in Past =>
        /\ k.r \in {"body", "recycle", "exit", "gone"}
        /\ k.r \in {"body", "recycle"} => q[1] = k.rc[1]
        /\ k.r = "recycle" => HasBody(k.res) /\ a.pc = "eof"
        /\ k.r = "body" /\ a.pc # "eof" => k.bodyRead = <<>>
Of(c, a) == <<c, a.hop>>
Holds(k, a, c, i) ==
    a.conn = i /\ a.pc \in {"start", "wait", "map", "body", "eof"} /\ ~Leaving(k, a, Of(c, a))
UsersKept(k, K, L, i) ==
    /\ \A c \in Callers : K[c].conn = i => UserKept(k, K[c], Of(c, K[c]), L, i)
    /\ \A c, d \in Callers : K[c].conn = i /\ K[d].conn = i =>
            c = d \/ Leaving(k, K[c], Of(c, K[c])) \/ Leaving(k, K[d], Of(d, K[d]))
KeptConn(k, K, L, i) ==
    /\ ConnKept(k, L, i) /\ UsersKept(k, K, L, i)
    /\ Free(k) => i \in L \/ \E c \in Callers : Holds(k, K[c], c, i)

Unattached(K) == \A c \in Callers : K[c].pc \in {"getconn", "join", "select"} => K[c].conn = None
(* The lists of the pool P agree with each other and with the connections C. *)
Agree(P, C) ==
    /\ \A x \in Hosts : /\ IsInjective(P.idle[x]) /\ Len(P.idle[x]) <= h.perHost
                        /\ \A i \in Range(P.idle[x]) : C[i].key = x
    /\ IsInjective(P.lru) /\ Range(P.lru) = UNION {Range(P.idle[x]) : x \in Hosts}
Lists(P, C) == Agree(P, C) /\ (h.maxIdle # 0 => Len(P.lru) <= h.maxIdle)
Pooled ==
    /\ Unattached(caller) /\ Lists(pool, conn)
    /\ \A i \in Conns : KeptConn(conn[i], caller, Range(pool.lru), i)

-----------------------------------------------------------------------------
LEMMA RangeFacts ==
    ASSUME NEW S, NEW s \in Seq(S), NEW x \in S
    PROVE  /\ Range(s) \subseteq S /\ Range(<<>>) = {} /\ IsInjective(<<>>)
           /\ Range(Append(s, x)) = Range(s) \cup {x} /\ Range(<<x>> \o s) = Range(s) \cup {x}
           /\ IsInjective(s) /\ x \notin Range(s) => IsInjective(Append(s, x)) /\ IsInjective(<<x>> \o s)
           /\ Len(Append(s, x)) = Len(s) + 1 /\ Len(<<x>> \o s) = Len(s) + 1
<1>1. /\ DOMAIN s = 1..Len(s) /\ Len(s) \in Nat /\ \A n \in 1..Len(s) : s[n] \in S
  OBVIOUS
<1>2. PICK t : t = Append(s, x)
  OBVIOUS
<1>3. t \in Seq(S) /\ Len(t) = Len(s) + 1 /\ t[Len(s) + 1] = x /\ \A n \in 1..Len(s) : t[n] = s[n]
  BY <1>2
<1>4. PICK u : u = <<x>> \o s
  OBVIOUS
<1>5. u \in Seq(S) /\ Len(u) = Len(s) + 1 /\ u[1] = x /\ \A n \in 1..Len(s) : u[n + 1] = s[n]
  BY <1>4
<1>6. DOMAIN t = 1..(Len(s) + 1) /\ DOMAIN u = 1..(Len(s) + 1)
  BY <1>3, <1>5
<1>7. Range(s) \subseteq S /\ Range(<<>>) = {} /\ IsInjective(<<>>)
  BY <1>1 DEF Range, IsInjective
<1>8. Range(t) = Range(s) \cup {x}
  BY <1>1, <1>3, <1>6 DEF Range
<1>9. Range(u) = Range(s) \cup {x}
  <2>1. \A n \in 1..(Len(s) + 1) : n = 1 \/ (n - 1 \in 1..Len(s) /\ u[n] = s[n - 1])
    <3> SUFFICES ASSUME NEW n \in 1..(Len(s) + 1), n # 1 PROVE n - 1 \in 1..Len(s) /\ u[n] = s[n - 1]
      OBVIOUS
    <3>1. n - 1 \in 1..Len(s) /\ (n - 1) + 1 = n
      BY <1>1
    <3> QED BY <1>5, <3>1
  <2>2. \A n \in 1..Len(s) : n + 1 \in 1..(Len(s) + 1) /\ 1 \in 1..(Len(s) + 1)
    BY <1>1
  <2>3. 1 \in 1..(Len(s) + 1)
    BY <1>1
  <2>4. \A y \in Range(u) : y \in Range(s) \cup {x}
    <3> SUFFICES ASSUME NEW n \in 1..(Len(s) + 1) PROVE u[n] \in Range(s) \cup {x}
      BY <1>6 DEF Range
    <3> QED BY <1>1, <1>5, <2>1 DEF Range
  <2>5. \A y \in Range(s) : \E n \in DOMAIN u : u[n] = y
    BY <1>1, <1>5, <1>6, <2>2 DEF Range
  <2>6. \E n \in DOMAIN u : u[n] = x
    BY <1>5, <1>6, <2>3
  <2>7. \A y : (\E n \in DOMAIN u : u[n] = y) => y \in Range(u)
    BY DEF Range
  <2> QED BY <2>4, <2>5, <2>6, <2>7
<1>10. ASSUME IsInjective(s), x \notin Range(s) PROVE IsInjective(t) /\ IsInjective(u)
  <2>1. \A n \in 1..Len(s) : s[n] # x
    BY <1>1, <1>10 DEF Range
  <2>2. \A m, n \in 1..Len(s) : s[m] = s[n] => m = n
    BY <1>1, <1>10 DEF IsInjective
  <2>3. IsInjective(t)
    BY <1>1, <1>3, <1>6, <2>1, <2>2 DEF IsInjective
  <2>4. \A n \in 1..(Len(s) + 1) : n = 1 \/ (n - 1 \in 1..Len(s) /\ u[n] = s[n - 1])
    <3> SUFFICES ASSUME NEW n \in 1..(Len(s) + 1), n # 1 PROVE n - 1 \in 1..Len(s) /\ u[n] = s[n - 1]
      OBVIOUS
    <3>1. n - 1 \in 1..Len(s) /\ (n - 1) + 1 = n
      BY <1>1
    <3> QED BY <1>5, <3>1
  <2>5. \A m, n \in 1..(Len(s) + 1) : u[m] = u[n] => m = n
    BY <1>1, <1>5, <2>1, <2>2, <2>4
  <2> QED BY <1>6, <2>3, <2>5 DEF IsInjective
<1> QED BY <1>2, <1>3, <1>4, <1>5, <1>7, <1>8, <1>9, <1>10

LEMMA SettingFacts ==
    ASSUME H1Types
    PROVE  h.perHost \in Nat /\ h.maxIdle \in Nat
  BY TypeFacts DEF Setting

(* The lists stay as they are, and so do the keys of the connections.      *)
LEMMA ListsStay ==
    ASSUME NEW P \in Pools, NEW P2, P2.idle = P.idle, P2.lru = P.lru, NEW C, NEW C2,
           \A j \in Range(P.lru) : C2[j].key = C[j].key, Lists(P, C)
    PROVE  Lists(P2, C2)
<1>1. \A x \in Hosts : Range(P.idle[x]) \subseteq Range(P.lru)
  BY DEF Lists, Agree
<1> QED BY <1>1 DEF Lists, Agree

(* A connection is unlisted.                                               *)
LEMMA ListsUnlisted ==
    ASSUME NEW P \in Pools, NEW C, Agree(P, C), NEW i \in Conns, NEW P2, C[i].key \in Hosts, P2 = Unlist(P, i, C[i].key), H1Types
    PROVE  /\ Agree(P2, C) /\ P2 \in Pools /\ Range(P2.lru) = Range(P.lru) \ {i} /\ Len(P2.lru) <= Len(P.lru)
           /\ i \in Range(P.lru) => Len(P2.lru) < Len(P.lru)
<1>0. PICK key \in Hosts : key = C[i].key
  OBVIOUS
<1>1. /\ P2 \in Pools /\ P2.idle[key] = Without(P.idle[key], {i}) /\ P2.lru = Without(P.lru, {i})
      /\ \A x \in Hosts \ {key} : P2.idle[x] = P.idle[x]
  <2>1. P2 = Unlist(P, i, key)
    BY <1>0
  <2>2. P2 \in Pools
    <3>1. \A p \in Pools, j \in Conns, y \in Hosts : Unlist(p, j, y) \in Pools
      BY UnlistFacts
    <3> QED BY <2>1, <3>1
  <2>3. PICK s, t : s = Without(P.idle[key], {i}) /\ t = Without(P.lru, {i})
    OBVIOUS
  <2>4. PICK d : d = [P.idle EXCEPT ![key] = s]
    OBVIOUS
  <2>5. P2 = [P EXCEPT !.idle = d, !.lru = t]
    BY <2>1, <2>3, <2>4, Zenon DEF Unlist
  <2>6. P.idle \in [Hosts -> Seq(Conns)]
    BY DEF Pools
  <2>7. d[key] = s /\ \A x \in Hosts \ {key} : d[x] = P.idle[x]
    BY <2>4, <2>6
  <2>8. P2.idle = d /\ P2.lru = t
    BY <2>5 DEF Pools
  <2> QED BY <2>2, <2>3, <2>7, <2>8
<1>2. P.lru \in Seq(Conns) /\ \A x \in Hosts : P.idle[x] \in Seq(Conns)
  BY DEF Pools
<1>3. /\ Range(P2.lru) = Range(P.lru) \ {i} /\ Len(P2.lru) <= Len(P.lru) /\ IsInjective(P2.lru)
      /\ i \in Range(P.lru) => Len(P2.lru) < Len(P.lru)
  <2>1. IsInjective(P.lru)
    BY DEF Agree
  <2>2. i \in Range(P.lru) => \E x \in Range(P.lru) : x \in {i}
    OBVIOUS
  <2> QED BY <1>1, <1>2, <2>1, <2>2, WithoutProperties
<1>4. Range(P2.idle[key]) = Range(P.idle[key]) \ {i} /\ Len(P2.idle[key]) <= Len(P.idle[key]) /\ IsInjective(P2.idle[key])
  BY <1>1, <1>2, WithoutProperties DEF Agree
<1>5. \A x \in Hosts : Len(P.idle[x]) \in Nat /\ Len(P2.idle[x]) \in Nat
  BY <1>1, <1>2 DEF Pools
<1>6. \A x \in Hosts : Range(P2.idle[x]) = Range(P.idle[x]) \ {i}
  <2> SUFFICES ASSUME NEW x \in Hosts PROVE Range(P2.idle[x]) = Range(P.idle[x]) \ {i}
    OBVIOUS
  <2>1. CASE x # key
    <3>1. i \notin Range(P.idle[x])
      BY <1>0, <2>1 DEF Agree
    <3> QED BY <1>1, <2>1, <3>1
  <2> QED BY <1>4, <2>1
<1>7. \A x \in Hosts : IsInjective(P2.idle[x]) /\ Len(P2.idle[x]) <= h.perHost
  <2> SUFFICES ASSUME NEW x \in Hosts PROVE IsInjective(P2.idle[x]) /\ Len(P2.idle[x]) <= h.perHost
    OBVIOUS
  <2>1. CASE x = key
    BY <1>4, <1>5, <2>1, SettingFacts DEF Agree
  <2> QED BY <1>1, <2>1 DEF Agree
<1>8. Range(P2.lru) = UNION {Range(P2.idle[x]) : x \in Hosts}
  <2>1. Range(P.lru) = UNION {Range(P.idle[x]) : x \in Hosts}
    BY DEF Agree
  <2>2. \A y \in Range(P.lru) : \E x \in Hosts : y \in Range(P.idle[x])
    BY <2>1
  <2>3. \A x \in Hosts : Range(P.idle[x]) \subseteq Range(P.lru)
    BY <2>1
  <2>4. ASSUME NEW y \in Range(P2.lru) PROVE \E x \in Hosts : y \in Range(P2.idle[x])
    BY <1>3, <1>6, <2>2, <2>4
  <2>5. ASSUME NEW x \in Hosts, NEW y \in Range(P2.idle[x]) PROVE y \in Range(P2.lru)
    BY <1>3, <1>6, <2>3, <2>5
  <2> QED BY <2>4, <2>5
<1>9. \A x \in Hosts : \A j \in Range(P2.idle[x]) : C[j].key = x
  BY <1>6 DEF Agree
<1> QED BY <1>1, <1>3, <1>7, <1>8, <1>9 DEF Agree

(* A connection is listed.                                                 *)
LEMMA ListsListed ==
    ASSUME NEW P \in Pools, NEW C, Agree(P, C), NEW i \in Conns, i \notin Range(P.lru), C[i].key \in Hosts,
           NEW P2, Fits(P, i, C[i].key, P2), H1Types
    PROVE  /\ Agree(P2, C) /\ P2 \in Pools /\ Range(P2.lru) = Range(P.lru) \cup {i} /\ Len(P2.lru) = Len(P.lru) + 1
<1>0. PICK key \in Hosts : key = C[i].key
  OBVIOUS
<1>1. /\ P2 \in Pools /\ P2.idle[key] = Append(P.idle[key], i) /\ P2.lru = <<i>> \o P.lru
      /\ \A x \in Hosts \ {key} : P2.idle[x] = P.idle[x]
  <2>1. P2 = List(P, i, key)
    BY <1>0 DEF Fits
  <2> QED BY <2>1, ListFacts, SMTT(60)
<1>2. P.lru \in Seq(Conns) /\ \A x \in Hosts : P.idle[x] \in Seq(Conns) /\ Len(P.idle[x]) \in Nat
  BY DEF Pools
<1>3. i \notin Range(P.idle[key]) /\ Range(P.idle[key]) \subseteq Range(P.lru)
  BY DEF Agree
<1>4. /\ Range(P2.lru) = Range(P.lru) \cup {i} /\ Len(P2.lru) = Len(P.lru) + 1 /\ IsInjective(P2.lru)
  BY <1>1, <1>2, RangeFacts DEF Agree
<1>5. Range(P2.idle[key]) = Range(P.idle[key]) \cup {i} /\ Len(P2.idle[key]) = Len(P.idle[key]) + 1 /\ IsInjective(P2.idle[key])
  BY <1>1, <1>2, <1>3, RangeFacts DEF Agree
<1>6. Len(P.idle[key]) < h.perHost
  BY <1>0 DEF Fits
<1>7. \A x \in Hosts : IsInjective(P2.idle[x]) /\ Len(P2.idle[x]) <= h.perHost
  <2> SUFFICES ASSUME NEW x \in Hosts PROVE IsInjective(P2.idle[x]) /\ Len(P2.idle[x]) <= h.perHost
    OBVIOUS
  <2>1. CASE x = key
    <3>1. Len(P.idle[key]) \in Nat /\ h.perHost \in Nat
      BY <1>2, SettingFacts
    <3> QED BY <1>5, <1>6, <2>1, <3>1
  <2> QED BY <1>1, <2>1 DEF Agree
<1>8. Range(P2.lru) = UNION {Range(P2.idle[x]) : x \in Hosts}
  <2>1. \A x \in Hosts : x # key => Range(P2.idle[x]) = Range(P.idle[x])
    BY <1>1
  <2> QED BY <1>4, <1>5, <2>1 DEF Agree
<1>9. \A x \in Hosts : \A j \in Range(P2.idle[x]) : C[j].key = x
  BY <1>0, <1>1, <1>5 DEF Agree
<1> QED BY <1>1, <1>4, <1>7, <1>8, <1>9 DEF Agree

(* The newest connections of a host are dropped from the lists, down to    *)
(* the one that is taken.                                                  *)
LEMMA ListsTaken ==
    ASSUME H1Types, NEW C, Lists(pool, C), NEW key \in Hosts, NEW p, NEW P2, NEW keep, Takes(key, p, P2, keep)
    PROVE  /\ Lists(P2, C) /\ Range(P2.lru) \subseteq Range(pool.lru)
           /\ \A j \in Range(pool.lru) : j \in Range(P2.lru) \/ j = p \/ ~Usable(j)
           /\ p # None => p \in Range(pool.lru) /\ p \notin Range(P2.lru)
<1>1. PICK s : s = pool.idle[key]
  OBVIOUS
<1>2. /\ pool \in Pools /\ pool.lru \in Seq(Conns) /\ s \in Seq(Conns) /\ Len(s) \in Nat /\ DOMAIN s = 1..Len(s)
      /\ \A x \in Hosts : pool.idle[x] \in Seq(Conns)
  BY <1>1 DEF H1Types, Pools
<1>3. /\ P2 \in Pools /\ keep \in 0..Len(s) /\ P2.idle[key] = SubSeq(s, 1, keep)
      /\ \A x \in Hosts \ {key} : P2.idle[x] = pool.idle[x]
      /\ P2.lru = Without(pool.lru, {s[n] : n \in (keep + 1)..Len(s)})
  BY <1>1 DEF Takes
<1>4. PICK gone : gone = {s[n] : n \in (keep + 1)..Len(s)}
  OBVIOUS
<1>5. Agree(pool, C) /\ IsInjective(s) /\ IsInjective(pool.lru)
  BY <1>1 DEF Lists, Agree
<1>6. /\ Range(P2.lru) = Range(pool.lru) \ gone /\ Len(P2.lru) <= Len(pool.lru) /\ IsInjective(P2.lru)
      /\ P2.lru \in Seq(Conns)
  <2>1. P2.lru = Without(pool.lru, gone)
    BY <1>3, <1>4
  <2> QED BY <1>2, <1>5, <2>1, WithoutProperties
<1>7. PICK t : t = SubSeq(s, 1, keep)
  OBVIOUS
<1>8. t \in Seq(Conns) /\ Len(t) = keep /\ DOMAIN t = 1..keep /\ \A n \in 1..keep : t[n] = s[n] /\ n \in 1..Len(s)
  BY <1>2, <1>3, <1>7
<1>9. \A m, n \in 1..Len(s) : s[m] = s[n] => m = n
  BY <1>2, <1>5 DEF IsInjective
<1>10. Range(t) = Range(s) \ gone /\ IsInjective(t) /\ gone \subseteq Range(s)
  <2>1. gone \subseteq Range(s)
    <3> SUFFICES ASSUME NEW n \in (keep + 1)..Len(s) PROVE s[n] \in Range(s)
      BY <1>4
    <3>1. n \in 1..Len(s)
      BY <1>2, <1>3
    <3> QED BY <1>2, <3>1 DEF Range
  <2>2. ASSUME NEW n \in 1..keep PROVE t[n] \in Range(s) /\ t[n] \notin gone
    <3>1. n \in 1..Len(s) /\ t[n] = s[n]
      BY <1>8, <2>2
    <3>2. ASSUME NEW m \in (keep + 1)..Len(s) PROVE s[m] # s[n]
      <4>1. m \in 1..Len(s) /\ m # n
        BY <1>2, <1>3, <2>2, <3>2
      <4> QED BY <1>9, <3>1, <4>1
    <3> QED BY <1>2, <1>4, <3>1, <3>2 DEF Range
  <2>3. ASSUME NEW n \in 1..Len(s), s[n] \notin gone PROVE n \in 1..keep /\ t[n] = s[n]
    <3>1. n \notin (keep + 1)..Len(s)
      BY <1>4, <2>3
    <3>2. n \in 1..keep
      BY <1>2, <1>3, <2>3, <3>1
    <3> QED BY <1>8, <3>2
  <2>4. IsInjective(t)
    BY <1>8, <1>9 DEF IsInjective
  <2>5. \A y \in Range(t) : y \in Range(s) /\ y \notin gone
    BY <1>8, <2>2 DEF Range
  <2>6. \A y \in Range(s) : y \notin gone => y \in Range(t)
    BY <1>2, <1>8, <2>3 DEF Range
  <2> QED BY <2>1, <2>4, <2>5, <2>6
<1>11. \A x \in Hosts \ {key} : Range(P2.idle[x]) = Range(pool.idle[x]) /\ Range(pool.idle[x]) \cap gone = {}
  <2> SUFFICES ASSUME NEW x \in Hosts \ {key}, NEW y \in Range(pool.idle[x]) PROVE y \notin gone
    BY <1>3
  <2>1. C[y].key = x /\ \A z \in Range(s) : C[z].key = key
    BY <1>1, <1>5 DEF Agree
  <2> QED BY <1>10, <2>1
<1>12. \A x \in Hosts : Range(P2.idle[x]) = Range(pool.idle[x]) \ gone
  <2> SUFFICES ASSUME NEW x \in Hosts PROVE Range(P2.idle[x]) = Range(pool.idle[x]) \ gone
    OBVIOUS
  <2>1. CASE x = key
    BY <1>1, <1>3, <1>7, <1>10, <2>1
  <2>2. CASE x # key
    BY <1>11, <2>2
  <2> QED BY <2>1, <2>2
<1>13. \A x \in Hosts : IsInjective(P2.idle[x]) /\ Len(P2.idle[x]) <= h.perHost
  <2> SUFFICES ASSUME NEW x \in Hosts PROVE IsInjective(P2.idle[x]) /\ Len(P2.idle[x]) <= h.perHost
    OBVIOUS
  <2>1. CASE x = key
    <3>1. Len(s) <= h.perHost /\ h.perHost \in Nat
      BY <1>1, <1>5, SettingFacts DEF Agree
    <3>2. keep \in Nat /\ keep <= Len(s)
      BY <1>2, <1>3
    <3>3. keep <= h.perHost
      BY <1>2, <3>1, <3>2
    <3> QED BY <1>3, <1>7, <1>8, <1>10, <2>1, <3>3
  <2> QED BY <1>3, <1>5, <2>1 DEF Agree
<1>14. Range(P2.lru) = UNION {Range(P2.idle[x]) : x \in Hosts}
  <2>1. Range(pool.lru) = UNION {Range(pool.idle[x]) : x \in Hosts}
    BY <1>5 DEF Agree
  <2>2. \A y \in Range(pool.lru) : \E x \in Hosts : y \in Range(pool.idle[x])
    BY <2>1
  <2>3. \A x \in Hosts : Range(pool.idle[x]) \subseteq Range(pool.lru)
    BY <2>1
  <2>4. ASSUME NEW y \in Range(P2.lru) PROVE \E x \in Hosts : y \in Range(P2.idle[x])
    BY <1>6, <1>12, <2>2, <2>4
  <2>5. ASSUME NEW x \in Hosts, NEW y \in Range(P2.idle[x]) PROVE y \in Range(P2.lru)
    BY <1>6, <1>12, <2>3, <2>5
  <2> QED BY <2>4, <2>5
<1>15. \A x \in Hosts : \A j \in Range(P2.idle[x]) : C[j].key = x
  BY <1>5, <1>12 DEF Agree
<1>16. h.maxIdle # 0 => Len(P2.lru) <= h.maxIdle
  <2>1. h.maxIdle \in Nat /\ Len(pool.lru) \in Nat /\ Len(P2.lru) \in Nat
    BY <1>2, <1>6, SettingFacts
  <2> QED BY <1>6, <2>1 DEF Lists
<1>17. Lists(P2, C)
  BY <1>6, <1>13, <1>14, <1>15, <1>16 DEF Lists, Agree
<1>18. \A j \in gone : j = p \/ ~Usable(j)
  <2> SUFFICES ASSUME NEW n \in (keep + 1)..Len(s) PROVE s[n] = p \/ ~Usable(s[n])
    BY <1>4
  <2>1. CASE p = None
    <3>1. n \in 1..Len(s) /\ p \notin Conns
      BY <1>2, <1>3, <2>1, TypeFacts
    <3> QED BY <1>1, <3>1 DEF Takes
  <2>2. CASE p # None
    <3>1. p = s[keep + 1] /\ \A m \in (keep + 2)..Len(s) : ~Usable(s[m])
      BY <1>1, <2>2 DEF Takes
    <3>2. n = keep + 1 \/ n \in (keep + 2)..Len(s)
      BY <1>2, <1>3
    <3> QED BY <3>1, <3>2
  <2> QED BY <2>1, <2>2
<1>19. p # None => p \in gone
  <2> SUFFICES ASSUME p # None PROVE p \in gone
    OBVIOUS
  <2>1. p = s[keep + 1] /\ keep < Len(s)
    BY <1>1 DEF Takes
  <2>2. keep + 1 \in (keep + 1)..Len(s)
    BY <1>2, <1>3, <2>1
  <2> QED BY <1>4, <2>1, <2>2
<1>20. Range(s) \subseteq Range(pool.lru)
  BY <1>1, <1>5 DEF Agree
<1> QED BY <1>6, <1>10, <1>17, <1>18, <1>19, <1>20

(* The outcome of an offer: i is listed, and the oldest, j, has to go.     *)
PushesOut(C, P, i, p, j, D) ==
    /\ Lists(p.pool, C) /\ Range(p.pool.lru) = (Range(P.lru) \cup {i}) \ {j} /\ j # i /\ p.pool \in Pools
    /\ AreConns(D) /\ Reuses(C, D, i) /\ p.conn = Close(D, j, "too many idle")

LEMMA ListsEvicted ==
    ASSUME H1Types, NEW P \in Pools, NEW C, AreConns(C), Lists(P, C), NEW i \in Conns, i \notin Range(P.lru), NEW p,
           Evicts(C, P, i, p)
    PROVE  \E j \in Conns : \E D : PushesOut(C, P, i, p, j, D)
<1>1. PICK M \in Pools : \E D :
         /\ Fits(P, i, C[i].key, M) /\ Len(M.lru) > h.maxIdle
         /\ AreConns(D) /\ Reuses(C, D, i)
         /\ p.pool = Unlist(M, Last(M.lru), C[Last(M.lru)].key)
         /\ p.conn = Close(D, Last(M.lru), "too many idle")
  BY DEF Evicts
<1>2. PICK D :
         /\ Fits(P, i, C[i].key, M) /\ Len(M.lru) > h.maxIdle
         /\ AreConns(D) /\ Reuses(C, D, i)
         /\ p.pool = Unlist(M, Last(M.lru), C[Last(M.lru)].key)
         /\ p.conn = Close(D, Last(M.lru), "too many idle")
  BY <1>1
<1>3. \A j \in Conns : C[j].key \in Hosts
  BY ConnFacts DEF AreConns
<1>4. Agree(P, C) /\ (h.maxIdle # 0 => Len(P.lru) <= h.maxIdle) /\ h.maxIdle # 0
  BY DEF Lists, Evicts
<1>5. Agree(M, C) /\ Range(M.lru) = Range(P.lru) \cup {i} /\ Len(M.lru) = Len(P.lru) + 1
  <2>1. Fits(P, i, C[i].key, M) /\ C[i].key \in Hosts /\ Agree(P, C)
    BY <1>2, <1>3, <1>4
  <2> QED BY <2>1, ListsListed
<1>6. /\ P.lru \in Seq(Conns) /\ M.lru \in Seq(Conns) /\ Len(P.lru) \in Nat /\ Len(M.lru) \in Nat
      /\ h.maxIdle \in Nat
  BY SettingFacts DEF Pools
<1>7. M.lru = <<i>> \o P.lru
  BY <1>2 DEF Fits, List, Pools
<1>8. PICK j : j = Last(M.lru)
  OBVIOUS
<1>9. j = P.lru[Len(P.lru)] /\ Len(P.lru) > 0
  <2>1. Len(P.lru) > 0
    <3>1. Len(M.lru) > h.maxIdle /\ h.maxIdle # 0 /\ Len(M.lru) = Len(P.lru) + 1
      BY <1>2, <1>4, <1>5
    <3> QED BY <1>6, <3>1
  <2>2. M.lru[Len(P.lru) + 1] = P.lru[Len(P.lru)]
    BY <1>6, <1>7, <2>1
  <2> QED BY <1>5, <1>8, <2>1, <2>2 DEF Last
<1>10. j \in Range(P.lru) /\ j \in Conns /\ j # i
  <2>1. Len(P.lru) \in DOMAIN P.lru
    BY <1>6, <1>9
  <2>2. j \in Range(P.lru)
    BY <1>9, <2>1 DEF Range
  <2> QED BY <1>6, <2>2 DEF Range
<1>11. p.pool = Unlist(M, j, C[j].key) /\ p.conn = Close(D, j, "too many idle")
  BY <1>2, <1>8
<1>12. Agree(p.pool, C) /\ p.pool \in Pools /\ Range(p.pool.lru) = Range(M.lru) \ {j} /\ Len(p.pool.lru) < Len(M.lru)
  BY <1>3, <1>5, <1>10, <1>11, ListsUnlisted
<1>13. Len(p.pool.lru) <= h.maxIdle
  <2>1. Len(p.pool.lru) \in Nat
    BY <1>12 DEF Pools
  <2> QED BY <1>4, <1>5, <1>6, <1>12, <2>1
<1>14. Lists(p.pool, C)
  BY <1>12, <1>13 DEF Lists
<1>15. PushesOut(C, P, i, p, j, D)
  BY <1>2, <1>5, <1>10, <1>11, <1>12, <1>14 DEF PushesOut
<1> QED BY <1>10, <1>15

-----------------------------------------------------------------------------
(* A connection k2 of which nothing that matters to the pool has changed,  *)
(* but that it may have been closed, or its timer may have fired.          *)
Dull(k, k2) ==
    /\ k2.dial = k.dial /\ k2.r = k.r /\ k2.rc = k.rc /\ k2.res = k.res /\ k2.alive = k.alive
    /\ k2.reqch = k.reqch /\ k2.expected = k.expected /\ k2.bodyRead = k.bodyRead /\ k2.peeked = k.peeked
    /\ k2.down \in Seq(Frames) /\ (k.down # <<>> => k2.down # <<>>)
    /\ k.closed # Unset => k2.closed # Unset
    /\ k.fired => k2.fired
    /\ k2.w = "done" => k2.closed # Unset
(* A caller that stays where it is, and one that leaves connection i.      *)
Stays(a, b) == b.conn = a.conn /\ b.hop = a.hop /\ (b.pc = a.pc \/ (a.pc = "wait" /\ b.pc = "map"))
Remote(a, b, i) == a.conn # i /\ b.conn # i
Leaves(a, b, i) == a.conn = i /\ b.conn # i

LEMMA DullSame ==
    ASSUME NEW k, NEW L, NEW i, ConnKept(k, L, i)
    PROVE  Dull(k, k)
  BY DEF Dull, ConnKept

LEMMA DullFacts ==
    ASSUME NEW k, NEW k2, Dull(k, k2)
    PROVE  /\ Busy(k2) <=> Busy(k)
           /\ Free(k2) => Free(k)
           /\ \A a, b, q : Stays(a, b) => (Leaving(k2, b, q) <=> Leaving(k, a, q))
<1>1. Busy(k2) <=> Busy(k)
  BY DEF Dull, Busy
<1>2. Free(k2) => Free(k)
  BY <1>1 DEF Dull, Free
<1>3. ASSUME NEW a, NEW b, NEW q, Stays(a, b) PROVE Leaving(k2, b, q) <=> Leaving(k, a, q)
  BY <1>3 DEF Dull, Leaving, Stays, Awaits
<1> QED BY <1>1, <1>2, <1>3

LEMMA DullConn ==
    ASSUME NEW k, NEW k2, Dull(k, k2), NEW L, NEW L2, NEW i, i \in L2 => i \in L, ConnKept(k, L, i)
    PROVE  ConnKept(k2, L2, i)
<1>1. Busy(k2) <=> Busy(k)
  BY DullFacts
<1> QED BY <1>1 DEF Dull, ConnKept

LEMMA DullUser ==
    ASSUME NEW k, NEW k2, Dull(k, k2), NEW L, NEW L2, NEW i, i \in L2 => i \in L, NEW a, NEW b, Stays(a, b), NEW q,
           UserKept(k, a, q, L, i)
    PROVE  UserKept(k2, b, q, L2, i)
<1>1. (Busy(k2) <=> Busy(k)) /\ (Leaving(k2, b, q) <=> Leaving(k, a, q))
  BY DullFacts
<1>2. b.pc = "start" <=> a.pc = "start"
  BY DEF Stays
<1>3. b.pc \in Awaits <=> a.pc \in Awaits
  BY DEF Stays, Awaits
<1>4. b.pc \in Past => b.pc = a.pc
  BY DEF Stays, Past
<1>5. /\ k2.dial = k.dial /\ k2.r = k.r /\ k2.rc = k.rc /\ k2.res = k.res /\ k2.reqch = k.reqch
      /\ k2.bodyRead = k.bodyRead
  BY DEF Dull
<1> QED BY <1>1, <1>2, <1>3, <1>4, <1>5 DEF UserKept

(* Nothing but departures: the connection is kept as it was.               *)
LEMMA KeptStays ==
    ASSUME NEW i, NEW k, NEW k2, NEW K, NEW K2, NEW L, NEW L2, KeptConn(k, K, L, i), Dull(k, k2),
           i \in L2 => i \in L, i \in L => i \in L2 \/ ~Free(k2),
           \A c \in Callers : \/ Stays(K[c], K2[c]) \/ Remote(K[c], K2[c], i)
                              \/ Leaves(K[c], K2[c], i) /\ ~Free(k2)
    PROVE  KeptConn(k2, K2, L2, i)
<1>1. ConnKept(k2, L2, i)
  BY DullConn DEF KeptConn
<1>2. \A c \in Callers : K2[c].conn = i => K[c].conn = i /\ Stays(K[c], K2[c]) /\ Of(c, K2[c]) = Of(c, K[c])
  BY DEF Stays, Remote, Leaves, Of
<1>3. UsersKept(k, K, L, i)
  BY DEF KeptConn
<1>4. \A c \in Callers : K2[c].conn = i => UserKept(k2, K2[c], Of(c, K2[c]), L2, i)
  <2> SUFFICES ASSUME NEW c \in Callers, K2[c].conn = i PROVE UserKept(k2, K2[c], Of(c, K2[c]), L2, i)
    OBVIOUS
  <2>1. Stays(K[c], K2[c]) /\ Of(c, K2[c]) = Of(c, K[c]) /\ UserKept(k, K[c], Of(c, K[c]), L, i)
    BY <1>2, <1>3 DEF UsersKept
  <2> QED BY <2>1, DullUser
<1>5. \A c, d \in Callers : K2[c].conn = i /\ K2[d].conn = i =>
            c = d \/ Leaving(k2, K2[c], Of(c, K2[c])) \/ Leaving(k2, K2[d], Of(d, K2[d]))
  <2> SUFFICES ASSUME NEW c \in Callers, NEW d \in Callers, K2[c].conn = i, K2[d].conn = i, c # d
               PROVE  Leaving(k2, K2[c], Of(c, K2[c])) \/ Leaving(k2, K2[d], Of(d, K2[d]))
    OBVIOUS
  <2>1. /\ Stays(K[c], K2[c]) /\ Of(c, K2[c]) = Of(c, K[c]) /\ K[c].conn = i
        /\ Stays(K[d], K2[d]) /\ Of(d, K2[d]) = Of(d, K[d]) /\ K[d].conn = i
    BY <1>2
  <2>2. Leaving(k, K[c], Of(c, K[c])) \/ Leaving(k, K[d], Of(d, K[d]))
    BY <1>3, <2>1 DEF UsersKept
  <2> QED BY <2>1, <2>2, DullFacts
<1>6. ASSUME Free(k2) PROVE i \in L2 \/ \E c \in Callers : Holds(k2, K2[c], c, i)
  <2>1. Free(k) /\ (i \in L => i \in L2)
    BY <1>6, DullFacts
  <2>2. CASE i \in L
    BY <2>1, <2>2
  <2>3. CASE i \notin L
    <3>1. PICK c \in Callers : Holds(k, K[c], c, i)
      BY <2>1, <2>3 DEF KeptConn
    <3>2. K[c].conn = i /\ Stays(K[c], K2[c])
      BY <1>6, <3>1 DEF Holds, Remote
    <3>3. K2[c].conn = i /\ Of(c, K2[c]) = Of(c, K[c])
      BY <3>2 DEF Stays, Of
    <3>4. K2[c].pc \in {"start", "wait", "map", "body", "eof"}
      BY <3>1, <3>2 DEF Holds, Stays
    <3>5. ~Leaving(k2, K2[c], Of(c, K2[c]))
      BY <3>1, <3>2, <3>3, DullFacts DEF Holds
    <3> QED BY <3>3, <3>4, <3>5 DEF Holds
  <2> QED BY <2>2, <2>3
<1> QED BY <1>1, <1>4, <1>5, <1>6 DEF KeptConn, UsersKept

(* A listed connection is taken by d.                                      *)
LEMMA KeptTaken ==
    ASSUME NEW i, NEW k, NEW k2, NEW K, NEW K2, NEW L, NEW L2, KeptConn(k, K, L, i), Dull(k, k2), i \in L, i \notin L2,
           NEW d \in Callers, K[d].conn # i, K2[d].conn = i, K2[d].pc = "start",
           \A c \in Callers \ {d} : Stays(K[c], K2[c]) \/ Remote(K[c], K2[c], i)
    PROVE  KeptConn(k2, K2, L2, i)
<1>1. ConnKept(k2, L2, i)
  BY DullConn DEF KeptConn
<1>2. \A c \in Callers \ {d} : K2[c].conn = i => K[c].conn = i /\ Stays(K[c], K2[c]) /\ Of(c, K2[c]) = Of(c, K[c])
  BY DEF Stays, Remote, Of
<1>3. UsersKept(k, K, L, i)
  BY DEF KeptConn
<1>4. \A c \in Callers \ {d} : K2[c].conn = i =>
        UserKept(k2, K2[c], Of(c, K2[c]), L2, i) /\ Leaving(k2, K2[c], Of(c, K2[c]))
  <2> SUFFICES ASSUME NEW c \in Callers \ {d}, K2[c].conn = i
               PROVE  UserKept(k2, K2[c], Of(c, K2[c]), L2, i) /\ Leaving(k2, K2[c], Of(c, K2[c]))
    OBVIOUS
  <2>1. Stays(K[c], K2[c]) /\ Of(c, K2[c]) = Of(c, K[c]) /\ UserKept(k, K[c], Of(c, K[c]), L, i)
    BY <1>2, <1>3 DEF UsersKept
  <2>2. Leaving(k, K[c], Of(c, K[c]))
    BY <2>1 DEF UserKept
  <2> QED BY <2>1, <2>2, DullUser, DullFacts
<1>5. UserKept(k2, K2[d], Of(d, K2[d]), L2, i)
  <2>1. ConnKept(k, L, i)
    BY DEF KeptConn
  <2>2. k2.reqch = <<>> /\ ~Busy(k2) /\ k2.dial = "up"
    BY <2>1, DullFacts DEF ConnKept, Dull
  <2> QED BY <2>2 DEF UserKept, Awaits, Past
<1>6. Holds(k2, K2[d], d, i)
  BY DEF Holds, Leaving, Awaits
<1>7. UsersKept(k2, K2, L2, i)
  BY <1>4, <1>5 DEF UsersKept
<1> QED BY <1>1, <1>6, <1>7 DEF KeptConn

(* A connection is listed: all that have it are leaving.                   *)
LEMMA KeptListed ==
    ASSUME NEW i, NEW k, NEW K, NEW L, ConnKept(k, L, i), i \in L,
           \A c \in Callers : K[c].conn = i => Leaving(k, K[c], Of(c, K[c]))
    PROVE  KeptConn(k, K, L, i)
<1>1. k.dial = "up" /\ ~Busy(k)
  BY DEF ConnKept
<1>2. \A c \in Callers : K[c].conn = i => UserKept(k, K[c], Of(c, K[c]), L, i)
  <2> SUFFICES ASSUME NEW c \in Callers, K[c].conn = i PROVE UserKept(k, K[c], Of(c, K[c]), L, i)
    OBVIOUS
  <2>1. Leaving(k, K[c], Of(c, K[c]))
    OBVIOUS
  <2>2. K[c].pc \in Awaits
    BY <2>1 DEF Leaving
  <2>3. K[c].pc # "start" /\ K[c].pc \notin Past
    BY <2>2 DEF Awaits, Past
  <2> QED BY <1>1, <2>1, <2>3 DEF UserKept
<1> QED BY <1>2 DEF KeptConn, UsersKept

(* The readLoop of a connection has ended or is about to.                  *)
Ended(k, k2) ==
    /\ k.dial = "up" /\ k2.dial = "up" /\ k2.r \in {"exit", "gone"} /\ k2.reqch \in {k.reqch, <<>>} /\ k2.expected >= 0
    /\ k2.down \in Seq(Frames) /\ (k2.w = "done" => k2.closed # Unset)

LEMMA KeptEnds ==
    ASSUME NEW i, NEW k, NEW k2, NEW K, NEW K2, NEW L, NEW L2, KeptConn(k, K, L, i), Ended(k, k2), i \in L2 => i \in L,
           \A c \in Callers : \/ Stays(K[c], K2[c]) /\ (K[c].conn = i => ~Leaving(k, K[c], Of(c, K[c])))
                              \/ Remote(K[c], K2[c], i) \/ Leaves(K[c], K2[c], i)
    PROVE  KeptConn(k2, K2, L2, i)
<1>1. ~Busy(k2) /\ ~Free(k2) /\ \A a, q : ~Leaving(k2, a, q)
  BY DEF Ended, Busy, Free, Leaving
<1>2. ConnKept(k, L, i) /\ UsersKept(k, K, L, i)
  BY DEF KeptConn
<1>3. ConnKept(k2, L2, i)
  BY <1>1, <1>2 DEF Ended, ConnKept
<1>4. \A c \in Callers : K2[c].conn = i =>
        /\ K[c].conn = i /\ Stays(K[c], K2[c]) /\ Of(c, K2[c]) = Of(c, K[c]) /\ ~Leaving(k, K[c], Of(c, K[c]))
        /\ UserKept(k, K[c], Of(c, K[c]), L, i)
  BY <1>2 DEF Stays, Remote, Leaves, Of, UsersKept
<1>5. \A c, d \in Callers : K2[c].conn = i /\ K2[d].conn = i => c = d
  BY <1>2, <1>4 DEF UsersKept
<1>6. \A c \in Callers : K2[c].conn = i => UserKept(k2, K2[c], Of(c, K2[c]), L2, i)
  <2> SUFFICES ASSUME NEW c \in Callers, K2[c].conn = i PROVE UserKept(k2, K2[c], Of(c, K2[c]), L2, i)
    OBVIOUS
  <2>1. PICK a, b, q : a = K[c] /\ b = K2[c] /\ q = Of(c, K[c])
    OBVIOUS
  <2>2. Stays(a, b) /\ ~Leaving(k, a, q) /\ UserKept(k, a, q, L, i) /\ Of(c, K2[c]) = q
    BY <1>4, <2>1
  <2>3. i \notin L
    BY <2>2 DEF UserKept
  <2>4. b.pc = "start" => k2.reqch = <<>>
    BY <2>2 DEF UserKept, Stays, Ended
  <2>5. b.pc \in Awaits => (k2.reqch # <<>> => q = k2.reqch[1])
    BY <2>2 DEF UserKept, Stays, Ended, Awaits
  <2>6. k2.dial = "up" /\ k2.r \in {"exit", "gone"}
    BY DEF Ended
  <2> QED BY <1>1, <2>1, <2>2, <2>3, <2>4, <2>5, <2>6 DEF UserKept
<1> QED BY <1>1, <1>3, <1>5, <1>6 DEF KeptConn, UsersKept

-----------------------------------------------------------------------------
(* Steps of one connection that leave the lists and the callers alone.     *)
LEMMA StaysSelf ==
    ASSUME NEW a
    PROVE  Stays(a, a)
  BY DEF Stays

LEMMA PooledBy ==
    ASSUME h' = h, Unattached(caller'), Lists(pool', conn'),
           \A j \in Conns : KeptConn(conn'[j], caller', Range(pool'.lru), j)
    PROVE  Pooled'
  BY DEF Pooled, Unattached, Lists, Agree

LEMMA LruFacts ==
    ASSUME H1Types
    PROVE  Range(pool.lru) \subseteq Conns /\ pool \in Pools
<1>1. pool \in Pools /\ pool.lru \in Seq(Conns)
  BY DEF H1Types, Pools
<1> QED BY <1>1 DEF Range

LEMMA ConnAlone ==
    ASSUME H1Types, Pooled, NEW i \in Conns, NEW F, OnlyConn(i, F), "key" \notin F, h' = h, caller' = caller, pool' = pool,
           KeptConn(conn'[i], caller, Range(pool.lru), i)
    PROVE  Pooled'
<1>1. \A j \in Conns : conn'[j].key = conn[j].key
  BY DEF OnlyConn, Others, ConnBut, ConnFields
<1>2. Lists(pool', conn')
  BY <1>1, LruFacts, ListsStay DEF Pooled
<1>3. \A j \in Conns \ {i} : conn'[j] = conn[j]
  BY DEF OnlyConn, Others
<1>4. \A j \in Conns : KeptConn(conn'[j], caller', Range(pool'.lru), j)
  BY <1>3 DEF Pooled
<1>5. Unattached(caller')
  BY DEF Pooled
<1> QED BY <1>2, <1>4, <1>5, PooledBy

LEMMA DullAlone ==
    ASSUME H1Types, Pooled, NEW i \in Conns, NEW F, OnlyConn(i, F), "key" \notin F, h' = h, caller' = caller, pool' = pool,
           Dull(conn[i], conn'[i])
    PROVE  Pooled'
<1>1. KeptConn(conn[i], caller, Range(pool.lru), i)
  BY DEF Pooled
<1>2. KeptConn(conn'[i], caller, Range(pool.lru), i)
  BY <1>1, StaysSelf, KeptStays
<1> QED BY <1>2, ConnAlone

DullFields == {"dial", "r", "rc", "res", "alive", "reqch", "expected", "bodyRead", "peeked", "down", "closed", "fired"}

LEMMA DullBut ==
    ASSUME NEW k, NEW k2, NEW F, ConnBut(k, k2, F), F \cap DullFields = {}, NEW L, NEW i, ConnKept(k, L, i),
           k2.w # "done" \/ k2.w = k.w
    PROVE  Dull(k, k2)
<1>1. /\ k2.dial = k.dial /\ k2.r = k.r /\ k2.rc = k.rc /\ k2.res = k.res /\ k2.alive = k.alive
      /\ k2.reqch = k.reqch /\ k2.expected = k.expected /\ k2.bodyRead = k.bodyRead /\ k2.peeked = k.peeked
      /\ k2.down = k.down /\ k2.closed = k.closed /\ k2.fired = k.fired
  BY DEF ConnBut, ConnFields, DullFields
<1> QED BY <1>1 DEF Dull, ConnKept

LEMMA PooledConn ==
    ASSUME Pooled, NEW i \in Conns
    PROVE  /\ KeptConn(conn[i], caller, Range(pool.lru), i) /\ ConnKept(conn[i], Range(pool.lru), i)
           /\ UsersKept(conn[i], caller, Range(pool.lru), i)
  BY DEF Pooled, KeptConn

LEMMA DullSteps ==
    ASSUME H1Types, Pooled, NEW i \in Conns,
           Write(i) \/ IdleTimerFires(i) \/ ServerAnswers(i) \/ ServerSendsBody(i) \/ ServerHangsUp(i)
    PROVE  Pooled'
<1>1. ConnKept(conn[i], Range(pool.lru), i)
  BY PooledConn
<1>2. CASE Write(i)
  <2>1. /\ UNCHANGED <<h, caller, pool>> /\ OnlyConn(i, {"writech", "nwrite", "w", "wr", "werr", "up"})
        /\ conn'[i].w = "report"
    BY <1>2, WriteFacts
  <2>2. ConnBut(conn[i], conn'[i], {"writech", "nwrite", "w", "wr", "werr", "up"})
    BY <2>1 DEF OnlyConn
  <2>3. Dull(conn[i], conn'[i])
    BY <1>1, <2>1, <2>2, DullBut DEF DullFields
  <2> QED BY <2>1, <2>3, DullAlone
<1>3. CASE IdleTimerFires(i)
  <2>1. UNCHANGED <<h, caller, pool>> /\ OnlyConn(i, {"fired"}) /\ conn'[i].fired = TRUE
    BY <1>3, IdleTimerFacts
  <2>2. Dull(conn[i], conn'[i])
    BY <1>1, <2>1 DEF OnlyConn, ConnBut, ConnFields, Dull, ConnKept
  <2> QED BY <2>1, <2>2, DullAlone
<1>4. CASE ServerAnswers(i)
  <2>1. /\ UNCHANGED <<h, caller, pool>> /\ OnlyConn(i, {"up", "down", "owes", "eof"}) /\ conn[i].up[1] \in Reqs
    BY <1>4, ServerAnswersFacts
  <2>2. PICK f \in Forms : conn'[i].down = Append(conn[i].down, [req |-> conn[i].up[1], form |-> f])
    BY <1>4, ServerAnswersFacts
  <2>3. [req |-> conn[i].up[1], form |-> f] \in Frames /\ conn[i].down \in Seq(Frames)
    BY <1>1, <2>1 DEF Frames, ConnKept
  <2>4. conn'[i].down \in Seq(Frames) /\ conn'[i].down # <<>>
    BY <2>2, <2>3
  <2>5. Dull(conn[i], conn'[i])
    BY <1>1, <2>1, <2>4 DEF OnlyConn, ConnBut, ConnFields, Dull, ConnKept
  <2> QED BY <2>1, <2>5, DullAlone
<1>5. CASE ServerSendsBody(i)
  <2>1. /\ UNCHANGED <<h, caller, pool>> /\ OnlyConn(i, {"down", "owes"}) /\ conn[i].owes \in Reqs
        /\ conn'[i].down = Append(conn[i].down, [req |-> conn[i].owes, form |-> "data"])
    BY <1>5, ServerSendsFacts
  <2>2. [req |-> conn[i].owes, form |-> "data"] \in Frames /\ conn[i].down \in Seq(Frames)
    BY <1>1, <2>1 DEF Frames, ConnKept
  <2>3. conn'[i].down \in Seq(Frames) /\ conn'[i].down # <<>>
    BY <2>1, <2>2
  <2>4. Dull(conn[i], conn'[i])
    BY <1>1, <2>1, <2>3 DEF OnlyConn, ConnBut, ConnFields, Dull, ConnKept
  <2> QED BY <2>1, <2>4, DullAlone
<1>6. CASE ServerHangsUp(i)
  <2>1. UNCHANGED <<h, caller, pool>> /\ OnlyConn(i, {"eof"})
    BY <1>6, HangsUpFacts
  <2>2. ConnBut(conn[i], conn'[i], {"eof"})
    BY <2>1 DEF OnlyConn
  <2>3. Dull(conn[i], conn'[i])
    <3>1. conn'[i].w = conn[i].w
      BY <2>2 DEF ConnBut, ConnFields
    <3> QED BY <1>1, <2>2, <3>1, DullBut DEF DullFields
  <2> QED BY <2>1, <2>3, DullAlone
<1> QED BY <1>2, <1>3, <1>4, <1>5, <1>6

(* The readLoop peeks.                                                     *)
LEMMA PeekPooled ==
    ASSUME H1Types, Pooled, NEW i \in Conns, Peek(i)
    PROVE  Pooled'
<1>1. /\ UNCHANGED <<h, caller, pool>> /\ OnlyConn(i, {"sawEOF", "peeked", "closed", "r"})
      /\ conn[i].dial = "up" /\ conn[i].r = "peek"
      /\ \/ conn[i].expected = 0 /\ conn'[i].r = "exit" /\ conn'[i].closed # Unset
         \/ /\ conn[i].expected # 0 /\ conn'[i].r = "take" /\ conn'[i].closed = conn[i].closed
            /\ conn'[i].peeked => conn[i].down # <<>>
  BY PeekFacts
<1>2. PICK k, k2, L : k = conn[i] /\ k2 = conn'[i] /\ L = Range(pool.lru)
  OBVIOUS
<1>3. KeptConn(k, caller, L, i) /\ ConnKept(k, L, i) /\ UsersKept(k, caller, L, i)
  BY <1>2, PooledConn
<1>4. /\ k2.dial = k.dial /\ k2.rc = k.rc /\ k2.res = k.res /\ k2.alive = k.alive /\ k2.reqch = k.reqch
      /\ k2.expected = k.expected /\ k2.bodyRead = k.bodyRead /\ k2.down = k.down /\ k2.w = k.w
      /\ k.dial = "up" /\ k.r = "peek"
  BY <1>1, <1>2 DEF OnlyConn, ConnBut, ConnFields
<1>5. k.expected \in Int
  BY <1>2, TypeFacts, ConnFacts
<1>6. ~Busy(k) /\ \A a, q : ~Leaving(k, a, q)
  BY <1>4 DEF Busy, Leaving
<1>7. CASE k2.r = "exit" /\ k2.closed # Unset
  <2>1. Ended(k, k2)
    BY <1>3, <1>4, <1>5, <1>7 DEF Ended, ConnKept
  <2>2. KeptConn(k2, caller, L, i)
    BY <1>3, <1>6, <2>1, StaysSelf, KeptEnds
  <2> QED BY <1>1, <1>2, <2>2, ConnAlone
<1>8. CASE k.expected # 0 /\ k2.r = "take" /\ k2.closed = k.closed /\ (k2.peeked => k.down # <<>>)
  <2>1. ~Busy(k2) /\ ~Free(k2) /\ \A a, q : ~Leaving(k2, a, q)
    BY <1>8 DEF Busy, Free, Leaving
  <2>2. ConnKept(k2, L, i)
    BY <1>3, <1>4, <1>5, <1>8, <2>1 DEF ConnKept
  <2>3. \A a, q : UserKept(k, a, q, L, i) => UserKept(k2, a, q, L, i)
    BY <1>4, <1>6, <2>1 DEF UserKept
  <2>4. UsersKept(k2, caller, L, i)
    BY <1>3, <1>6, <2>3 DEF UsersKept
  <2>5. KeptConn(k2, caller, L, i)
    BY <2>1, <2>2, <2>4 DEF KeptConn
  <2> QED BY <1>1, <1>2, <2>5, ConnAlone
<1> QED BY <1>1, <1>2, <1>7, <1>8

(* Whoever has a connection is at its start, waits, or reads a body.       *)
LEMMA UserPc ==
    ASSUME H1Types, Pooled, NEW i \in Conns, NEW c \in Callers, caller[c].conn = i
    PROVE  caller[c].pc = "start" \/ caller[c].pc \in Awaits \/ caller[c].pc \in Past
<1>1. caller[c].pc \in Pcs /\ i # None
  BY TypeFacts, CallerFacts
<1>2. caller[c].pc \notin {"getconn", "join", "select"}
  BY <1>1 DEF Pooled, Unattached
<1> QED BY <1>1, <1>2 DEF Pcs, Awaits, Past

LEMMA ReadResponsePooled ==
    ASSUME H1Types, Pooled, NEW i \in Conns, readResponse(i)
    PROVE  Pooled'
<1>1. PICK k, k2, L, q : k = conn[i] /\ k2 = conn'[i] /\ L = Range(pool.lru) /\ q = k.reqch[1]
  OBVIOUS
<1>2. /\ UNCHANGED <<h, caller, pool>> /\ k.dial = "up" /\ k.r = "take" /\ k.reqch # <<>> /\ k2.rc = q /\ k2.reqch = <<>>
      /\ \/ /\ OnlyConn(i, {"r", "res", "alive", "rc", "reqch", "down"})
            /\ k2.r = "deliver" /\ k2.res \in {"read error", "bad response"}
            /\ k2.down = IF k.down = <<>> THEN k.down ELSE Tail(k.down)
         \/ /\ OnlyConn(i, {"r", "res", "from", "alive", "rc", "reqch", "down", "expected", "sawEOF"})
            /\ k.peeked /\ k2.res = Head(k.down).form
            /\ k2.down = Tail(k.down) /\ k2.expected = k.expected - 1
            /\ k2.r = IF HasBody(k2.res) THEN "deliver" ELSE "recycle"
  BY <1>1, ReadResponseFacts
<1>3. KeptConn(k, caller, L, i) /\ ConnKept(k, L, i) /\ UsersKept(k, caller, L, i) /\ k.expected \in Int
  BY <1>1, PooledConn, TypeFacts, ConnFacts
<1>4. OnlyConn(i, {"r", "res", "from", "alive", "rc", "reqch", "down", "expected", "sawEOF"})
  BY <1>2 DEF OnlyConn, ConnBut
<1>5. k2.dial = k.dial /\ k2.bodyRead = k.bodyRead /\ k2.w = k.w /\ k2.closed = k.closed /\ k2.peeked = k.peeked
  BY <1>1, <1>4 DEF OnlyConn, ConnBut, ConnFields
<1>6. k2.expected \in Int /\ k2.expected >= 0
  <2>1. k.expected > 0
    BY <1>2, <1>3 DEF ConnKept
  <2>2. k2.expected = k.expected \/ k2.expected = k.expected - 1
    BY <1>1, <1>2 DEF OnlyConn, ConnBut, ConnFields
  <2> QED BY <1>3, <2>1, <2>2
<1>7. k2.down \in Seq(Frames)
  <2>1. k.down \in Seq(Frames) /\ (k.down # <<>> => Tail(k.down) \in Seq(Frames))
    BY <1>3 DEF ConnKept
  <2>2. k.peeked => k.down # <<>>
    BY <1>2, <1>3 DEF ConnKept
  <2> QED BY <1>2, <2>1, <2>2
<1>8. k2.r = "recycle" => k2.res \notin Errors /\ ~HasBody(k2.res)
  <2> SUFFICES ASSUME k2.r = "recycle" PROVE k2.res \notin Errors /\ ~HasBody(k2.res)
    OBVIOUS
  <2>1. k.peeked /\ k2.res = Head(k.down).form /\ ~HasBody(k2.res)
    BY <1>2
  <2>2. k.down \in Seq(Frames) /\ k.down # <<>>
    BY <1>2, <1>3, <2>1 DEF ConnKept
  <2>3. Head(k.down) \in Frames
    BY <2>2
  <2>4. k2.res \in Forms \cup {"data"}
    BY <2>1, <2>3 DEF Frames
  <2> QED BY <2>1, <2>4 DEF Forms, Errors
<1>9. k2.r \in {"deliver", "recycle"} /\ Busy(k2) /\ ~Free(k2)
  BY <1>2 DEF Busy, Free, Errors
<1>10. i \notin L
  BY <1>2, <1>3 DEF ConnKept
<1>11. ConnKept(k2, L, i)
  <2>1. k2.bodyRead = <<>>
    BY <1>2, <1>3, <1>5 DEF ConnKept
  <2>2. k2.w = "done" => k2.closed # Unset
    BY <1>3, <1>5 DEF ConnKept
  <2> QED BY <1>2, <1>5, <1>6, <1>7, <1>8, <1>9, <1>10, <2>1, <2>2 DEF ConnKept
<1>12. \A c \in Callers : caller[c].conn = i => caller[c].pc \in Awaits /\ Of(c, caller[c]) = q
  <2> SUFFICES ASSUME NEW c \in Callers, caller[c].conn = i PROVE caller[c].pc \in Awaits /\ Of(c, caller[c]) = q
    OBVIOUS
  <2>1. UserKept(k, caller[c], Of(c, caller[c]), L, i)
    BY <1>3 DEF UsersKept
  <2>2. caller[c].pc \in Awaits
    BY <1>2, <2>1, UserPc DEF UserKept
  <2> QED BY <1>1, <1>2, <2>1, <2>2 DEF UserKept, Leaving
<1>13. \A c \in Callers : caller[c].conn = i => UserKept(k2, caller[c], Of(c, caller[c]), L, i)
  <2> SUFFICES ASSUME NEW c \in Callers, caller[c].conn = i PROVE UserKept(k2, caller[c], Of(c, caller[c]), L, i)
    OBVIOUS
  <2>1. caller[c].pc \in Awaits /\ caller[c].pc # "start" /\ caller[c].pc \notin Past /\ Of(c, caller[c]) = q
    BY <1>12 DEF Awaits, Past
  <2> QED BY <1>2, <1>5, <1>8, <1>9, <1>10, <2>1 DEF UserKept
<1>14. UsersKept(k2, caller, L, i)
  <2>1. \A c, d \in Callers : caller[c].conn = i /\ caller[d].conn = i => c = d
    BY <1>12 DEF Of
  <2> QED BY <1>13, <2>1 DEF UsersKept
<1>15. KeptConn(k2, caller, L, i)
  BY <1>9, <1>11, <1>14 DEF KeptConn
<1> QED BY <1>1, <1>2, <1>4, <1>15, ConnAlone

(* Steps of callers and of one connection i: the others stay as they are.  *)
LEMMA StepAt ==
    ASSUME H1Types, Pooled, NEW i \in Conns, NEW F, OnlyConn(i, F), "key" \notin F, h' = h,
           pool'.idle = pool.idle, pool'.lru = pool.lru,
           Unattached(caller'), KeptConn(conn'[i], caller', Range(pool.lru), i),
           \A j \in Conns \ {i} : \A c \in Callers : Stays(caller[c], caller'[c]) \/ Remote(caller[c], caller'[c], j)
    PROVE  Pooled'
<1>1. \A j \in Conns : conn'[j].key = conn[j].key
  BY DEF OnlyConn, Others, ConnBut, ConnFields
<1>2. Lists(pool', conn')
  BY <1>1, LruFacts, ListsStay DEF Pooled
<1>3. \A j \in Conns \ {i} : KeptConn(conn'[j], caller', Range(pool.lru), j)
  <2> SUFFICES ASSUME NEW j \in Conns \ {i} PROVE KeptConn(conn'[j], caller', Range(pool.lru), j)
    OBVIOUS
  <2>1. conn'[j] = conn[j]
    BY DEF OnlyConn, Others
  <2>2. KeptConn(conn[j], caller, Range(pool.lru), j) /\ Dull(conn[j], conn[j])
    BY PooledConn, DullSame
  <2> QED BY <2>1, <2>2, KeptStays
<1> QED BY <1>2, <1>3, PooledBy

LEMMA StaysBut ==
    ASSUME NEW a, NEW b, NEW F, CallerBut(a, b, F), F \cap {"pc", "conn", "hop"} = {}
    PROVE  Stays(a, b)
  BY DEF CallerBut, CallerFields, Stays

(* The wait for the user of a body.                                        *)
LEMMA AwaitBodyPooled ==
    ASSUME H1Types, Pooled, NEW i \in Conns, AwaitBody(i)
    PROVE  Pooled'
<1>1. PICK k, k2, L : k = conn[i] /\ k2 = conn'[i] /\ L = Range(pool.lru)
  OBVIOUS
<1>2. UNCHANGED <<h, pool>> /\ k.dial = "up" /\ k.r = "body"
  BY <1>1, AwaitBodyFacts
<1>3. KeptConn(k, caller, L, i) /\ ConnKept(k, L, i) /\ UsersKept(k, caller, L, i)
  BY <1>1, PooledConn
<1>4. Busy(k) /\ \A a, q : ~Leaving(k, a, q)
  BY <1>2 DEF Busy, Leaving
<1>5. CASE /\ k.bodyRead # <<>> /\ OnlyConn(i, {"r", "alive", "bodyRead"}) /\ k2.r = "recycle" /\ k2.bodyRead = <<>>
           /\ UNCHANGED caller
  <2>1. /\ k2.dial = k.dial /\ k2.rc = k.rc /\ k2.res = k.res /\ k2.reqch = k.reqch /\ k2.expected = k.expected
        /\ k2.down = k.down /\ k2.w = k.w /\ k2.closed = k.closed
    BY <1>1, <1>5 DEF OnlyConn, ConnBut, ConnFields
  <2>2. Busy(k2) /\ ~Free(k2) /\ \A a, q : ~Leaving(k2, a, q)
    BY <1>5 DEF Busy, Free, Leaving
  <2>3. HasBody(k2.res) /\ k2.res \notin Errors
    <3>1. HasBody(k2.res)
      BY <1>2, <1>3, <2>1 DEF ConnKept
    <3> QED BY <3>1 DEF HasBody, Errors
  <2>4. ConnKept(k2, L, i)
    BY <1>3, <1>4, <1>5, <2>1, <2>3 DEF ConnKept
  <2>5. ASSUME NEW c \in Callers, caller[c].conn = i PROVE UserKept(k2, caller[c], Of(c, caller[c]), L, i)
    <3>1. UserKept(k, caller[c], Of(c, caller[c]), L, i)
      BY <1>3, <2>5 DEF UsersKept
    <3>2. caller[c].pc # "start" /\ caller[c].pc \notin Awaits
      BY <1>2, <1>4, <3>1 DEF UserKept
    <3>3. caller[c].pc \in Past
      BY <2>5, <3>2, UserPc
    <3>4. caller[c].pc = "eof" /\ Of(c, caller[c])[1] = k.rc[1] /\ i \notin L
      BY <1>2, <1>3, <1>4, <1>5, <3>1, <3>3 DEF UserKept, ConnKept
    <3> QED BY <1>2, <1>5, <2>1, <2>3, <3>2, <3>4 DEF UserKept
  <2>6. UsersKept(k2, caller, L, i)
    BY <1>3, <1>4, <2>5 DEF UsersKept
  <2>7. KeptConn(k2, caller, L, i)
    BY <2>2, <2>4, <2>6 DEF KeptConn
  <2> QED BY <1>1, <1>2, <1>5, <2>7, ConnAlone
<1>6. ASSUME NEW F, OnlyConn(i, F), F \subseteq {"r", "closed", "canceled"}, k2.r = "exit", k.closed # Unset => k2.closed # Unset,
             \A c \in Callers : Stays(caller[c], caller'[c]), Unattached(caller')
      PROVE  Pooled'
  <2>1. k2.dial = k.dial /\ k2.reqch = k.reqch /\ k2.expected = k.expected /\ k2.down = k.down /\ k2.w = k.w
    BY <1>1, <1>6 DEF OnlyConn, ConnBut, ConnFields
  <2>2. Ended(k, k2)
    BY <1>2, <1>3, <1>6, <2>1 DEF Ended, ConnKept
  <2>3. KeptConn(k2, caller', L, i)
    BY <1>3, <1>4, <1>6, <2>2, KeptEnds
  <2>4. "key" \notin F
    BY <1>6
  <2> QED BY <1>1, <1>2, <1>6, <2>3, <2>4, StepAt
<1>7. ASSUME NEW c \in Callers, NEW C, k.rc = Req(c), caller[c].conn = i, AreConns(C), Others(Conns, conn, C, i),
             ConnBut(conn[i], C[i], {"r"}), C[i].r = "exit", Cancels(c, C, caller)
      PROVE  Pooled'
  <2>1. /\ AreConns(conn') /\ Others(Callers, caller, caller', c) /\ CallerBut(caller[c], caller'[c], {"cancelc"})
        /\ \/ conn' = C
           \/ /\ Others(Conns, C, conn', i) /\ ConnBut(C[i], conn'[i], {"closed", "canceled"})
              /\ conn'[i].closed = (IF C[i].closed = Unset THEN "canceled" ELSE C[i].closed)
    BY <1>7 DEF Cancels
  <2>2. OnlyConn(i, {"r", "closed", "canceled"})
    BY <1>7, <2>1 DEF OnlyConn, Others, ConnBut, ConnFields
  <2>3. C[i].closed = k.closed
    BY <1>1, <1>7 DEF ConnBut, ConnFields
  <2>4. k2.r = "exit"
    BY <1>1, <1>7, <2>1 DEF ConnBut, ConnFields
  <2>5. k.closed # Unset => k2.closed # Unset
    BY <1>1, <2>1, <2>3 DEF Unset
  <2>6. \A d \in Callers : Stays(caller[d], caller'[d])
    BY <2>1, StaysBut, StaysSelf DEF Others
  <2>7. Unattached(caller')
    BY <2>6 DEF Pooled, Unattached, Stays
  <2> QED BY <1>6, <2>2, <2>4, <2>5, <2>6, <2>7
<1>8. CASE k.closed # Unset /\ OnlyConn(i, {"r"}) /\ k2.r = "exit" /\ UNCHANGED caller
  <2>1. k2.closed = k.closed
    BY <1>1, <1>8 DEF OnlyConn, ConnBut, ConnFields
  <2>2. \A d \in Callers : Stays(caller[d], caller'[d])
    BY <1>8, StaysSelf
  <2>3. Unattached(caller')
    BY <1>8 DEF Pooled
  <2> QED BY <1>6, <1>8, <2>1, <2>2, <2>3
<1> QED BY <1>1, <1>5, <1>7, <1>8, AwaitBodyFacts

(* The readLoop ends; the writeLoop reports, or ends.                      *)
LEMMA EndedRemains ==
    ASSUME NEW k, NEW k1, NEW k2, NEW L, NEW i, ConnKept(k, L, i), k.dial = "up",
           ConnBut(k, k1, {"closed", "r", "w", "writeErrCh", "werr", "wr"}), k1.r = "gone", k1.closed # Unset,
           Remains(k1, k2) \/ k2 = k1
    PROVE  Ended(k, k2)
<1>1. k1.dial = k.dial /\ k1.reqch = k.reqch /\ k1.expected = k.expected /\ k1.down = k.down
  BY DEF ConnBut, ConnFields
<1>2. CASE k2 = k1
  BY <1>1, <1>2 DEF Ended, ConnKept
<1>3. CASE Remains(k1, k2)
  <2>1. /\ k2.dial = "up" /\ k2.closed = k1.closed /\ k2.expected = 0 /\ k2.reqch = <<>> /\ k2.r = "gone" /\ k2.down = <<>>
    BY <1>3 DEF Remains
  <2> QED BY <2>1 DEF Ended
<1> QED BY <1>2, <1>3

LEMMA RemainsKey ==
    ASSUME NEW k, NEW k1, NEW k2, NEW F, ConnBut(k, k1, F), "key" \notin F, Remains(k1, k2) \/ k2 = k1
    PROVE  k2.key = k.key
  BY DEF ConnBut, ConnFields, Remains

LEMMA ReadLoopEndsPooled ==
    ASSUME H1Types, Pooled, NEW i \in Conns, readLoopEnds(i)
    PROVE  Pooled'
<1>1. /\ UNCHANGED <<h, caller>> /\ conn[i].dial = "up" /\ conn[i].r = "exit" /\ AreConns(conn')
      /\ Others(Conns, conn, conn', i) /\ pool' = Unlist(pool, i, conn[i].key)
  BY ReadLoopEndsFacts
<1>2. PICK k1 : /\ ConnBut(conn[i], k1, {"closed", "r"}) /\ k1.r = "gone" /\ k1.closed # Unset
                /\ IF conn[i].w = "done" THEN Remains(k1, conn'[i]) ELSE conn'[i] = k1
  BY ReadLoopEndsFacts
<1>3. PICK k, k2, L, L2 : k = conn[i] /\ k2 = conn'[i] /\ L = Range(pool.lru) /\ L2 = Range(pool'.lru)
  OBVIOUS
<1>4. KeptConn(k, caller, L, i) /\ ConnKept(k, L, i)
  BY <1>3, PooledConn
<1>5. ConnBut(k, k1, {"closed", "r", "w", "writeErrCh", "werr", "wr"})
  BY <1>2, <1>3 DEF ConnBut
<1>6. Ended(k, k2)
  BY <1>1, <1>2, <1>3, <1>4, <1>5, EndedRemains
<1>7. /\ Agree(pool', conn) /\ pool' \in Pools /\ L2 = L \ {i} /\ Len(pool'.lru) <= Len(pool.lru)
  <2>1. conn[i].key \in Hosts /\ pool \in Pools /\ Agree(pool, conn)
    BY TypeFacts, ConnFacts, LruFacts DEF Pooled, Lists
  <2> QED BY <1>1, <1>3, <2>1, ListsUnlisted
<1>8. \A a, q : ~Leaving(k, a, q)
  BY <1>1, <1>3 DEF Leaving
<1>9. KeptConn(k2, caller, L2, i)
  BY <1>4, <1>6, <1>7, <1>8, StaysSelf, KeptEnds
<1>10. \A j \in Conns \ {i} : KeptConn(conn'[j], caller, L2, j)
  <2> SUFFICES ASSUME NEW j \in Conns \ {i} PROVE KeptConn(conn'[j], caller, L2, j)
    OBVIOUS
  <2>1. conn'[j] = conn[j] /\ (j \in L2 <=> j \in L)
    BY <1>1, <1>7 DEF Others
  <2>2. KeptConn(conn[j], caller, L, j) /\ Dull(conn[j], conn[j])
    BY <1>3, PooledConn, DullSame
  <2> QED BY <2>1, <2>2, StaysSelf, KeptStays
<1>11. Lists(pool', conn')
  <2>1. h.maxIdle # 0 => Len(pool'.lru) <= h.maxIdle
    <3>1. h.maxIdle \in Nat /\ Len(pool.lru) \in Nat /\ Len(pool'.lru) \in Nat
      BY <1>7, SettingFacts, LruFacts DEF Pools
    <3> QED BY <1>7, <3>1 DEF Pooled, Lists
  <2>2. Lists(pool', conn)
    BY <1>7, <2>1 DEF Lists
  <2>3. conn'[i].key = conn[i].key
    BY <1>2, RemainsKey
  <2>4. \A j \in Range(pool'.lru) : conn'[j].key = conn[j].key
    BY <1>1, <1>3, <1>7, <2>3, LruFacts DEF Others
  <2> QED BY <1>7, <2>2, <2>4, ListsStay
<1>12. Unattached(caller')
  BY <1>1 DEF Pooled
<1> QED BY <1>1, <1>3, <1>9, <1>10, <1>11, <1>12, PooledBy

(* A step that also changes the lists.                                     *)
LEMMA StepLists ==
    ASSUME H1Types, Pooled, NEW i \in Conns, h' = h, pool' \in Pools, Lists(pool', conn),
           \A j \in Conns : j \in Range(pool'.lru) => conn'[j].key = conn[j].key, Unattached(caller'),
           KeptConn(conn'[i], caller', Range(pool'.lru), i),
           \A j \in Conns \ {i} :
             /\ Dull(conn[j], conn'[j])
             /\ j \in Range(pool'.lru) => j \in Range(pool.lru)
             /\ j \in Range(pool.lru) => j \in Range(pool'.lru) \/ ~Free(conn'[j])
             /\ \A c \in Callers : Stays(caller[c], caller'[c]) \/ Remote(caller[c], caller'[c], j)
    PROVE  Pooled'
<1>1. Range(pool'.lru) \subseteq Conns
  BY DEF Pools, Range
<1>2. Lists(pool', conn')
  BY <1>1, ListsStay
<1>3. \A j \in Conns \ {i} : KeptConn(conn'[j], caller', Range(pool'.lru), j)
  <2> SUFFICES ASSUME NEW j \in Conns \ {i} PROVE KeptConn(conn'[j], caller', Range(pool'.lru), j)
    OBVIOUS
  <2>1. KeptConn(conn[j], caller, Range(pool.lru), j)
    BY PooledConn
  <2>2. /\ Dull(conn[j], conn'[j]) /\ (j \in Range(pool'.lru) => j \in Range(pool.lru))
        /\ j \in Range(pool.lru) => j \in Range(pool'.lru) \/ ~Free(conn'[j])
        /\ \A c \in Callers : Stays(caller[c], caller'[c]) \/ Remote(caller[c], caller'[c], j)
    OBVIOUS
  <2> QED BY <2>1, <2>2, KeptStays
<1> QED BY <1>2, <1>3, PooledBy

LEMMA WriteLoopPooled ==
    ASSUME H1Types, Pooled, NEW i \in Conns, writeLoopEnds(i) \/ WriteReports(i)
    PROVE  Pooled'
<1>1. /\ UNCHANGED <<h, pool>> /\ conn[i].dial = "up" /\ AreConns(conn') /\ Others(Conns, conn, conn', i)
      /\ \A c \in Callers : caller'[c] = caller[c] \/ CallerBut(caller[c], caller'[c], {"werr"})
  BY WriteLoopEndsFacts, WriteReportsFacts
<1>2. \/ OnlyConn(i, {"writeErrCh", "werr", "wr", "w"}) /\ conn'[i].w = "idle"
      \/ \E k1 : /\ ConnBut(conn[i], k1, {"writeErrCh", "werr", "wr", "w", "closed"}) /\ k1.w = "done" /\ k1.closed # Unset
                 /\ IF conn[i].r = "gone" THEN Remains(k1, conn'[i]) ELSE conn'[i] = k1
  <2>1. CASE WriteReports(i)
    BY <2>1, WriteReportsFacts
  <2>2. CASE writeLoopEnds(i)
    <3>1. PICK k1 : /\ ConnBut(conn[i], k1, {"w"}) /\ k1.w = "done"
                    /\ IF conn[i].r = "gone" THEN Remains(k1, conn'[i]) ELSE conn'[i] = k1
      BY <2>2, WriteLoopEndsFacts
    <3>2. conn[i].closed # Unset
      BY <2>2, WriteLoopEndsFacts
    <3>3. k1.closed # Unset /\ ConnBut(conn[i], k1, {"writeErrCh", "werr", "wr", "w", "closed"})
      BY <3>1, <3>2 DEF ConnBut, ConnFields
    <3> QED BY <3>1, <3>3
  <2> QED BY <2>1, <2>2
<1>3. PICK k, k2, L : k = conn[i] /\ k2 = conn'[i] /\ L = Range(pool.lru)
  OBVIOUS
<1>4. KeptConn(k, caller, L, i) /\ ConnKept(k, L, i)
  BY <1>3, PooledConn
<1>5. \A c \in Callers : Stays(caller[c], caller'[c])
  BY <1>1, StaysBut, StaysSelf
<1>6. Unattached(caller')
  BY <1>5 DEF Pooled, Unattached, Stays
<1>7. KeptConn(k2, caller', L, i) /\ k2.key = k.key
  <2>1. CASE OnlyConn(i, {"writeErrCh", "werr", "wr", "w"}) /\ k2.w = "idle"
    <3>1. ConnBut(k, k2, {"writeErrCh", "werr", "wr", "w"})
      BY <1>3, <2>1 DEF OnlyConn
    <3>2. Dull(k, k2)
      BY <1>4, <2>1, <3>1, DullBut DEF DullFields
    <3>3. k2.key = k.key
      BY <3>1 DEF ConnBut, ConnFields
    <3> QED BY <1>4, <1>5, <3>2, <3>3, KeptStays
  <2>2. ASSUME NEW k1, ConnBut(k, k1, {"writeErrCh", "werr", "wr", "w", "closed"}), k1.w = "done", k1.closed # Unset,
               IF k.r = "gone" THEN Remains(k1, k2) ELSE k2 = k1
        PROVE  KeptConn(k2, caller', L, i) /\ k2.key = k.key
    <3>1. k2.key = k.key
      BY <2>2, RemainsKey
    <3>2. CASE k.r = "gone"
      <4>1. ConnBut(k, k1, {"closed", "r", "w", "writeErrCh", "werr", "wr"}) /\ k1.r = "gone"
        BY <2>2, <3>2 DEF ConnBut, ConnFields
      <4>2. Ended(k, k2)
        BY <1>1, <1>3, <1>4, <2>2, <3>2, <4>1, EndedRemains
      <4>3. \A a, q : ~Leaving(k, a, q)
        BY <3>2 DEF Leaving
      <4> QED BY <1>4, <1>5, <3>1, <4>2, <4>3, KeptEnds
    <3>3. CASE k.r # "gone"
      <4>1. Dull(k, k2)
        BY <1>4, <2>2, <3>3 DEF Dull, ConnKept, ConnBut, ConnFields
      <4> QED BY <1>4, <1>5, <3>1, <4>1, KeptStays
    <3> QED BY <3>2, <3>3
  <2> QED BY <1>2, <1>3, <2>1, <2>2
<1>8. pool \in Pools /\ Lists(pool, conn)
  BY LruFacts DEF Pooled
<1>9. \A j \in Conns : conn'[j].key = conn[j].key
  BY <1>1, <1>3, <1>7 DEF Others
<1>10. \A j \in Conns \ {i} : Dull(conn[j], conn'[j])
  BY <1>1, PooledConn, DullSame DEF Others
<1> QED BY <1>1, <1>3, <1>5, <1>6, <1>7, <1>8, <1>9, <1>10, StepLists

(* The idle timer closes a connection that is still listed.                *)
LEMMA StillIdlePooled ==
    ASSUME H1Types, Pooled, NEW i \in Conns, closeConnIfStillIdle(i)
    PROVE  Pooled'
<1>1. /\ UNCHANGED <<h, caller>> /\ OnlyConn(i, {"closed"}) /\ conn'[i].closed # Unset
      /\ pool' = Unlist(pool, i, conn[i].key) /\ pool' \in Pools
  BY StillIdleFacts
<1>2. PICK k, k2, L, L2 : k = conn[i] /\ k2 = conn'[i] /\ L = Range(pool.lru) /\ L2 = Range(pool'.lru)
  OBVIOUS
<1>3. KeptConn(k, caller, L, i) /\ ConnKept(k, L, i)
  BY <1>2, PooledConn
<1>4. Dull(k, k2) /\ ~Free(k2)
  BY <1>1, <1>2, <1>3 DEF OnlyConn, ConnBut, ConnFields, Dull, ConnKept, Free
<1>5. Agree(pool', conn) /\ L2 = L \ {i} /\ Len(pool'.lru) <= Len(pool.lru)
  <2>1. conn[i].key \in Hosts /\ pool \in Pools /\ Agree(pool, conn)
    BY TypeFacts, ConnFacts, LruFacts DEF Pooled, Lists
  <2> QED BY <1>1, <1>2, <2>1, ListsUnlisted
<1>6. Lists(pool', conn)
  <2>1. h.maxIdle \in Nat /\ Len(pool.lru) \in Nat /\ Len(pool'.lru) \in Nat
    BY <1>1, SettingFacts, LruFacts DEF Pools
  <2> QED BY <1>5, <2>1 DEF Pooled, Lists
<1>7. KeptConn(k2, caller, L2, i)
  BY <1>3, <1>4, <1>5, StaysSelf, KeptStays
<1>8. \A j \in Conns : conn'[j].key = conn[j].key
  BY <1>1 DEF OnlyConn, Others, ConnBut, ConnFields
<1>9. \A j \in Conns \ {i} : Dull(conn[j], conn'[j])
  BY <1>1, PooledConn, DullSame DEF OnlyConn, Others
<1>10. Unattached(caller') /\ \A c \in Callers : Stays(caller[c], caller'[c])
  BY <1>1, StaysSelf DEF Pooled
<1> QED BY <1>1, <1>2, <1>5, <1>6, <1>7, <1>8, <1>9, <1>10, StepLists

LEMMA CloseIdlePooled ==
    ASSUME H1Types, Pooled, CloseIdleConnections
    PROVE  Pooled'
<1>1. /\ h' = h /\ pool' = [idle |-> [x \in Hosts |-> <<>>], lru |-> <<>>, wantIdle |-> TRUE]
      /\ \A c \in Callers : CallerBut(caller[c], caller'[c], {"live"})
      /\ \A i \in Conns :
           IF i \in Range(pool.lru)
           THEN /\ ConnBut(conn[i], conn'[i], {"closed"})
                /\ conn'[i].closed = IF conn[i].closed = Unset THEN "idle closed" ELSE conn[i].closed
           ELSE conn'[i] = conn[i]
  BY CloseIdleFacts
<1>2. \A c \in Callers : Stays(caller[c], caller'[c])
  BY <1>1, StaysBut
<1>3. Unattached(caller')
  BY <1>2 DEF Pooled, Unattached, Stays
<1>4. Range(<<>>) = {} /\ IsInjective(<<>>) /\ Len(<<>>) = 0
  BY DEF Range, IsInjective
<1>5. pool'.lru = <<>> /\ \A x \in Hosts : pool'.idle[x] = <<>>
  BY <1>1
<1>6. Lists(pool', conn')
  <2>1. h.perHost \in Nat /\ h.maxIdle \in Nat
    BY SettingFacts
  <2>2. UNION {Range(pool'.idle[x]) : x \in Hosts} = {}
    BY <1>4, <1>5
  <2> QED BY <1>4, <1>5, <2>1, <2>2 DEF Lists, Agree
<1>7. \A j \in Conns : KeptConn(conn'[j], caller', Range(pool'.lru), j)
  <2> SUFFICES ASSUME NEW j \in Conns PROVE KeptConn(conn'[j], caller', {}, j)
    BY <1>4, <1>5
  <2>1. KeptConn(conn[j], caller, Range(pool.lru), j) /\ ConnKept(conn[j], Range(pool.lru), j)
    BY PooledConn
  <2>2. CASE j \in Range(pool.lru)
    <3>1. conn'[j].closed # Unset
      BY <1>1, <2>2 DEF Unset
    <3>2. Dull(conn[j], conn'[j]) /\ ~Free(conn'[j])
      BY <1>1, <2>1, <2>2, <3>1 DEF ConnBut, ConnFields, Dull, ConnKept, Free
    <3> QED BY <1>2, <2>1, <3>2, KeptStays
  <2>3. CASE j \notin Range(pool.lru)
    BY <1>1, <1>2, <2>1, <2>3, DullSame, KeptStays
  <2> QED BY <2>2, <2>3
<1> QED BY <1>1, <1>3, <1>6, <1>7, PooledBy

-----------------------------------------------------------------------------
(* Steps of a caller.                                                      *)
LEMMA FailLeaves ==
    ASSUME H1Types, Pooled, NEW c \in Callers, NEW again \in BOOLEAN, NEW err, Fail(c, caller, again, err)
    PROVE  Others(Callers, caller, caller', c) /\ caller'[c].conn = None
<1>1. AreCallers(caller)
  BY DEF H1Types
<1> QED BY <1>1, FailFacts DEF IsSent, IsReturned

LEMMA FinishedLeaves ==
    ASSUME NEW K, NEW K2, NEW c \in Callers, Finished(K, K2, c)
    PROVE  Others(Callers, K, K2, c) /\ K2[c].conn = None
  BY DEF Finished, IsSent, IsReturned

(* A caller gives its connection up, if it has one.                        *)
LEMMA Departure ==
    ASSUME H1Types, Pooled, NEW c \in Callers, Others(Callers, caller, caller', c), caller'[c].conn = None
    PROVE  /\ Unattached(caller')
           /\ \A d \in Callers \ {c} : Stays(caller[d], caller'[d])
           /\ \A j \in Conns : \A d \in Callers :
                \/ Stays(caller[d], caller'[d]) \/ Remote(caller[d], caller'[d], j)
                \/ d = c /\ caller[c].conn = j /\ Leaves(caller[d], caller'[d], j)
<1>1. \A d \in Callers \ {c} : caller'[d] = caller[d]
  BY DEF Others
<1>2. Unattached(caller')
  BY <1>1 DEF Pooled, Unattached
<1>3. \A d \in Callers \ {c} : Stays(caller[d], caller'[d])
  BY <1>1, StaysSelf
<1>4. \A j \in Conns : j # None
  BY TypeFacts
<1>5. ASSUME NEW j \in Conns, NEW d \in Callers
      PROVE  \/ Stays(caller[d], caller'[d]) \/ Remote(caller[d], caller'[d], j)
             \/ d = c /\ caller[c].conn = j /\ Leaves(caller[d], caller'[d], j)
  BY <1>3, <1>4 DEF Remote, Leaves
<1> QED BY <1>2, <1>3, <1>5

LEMMA SameConns ==
    ASSUME H1Types, conn' = conn
    PROVE  \A i \in Conns : OnlyConn(i, {})
<1>1. AreConns(conn)
  BY DEF H1Types
<1> QED BY <1>1 DEF OnlyConn, Others, ConnBut, AreConns, IsConn

(* A caller leaves a connection that is of no more use.                    *)
LEMMA LeavesPooled ==
    ASSUME H1Types, Pooled, NEW c \in Callers, Others(Callers, caller, caller', c), caller'[c].conn = None,
           NEW i \in Conns, i = caller[c].conn, h' = h, pool' = pool, NEW F, OnlyConn(i, F), "key" \notin F,
           Dull(conn[i], conn'[i]), ~Free(conn'[i])
    PROVE  Pooled'
<1>1. PICK k, k2, L : k = conn[i] /\ k2 = conn'[i] /\ L = Range(pool.lru)
  OBVIOUS
<1>2. KeptConn(k, caller, L, i)
  BY <1>1, PooledConn
<1>3. KeptConn(k2, caller', L, i)
  <2>1. Dull(k, k2) /\ ~Free(k2)
    BY <1>1
  <2>2. \A d \in Callers : \/ Stays(caller[d], caller'[d]) \/ Remote(caller[d], caller'[d], i)
                           \/ Leaves(caller[d], caller'[d], i) /\ ~Free(k2)
    BY <2>1, Departure
  <2> QED BY <1>2, <2>1, <2>2, KeptStays
<1>4. \A j \in Conns \ {i} : \A d \in Callers : Stays(caller[d], caller'[d]) \/ Remote(caller[d], caller'[d], j)
  BY Departure
<1>5. Unattached(caller')
  BY Departure
<1> QED BY <1>1, <1>3, <1>4, <1>5, StepAt

LEMMA ErrorsPooled ==
    ASSUME H1Types, Pooled, NEW c \in Callers, WriteFailed(c) \/ ConnClosed(c) \/ MapError(c)
    PROVE  Pooled'
<1>1. PICK i : i = caller[c].conn
  OBVIOUS
<1>2. i \in Conns /\ h' = h /\ pool' = pool
  BY <1>1, WriteFailedFacts, ConnClosedFacts, MapErrorFacts
<1>3. ConnKept(conn[i], Range(pool.lru), i)
  BY <1>2, PooledConn
<1>4. CASE WriteFailed(c)
  <2>1. /\ OnlyConn(i, {"closed"}) /\ conn'[i].closed = IF conn[i].closed = Unset THEN "write error" ELSE conn[i].closed
    BY <1>1, <1>4, WriteFailedFacts
  <2>2. conn'[i].closed # Unset
    BY <2>1 DEF Unset
  <2>3. Dull(conn[i], conn'[i]) /\ ~Free(conn'[i])
    BY <1>2, <1>3, <2>1, <2>2 DEF OnlyConn, ConnBut, ConnFields, Dull, ConnKept, Free
  <2>4. PICK again \in BOOLEAN : \E err : Fail(c, caller, again, err)
    BY <1>4, WriteFailedFacts, ShouldRetryBoolean
  <2> QED BY <1>1, <1>2, <2>1, <2>3, <2>4, FailLeaves, LeavesPooled
<1>5. ASSUME conn[i].closed # Unset, conn' = conn, NEW err, NEW again \in BOOLEAN, Fail(c, caller, again, err)
      PROVE  Pooled'
  <2>1. OnlyConn(i, {}) /\ conn'[i] = conn[i]
    BY <1>2, <1>5, SameConns
  <2>2. Dull(conn[i], conn'[i]) /\ ~Free(conn'[i])
    BY <1>3, <1>5, <2>1, DullSame DEF Free
  <2> QED BY <1>1, <1>2, <1>5, <2>1, <2>2, FailLeaves, LeavesPooled
<1>6. CASE MapError(c)
  <2>1. conn' = conn /\ conn[i].w = "done"
    BY <1>1, <1>6, MapErrorFacts
  <2>2. PICK again \in BOOLEAN : \E err : Fail(c, caller, again, err)
    BY <1>6, MapErrorFacts, ShouldRetryBoolean
  <2>3. conn[i].closed # Unset
    BY <1>3, <2>1 DEF ConnKept
  <2> QED BY <1>5, <2>1, <2>2, <2>3
<1>7. CASE ConnClosed(c)
  <2>1. conn' = conn /\ conn[i].closed # Unset /\ caller[c].pc = "wait"
    BY <1>1, <1>7, ConnClosedFacts
  <2>2. CASE \E err : \E again \in BOOLEAN : Fail(c, caller, again, err)
    BY <1>5, <2>1, <2>2
  <2>3. CASE OnlyCaller(c, {"pc", "err"}) /\ caller'[c].pc = "map"
    <3>1. \A d \in Callers : Stays(caller[d], caller'[d])
      BY <2>1, <2>3, StaysSelf DEF OnlyCaller, Others, CallerBut, CallerFields, Stays
    <3>2. Unattached(caller')
      BY <2>1, <3>1 DEF Pooled, Unattached, Stays
    <3>3. KeptConn(conn[i], caller, Range(pool.lru), i) /\ Dull(conn[i], conn[i])
      BY <1>2, <1>3, PooledConn, DullSame
    <3>4. KeptConn(conn'[i], caller', Range(pool.lru), i)
      BY <2>1, <3>1, <3>3, KeptStays
    <3>5. OnlyConn(i, {})
      BY <1>2, <2>1, SameConns
    <3> QED BY <1>2, <3>1, <3>2, <3>4, <3>5, StepAt
  <2> QED BY <1>1, <1>7, <2>2, <2>3, ConnClosedFacts, ShouldRetryBoolean
<1> QED BY <1>4, <1>6, <1>7

(* Nothing happens but that connections are closed.                        *)
LEMMA AllStay ==
    ASSUME H1Types, Pooled, h' = h, pool'.idle = pool.idle, pool'.lru = pool.lru, Unattached(caller'),
           \A j \in Conns : conn'[j].key = conn[j].key /\ Dull(conn[j], conn'[j]),
           \A j \in Conns : \A d \in Callers : Stays(caller[d], caller'[d]) \/ Remote(caller[d], caller'[d], j)
    PROVE  Pooled'
<1>1. Lists(pool', conn')
  BY LruFacts, ListsStay DEF Pooled
<1>2. \A j \in Conns : KeptConn(conn'[j], caller', Range(pool'.lru), j)
  <2> SUFFICES ASSUME NEW j \in Conns PROVE KeptConn(conn'[j], caller', Range(pool.lru), j)
    OBVIOUS
  <2>1. KeptConn(conn[j], caller, Range(pool.lru), j) /\ Dull(conn[j], conn'[j])
    BY PooledConn
  <2>2. \A d \in Callers : Stays(caller[d], caller'[d]) \/ Remote(caller[d], caller'[d], j)
    OBVIOUS
  <2> QED BY <2>1, <2>2, KeptStays
<1> QED BY <1>1, <1>2, PooledBy

LEMMA CancelsPooled ==
    ASSUME H1Types, Pooled, NEW c \in Callers, NEW K, NEW F, F \cap {"pc", "conn", "hop"} = {}, UNCHANGED <<h, pool>>,
           Others(Callers, caller, K, c), CallerBut(caller[c], K[c], F), Cancels(c, conn, K)
    PROVE  Pooled'
<1>1. /\ Others(Callers, K, caller', c) /\ CallerBut(K[c], caller'[c], {"cancelc"})
      /\ \/ conn' = conn
         \/ LET i == caller[c].conn IN
            /\ i \in Conns /\ Others(Conns, conn, conn', i) /\ ConnBut(conn[i], conn'[i], {"closed", "canceled"})
            /\ conn'[i].closed = (IF conn[i].closed = Unset THEN "canceled" ELSE conn[i].closed)
  BY DEF Cancels
<1>2. \A d \in Callers \ {c} : caller'[d] = caller[d]
  BY <1>1 DEF Others
<1>3. CallerBut(caller[c], caller'[c], F \cup {"cancelc"})
  BY <1>1 DEF CallerBut
<1>4. \A d \in Callers : Stays(caller[d], caller'[d])
  <2>1. (F \cup {"cancelc"}) \cap {"pc", "conn", "hop"} = {}
    OBVIOUS
  <2>2. Stays(caller[c], caller'[c])
    BY <1>3, <2>1, StaysBut
  <2> QED BY <1>2, <2>2, StaysSelf
<1>5. Unattached(caller')
  BY <1>4 DEF Pooled, Unattached, Stays
<1>6. \A j \in Conns : conn'[j].key = conn[j].key /\ Dull(conn[j], conn'[j])
  <2> SUFFICES ASSUME NEW j \in Conns PROVE conn'[j].key = conn[j].key /\ Dull(conn[j], conn'[j])
    OBVIOUS
  <2>1. ConnKept(conn[j], Range(pool.lru), j)
    BY PooledConn
  <2>2. CASE conn'[j] = conn[j]
    BY <2>1, <2>2, DullSame
  <2>3. CASE /\ ConnBut(conn[j], conn'[j], {"closed", "canceled"})
             /\ conn'[j].closed = (IF conn[j].closed = Unset THEN "canceled" ELSE conn[j].closed)
    <3>1. conn'[j].closed # Unset
      BY <2>3 DEF Unset
    <3> QED BY <2>1, <2>3, <3>1 DEF ConnBut, ConnFields, Dull, ConnKept
  <2> QED BY <1>1, <2>2, <2>3 DEF Others
<1> QED BY <1>4, <1>5, <1>6, AllStay

LEMMA CancelingPooled ==
    ASSUME H1Types, Pooled, NEW c \in Callers, CancelNoticed(c) \/ CancelRequest(c) \/ TimerFires(c)
    PROVE  Pooled'
<1>1. CASE CancelNoticed(c)
  BY <1>1, CancelNoticedFacts, CancelsPooled
<1>2. CASE CancelRequest(c)
  BY <1>2, CancelRequestFacts, CancelsPooled
<1>3. CASE TimerFires(c)
  <2>1. UNCHANGED <<h, conn, pool>> /\ OnlyCaller(c, {"cancel"})
    BY <1>3, TimerFacts
  <2>2. \A d \in Callers : Stays(caller[d], caller'[d])
    BY <2>1, StaysBut, StaysSelf DEF OnlyCaller, Others
  <2>3. Unattached(caller')
    BY <2>2 DEF Pooled, Unattached, Stays
  <2>4. \A j \in Conns : conn'[j].key = conn[j].key /\ Dull(conn[j], conn'[j])
    BY <2>1, PooledConn, DullSame
  <2> QED BY <2>1, <2>2, <2>3, <2>4, AllStay
<1> QED BY <1>1, <1>2, <1>3

(* The user of a body reads it to its end, or closes it.                   *)
LEMMA BodyKept ==
    ASSUME NEW i, NEW k, NEW k2, NEW K, NEW K2, NEW L, NEW c \in Callers, KeptConn(k, K, L, i),
           K[c].conn = i, K[c].pc = "body", \A d \in Callers \ {c} : K2[d] = K[d],
           ConnBut(k, k2, {"down", "bodyRead", "sawEOF"}), k2.down \in Seq(Frames),
           K2[c].conn # i \/ (K2[c].pc = "eof" /\ K2[c].hop = K[c].hop)
    PROVE  KeptConn(k2, K2, L, i)
<1>1. ConnKept(k, L, i) /\ UsersKept(k, K, L, i)
  BY DEF KeptConn
<1>2. UserKept(k, K[c], Of(c, K[c]), L, i)
  BY <1>1 DEF UsersKept
<1>3. k.dial = "up" /\ k.r \in {"body", "exit", "gone"} /\ (k.r = "body" => Of(c, K[c])[1] = k.rc[1])
  BY <1>2 DEF UserKept, Past
<1>4. /\ k2.dial = k.dial /\ k2.r = k.r /\ k2.rc = k.rc /\ k2.res = k.res /\ k2.alive = k.alive /\ k2.reqch = k.reqch
      /\ k2.expected = k.expected /\ k2.closed = k.closed /\ k2.w = k.w
  BY DEF ConnBut, ConnFields
<1>5. (Busy(k) <=> Busy(k2)) /\ ~Free(k2) /\ \A a, q : ~Leaving(k, a, q)
  BY <1>3, <1>4 DEF Busy, Free, Leaving
<1>6. i \notin L
  BY <1>2, <1>5 DEF UserKept
<1>7. ConnKept(k2, L, i)
  BY <1>1, <1>3, <1>4, <1>5 DEF ConnKept
<1>8. \A d \in Callers : K2[d].conn = i => d = c
  BY <1>1, <1>5 DEF UsersKept
<1>9. ASSUME K2[c].conn = i PROVE UserKept(k2, K2[c], Of(c, K2[c]), L, i)
  <2>1. K2[c].pc = "eof" /\ Of(c, K2[c]) = Of(c, K[c])
    BY <1>9 DEF Of
  <2> QED BY <1>3, <1>4, <1>6, <2>1 DEF UserKept, Awaits
<1> QED BY <1>5, <1>7, <1>8, <1>9 DEF KeptConn, UsersKept

LEMMA BodyPooled ==
    ASSUME H1Types, Pooled, NEW c \in Callers, ReadBody(c) \/ CloseBody(c) \/ BodyReleased(c)
    PROVE  Pooled'
<1>1. PICK i : i = caller[c].conn
  OBVIOUS
<1>2. i \in Conns /\ h' = h /\ pool' = pool
  BY <1>1, ReadBodyFacts, CloseBodyFacts, BodyReleasedFacts
<1>3. KeptConn(conn[i], caller, Range(pool.lru), i) /\ ConnKept(conn[i], Range(pool.lru), i)
  BY <1>2, PooledConn
<1>4. CASE BodyReleased(c)
  <2>1. conn' = conn /\ conn[i].r \in {"exit", "gone"} /\ Finished(caller, caller', c)
    BY <1>1, <1>4, BodyReleasedFacts
  <2>2. OnlyConn(i, {}) /\ conn'[i] = conn[i]
    BY <1>2, <2>1, SameConns
  <2>3. Dull(conn[i], conn'[i]) /\ ~Free(conn'[i])
    BY <1>3, <2>1, <2>2, DullSame DEF Free
  <2> QED BY <1>1, <1>2, <2>1, <2>2, <2>3, FinishedLeaves, LeavesPooled
<1>5. ASSUME caller[c].pc = "body", OnlyConn(i, {"down", "bodyRead", "sawEOF"}), conn'[i].down \in Seq(Frames),
             Others(Callers, caller, caller', c), caller'[c].conn = None
      PROVE  Pooled'
  <2>1. Unattached(caller') /\ \A j \in Conns \ {i} : \A d \in Callers : Stays(caller[d], caller'[d]) \/ Remote(caller[d], caller'[d], j)
    BY <1>1, <1>5, Departure
  <2>2. caller'[c].conn # i /\ caller[c].conn = i /\ \A d \in Callers \ {c} : caller'[d] = caller[d]
    BY <1>1, <1>2, <1>5, TypeFacts DEF Others
  <2>3. ConnBut(conn[i], conn'[i], {"down", "bodyRead", "sawEOF"})
    BY <1>5 DEF OnlyConn
  <2>4. KeptConn(conn'[i], caller', Range(pool.lru), i)
    <3>1. PICK k, k2, K2, L : k = conn[i] /\ k2 = conn'[i] /\ K2 = caller' /\ L = Range(pool.lru)
      OBVIOUS
    <3>2. /\ KeptConn(k, caller, L, i) /\ caller[c].conn = i /\ caller[c].pc = "body" /\ k2.down \in Seq(Frames)
          /\ ConnBut(k, k2, {"down", "bodyRead", "sawEOF"}) /\ K2[c].conn # i
          /\ \A d \in Callers \ {c} : K2[d] = caller[d]
      BY <1>3, <1>5, <2>2, <2>3, <3>1
    <3>3. KeptConn(k2, K2, L, i)
      BY <3>2, BodyKept
    <3> QED BY <3>1, <3>3
  <2> QED BY <1>2, <1>5, <2>1, <2>4, StepAt
<1>6. CASE CloseBody(c)
  <2>1. caller[c].pc = "body" /\ OnlyConn(i, {"bodyRead"}) /\ Finished(caller, caller', c)
    BY <1>1, <1>6, CloseBodyFacts
  <2>2. OnlyConn(i, {"down", "bodyRead", "sawEOF"})
    BY <2>1 DEF OnlyConn, ConnBut
  <2>3. conn'[i].down \in Seq(Frames)
    BY <1>3, <2>1 DEF OnlyConn, ConnBut, ConnFields, ConnKept
  <2> QED BY <1>5, <2>1, <2>2, <2>3, FinishedLeaves
<1>7. CASE ReadBody(c)
  <2>1. caller[c].pc = "body"
    BY <1>7, ReadBodyFacts
  <2>2. CASE /\ OnlyConn(i, {"sawEOF", "bodyRead"})
             /\ \E K : Others(Callers, caller, K, c) /\ Finished(K, caller', c)
    <3>1. OnlyConn(i, {"down", "bodyRead", "sawEOF"})
      BY <2>2 DEF OnlyConn, ConnBut
    <3>2. conn'[i].down \in Seq(Frames)
      BY <1>3, <2>2 DEF OnlyConn, ConnBut, ConnFields, ConnKept
    <3>3. PICK K : Others(Callers, caller, K, c) /\ Finished(K, caller', c)
      BY <2>2
    <3>4. Others(Callers, K, caller', c) /\ caller'[c].conn = None
      BY <3>3, FinishedLeaves
    <3>5. Others(Callers, caller, caller', c)
      BY <3>3, <3>4 DEF Others
    <3> QED BY <1>5, <2>1, <3>1, <3>2, <3>4, <3>5
  <2>3. CASE /\ conn[i].down # <<>> /\ OnlyConn(i, {"down", "bodyRead"}) /\ conn'[i].down = Tail(conn[i].down)
             /\ OnlyCaller(c, {"pc", "got"}) /\ caller'[c].pc = "eof"
    <3>1. OnlyConn(i, {"down", "bodyRead", "sawEOF"}) /\ ConnBut(conn[i], conn'[i], {"down", "bodyRead", "sawEOF"})
      BY <2>3 DEF OnlyConn, ConnBut
    <3>2. conn'[i].down \in Seq(Frames)
      <4>1. conn[i].down \in Seq(Frames)
        BY <1>3 DEF ConnKept
      <4> QED BY <2>3, <4>1
    <3>3. caller'[c].hop = caller[c].hop /\ caller'[c].conn = i /\ \A d \in Callers \ {c} : caller'[d] = caller[d]
      BY <1>1, <2>3 DEF OnlyCaller, CallerBut, CallerFields, Others
    <3>4. KeptConn(conn'[i], caller', Range(pool.lru), i)
      <4>1. PICK k, k2, K2, L : k = conn[i] /\ k2 = conn'[i] /\ K2 = caller' /\ L = Range(pool.lru)
        OBVIOUS
      <4>2. /\ KeptConn(k, caller, L, i) /\ caller[c].conn = i /\ caller[c].pc = "body" /\ k2.down \in Seq(Frames)
            /\ ConnBut(k, k2, {"down", "bodyRead", "sawEOF"}) /\ K2[c].pc = "eof" /\ K2[c].hop = caller[c].hop
            /\ \A d \in Callers \ {c} : K2[d] = caller[d]
        BY <1>1, <1>3, <2>1, <2>3, <3>1, <3>2, <3>3, <4>1
      <4>3. KeptConn(k2, K2, L, i)
        BY <4>2, BodyKept
      <4> QED BY <4>1, <4>3
    <3>5. \A j \in Conns \ {i} : \A d \in Callers : Stays(caller[d], caller'[d]) \/ Remote(caller[d], caller'[d], j)
      BY <1>1, <3>3, StaysSelf DEF Remote
    <3>6. Unattached(caller')
      BY <2>3, <3>3 DEF Pooled, Unattached
    <3> QED BY <1>2, <3>1, <3>4, <3>5, <3>6, StepAt
  <2> QED BY <1>1, <1>7, <2>2, <2>3, ReadBodyFacts
<1> QED BY <1>4, <1>6, <1>7

(* The steps of a caller before it has a connection.                       *)
LEMMA JoinPooled ==
    ASSUME H1Types, Pooled, NEW c \in Callers, getIdleConnCh(c)
    PROVE  Pooled'
<1>1. /\ UNCHANGED <<h, conn>> /\ caller[c].pc = "join" /\ OnlyCaller(c, {"pc", "live"})
      /\ pool'.idle = pool.idle /\ pool'.lru = pool.lru
  BY JoinFacts
<1>2. caller[c].conn = None /\ caller'[c].conn = None
  BY <1>1 DEF OnlyCaller, CallerBut, CallerFields, Pooled, Unattached
<1>3. Others(Callers, caller, caller', c)
  BY <1>1 DEF OnlyCaller
<1>4. Unattached(caller') /\ \A j \in Conns : \A d \in Callers : Stays(caller[d], caller'[d]) \/ Remote(caller[d], caller'[d], j)
  BY <1>2, <1>3, Departure, TypeFacts
<1>5. \A j \in Conns : conn'[j].key = conn[j].key /\ Dull(conn[j], conn'[j])
  BY <1>1, PooledConn, DullSame
<1> QED BY <1>1, <1>4, <1>5, AllStay

LEMMA DialCanceledPooled ==
    ASSUME H1Types, Pooled, NEW c \in Callers, DialCanceled(c)
    PROVE  Pooled'
<1>1. /\ UNCHANGED <<h, pool>> /\ caller[c].pc = "select" /\ \A j \in Conns : ConnBut(conn[j], conn'[j], {"wanted"})
      /\ Fail(c, caller, FALSE, "canceled")
  BY DialCanceledFacts
<1>2. caller[c].conn = None
  BY <1>1 DEF Pooled, Unattached
<1>3. Others(Callers, caller, caller', c) /\ caller'[c].conn = None
  BY <1>1, FailLeaves
<1>4. Unattached(caller') /\ \A j \in Conns : \A d \in Callers : Stays(caller[d], caller'[d]) \/ Remote(caller[d], caller'[d], j)
  BY <1>2, <1>3, Departure, TypeFacts
<1>5. ASSUME NEW j \in Conns PROVE conn'[j].key = conn[j].key /\ Dull(conn[j], conn'[j])
  <2>1. ConnKept(conn[j], Range(pool.lru), j) /\ ConnBut(conn[j], conn'[j], {"wanted"})
    BY <1>1, PooledConn
  <2>2. conn'[j].key = conn[j].key /\ conn'[j].w = conn[j].w
    BY <2>1 DEF ConnBut, ConnFields
  <2> QED BY <2>1, <2>2, DullBut DEF DullFields
<1> QED BY <1>1, <1>4, <1>5, AllStay

LEMMA DialAnswersPooled ==
    ASSUME H1Types, Pooled, NEW c \in Callers, NEW i \in Conns, DialAnswers(c, i)
    PROVE  Pooled'
<1>1. PICK k, k2, L : k = conn[i] /\ k2 = conn'[i] /\ L = Range(pool.lru)
  OBVIOUS
<1>2. UNCHANGED <<h, pool>> /\ caller[c].pc = "select" /\ k.dial = "dialing" /\ OnlyConn(i, {"dial", "wanted"})
  BY <1>1, DialAnswersFacts
<1>3. ConnKept(k, L, i) /\ UsersKept(k, caller, L, i)
  BY <1>1, PooledConn
<1>4. k.r = "peek" /\ k.reqch = <<>> /\ i \notin L
  BY <1>2, <1>3 DEF ConnKept
<1>5. /\ k2.r = k.r /\ k2.rc = k.rc /\ k2.res = k.res /\ k2.alive = k.alive /\ k2.reqch = k.reqch
      /\ k2.expected = k.expected /\ k2.closed = k.closed /\ k2.w = k.w /\ k2.bodyRead = k.bodyRead /\ k2.down = k.down
      /\ k2.peeked = k.peeked
  BY <1>1, <1>2 DEF OnlyConn, ConnBut, ConnFields
<1>6. ~Busy(k2) /\ \A a, q : ~Leaving(k2, a, q)
  BY <1>4, <1>5 DEF Busy, Leaving
<1>7. ConnKept(k2, L, i)
  BY <1>3, <1>4, <1>5, <1>6 DEF ConnKept
<1>8. \A d \in Callers : caller[d].conn # i
  BY <1>2, <1>3 DEF UsersKept, UserKept
<1>9. caller[c].conn = None
  BY <1>2 DEF Pooled, Unattached
<1>10. CASE k2.dial = "up" /\ OnlyCaller(c, {"pc", "conn"}) /\ caller'[c].pc = "start" /\ caller'[c].conn = i
  <2>1. \A d \in Callers \ {c} : caller'[d] = caller[d]
    BY <1>10 DEF OnlyCaller, Others
  <2>2. \A d \in Callers : caller'[d].conn = i => d = c
    BY <1>8, <2>1
  <2>3. UserKept(k2, caller'[c], Of(c, caller'[c]), L, i)
    BY <1>4, <1>5, <1>6, <1>10 DEF UserKept, Awaits, Past
  <2>4. Holds(k2, caller'[c], c, i)
    BY <1>6, <1>10 DEF Holds
  <2>5. KeptConn(k2, caller', L, i)
    BY <1>7, <2>2, <2>3, <2>4 DEF KeptConn, UsersKept
  <2>6. Unattached(caller')
    BY <1>10, <2>1 DEF Pooled, Unattached
  <2>7. \A j \in Conns \ {i} : \A d \in Callers : Stays(caller[d], caller'[d]) \/ Remote(caller[d], caller'[d], j)
    BY <1>9, <1>10, <2>1, StaysSelf, TypeFacts DEF Remote
  <2> QED BY <1>1, <1>2, <2>5, <2>6, <2>7, StepAt
<1>11. ASSUME k2.dial = "failed", NEW err, Fail(c, caller, FALSE, err) PROVE Pooled'
  <2>1. Others(Callers, caller, caller', c) /\ caller'[c].conn = None
    BY <1>11, FailLeaves
  <2>2. \A d \in Callers : caller'[d].conn # i
    BY <1>8, <2>1, TypeFacts DEF Others
  <2>3. ~Free(k2)
    BY <1>11 DEF Free
  <2>4. KeptConn(k2, caller', L, i)
    BY <1>7, <2>2, <2>3 DEF KeptConn, UsersKept
  <2>5. Unattached(caller') /\ \A j \in Conns : \A d \in Callers : Stays(caller[d], caller'[d]) \/ Remote(caller[d], caller'[d], j)
    BY <1>9, <2>1, Departure, TypeFacts
  <2> QED BY <1>1, <1>2, <2>4, <2>5, StepAt
<1> QED BY <1>1, <1>10, <1>11, DialAnswersFacts

LEMMA GetIdlePooled ==
    ASSUME H1Types, Pooled, NEW c \in Callers, GetIdle(c)
    PROVE  Pooled'
<1>1. PICK key \in Hosts : key = HostOf(caller[c].hop)
  BY TypeFacts
<1>2. h' = h /\ caller[c].pc = "getconn" /\ caller[c].conn = None
  BY GetIdleFacts DEF Pooled, Unattached
<1>3. Lists(pool, conn) /\ \A j \in Conns : j # None
  BY TypeFacts DEF Pooled
<1>4. PICK L, L2 : L = Range(pool.lru) /\ L2 = Range(pool'.lru)
  OBVIOUS
<1>5. ASSUME NEW i \in Conns, NEW p \in {i, None}, NEW keep, Takes(key, p, pool', keep), NEW F, OnlyCaller(c, F),
             F \subseteq {"pc", "conn"}, caller'[c].conn \in {i, None}, caller'[c].conn = None \/ caller'[c].pc = "start",
             OnlyConn(i, {"dial", "by", "wanted", "key"}), i \in L2 => conn'[i].key = conn[i].key,
             KeptConn(conn'[i], caller', L2, i)
      PROVE  Pooled'
  <2>1. /\ Lists(pool', conn) /\ L2 \subseteq L /\ \A j \in L : j \in L2 \/ j = p \/ ~Usable(j)
    BY <1>1, <1>3, <1>4, <1>5, ListsTaken
  <2>2. pool' \in Pools
    BY <1>5 DEF Takes
  <2>3. \A d \in Callers \ {c} : caller'[d] = caller[d]
    BY <1>5 DEF OnlyCaller, Others
  <2>4. Unattached(caller')
    BY <1>5, <2>3 DEF Pooled, Unattached
  <2>5. \A j \in Conns \ {i} : conn'[j] = conn[j]
    BY <1>5 DEF OnlyConn, Others
  <2>6. \A j \in Conns : j \in L2 => conn'[j].key = conn[j].key
    BY <1>5, <2>5
  <2>7. \A j \in Conns \ {i} : \A d \in Callers : Stays(caller[d], caller'[d]) \/ Remote(caller[d], caller'[d], j)
    BY <1>2, <1>3, <1>5, <2>3, StaysSelf DEF Remote
  <2>8. ASSUME NEW j \in Conns \ {i}
        PROVE  /\ Dull(conn[j], conn'[j]) /\ (j \in L2 => j \in L) /\ (j \in L => j \in L2 \/ ~Free(conn'[j]))
    <3>1. Dull(conn[j], conn'[j])
      BY <2>5, PooledConn, DullSame
    <3>2. j # p /\ (~Usable(j) => ~Free(conn[j]))
      BY <1>3, <1>5 DEF Usable, Free
    <3> QED BY <2>1, <2>5, <3>1, <3>2
  <2> QED BY <1>2, <1>4, <1>5, <2>1, <2>2, <2>4, <2>6, <2>7, <2>8, StepLists
<1>6. ASSUME NEW p \in Conns, NEW keep, Takes(key, p, pool', keep), OnlyCaller(c, {"pc", "conn"}), caller'[c].pc = "start",
             caller'[c].conn = p, conn' = conn
      PROVE  Pooled'
  <2>1. p \in L /\ p \notin L2
    BY <1>1, <1>3, <1>4, <1>6, ListsTaken
  <2>2. KeptConn(conn[p], caller, L, p) /\ Dull(conn[p], conn[p])
    BY <1>4, PooledConn, DullSame
  <2>3. \A d \in Callers \ {c} : Stays(caller[d], caller'[d])
    BY <1>6, StaysSelf DEF OnlyCaller, Others
  <2>4. KeptConn(conn'[p], caller', L2, p)
    <3>1. PICK k, K2 : k = conn[p] /\ K2 = caller'
      OBVIOUS
    <3>2. /\ KeptConn(k, caller, L, p) /\ Dull(k, k) /\ caller[c].conn # p /\ K2[c].conn = p /\ K2[c].pc = "start"
          /\ \A d \in Callers \ {c} : Stays(caller[d], K2[d]) \/ Remote(caller[d], K2[d], p)
      BY <1>2, <1>3, <1>6, <2>2, <2>3, <3>1
    <3>3. KeptConn(k, K2, L2, p)
      BY <2>1, <3>2, KeptTaken
    <3> QED BY <1>6, <3>1, <3>3
  <2>5. OnlyConn(p, {"dial", "by", "wanted", "key"})
    BY <1>6, SameConns DEF OnlyConn, ConnBut
  <2>6. conn'[p].key = conn[p].key
    BY <1>6
  <2> QED BY <1>5, <1>6, <2>4, <2>5, <2>6
<1>7. ASSUME NEW i \in Conns, Takes(key, None, pool', 0), OnlyCaller(c, {"pc"}),
             OnlyConn(i, {"dial", "by", "wanted", "key"}), conn[i].dial = "no", conn'[i].dial = "dialing"
      PROVE  Pooled'
  <2>1. PICK k, k2 : k = conn[i] /\ k2 = conn'[i]
    OBVIOUS
  <2>2. ConnKept(k, L, i) /\ UsersKept(k, caller, L, i)
    BY <1>4, <2>1, PooledConn
  <2>3. k.dial = "no" /\ k2.dial = "dialing" /\ k.r = "peek" /\ k.reqch = <<>> /\ i \notin L
    BY <1>7, <2>1, <2>2 DEF ConnKept
  <2>4. i \notin L2
    <3>1. L2 \subseteq L
      BY <1>1, <1>3, <1>4, <1>7, ListsTaken
    <3> QED BY <2>3, <3>1
  <2>5. /\ k2.r = k.r /\ k2.rc = k.rc /\ k2.res = k.res /\ k2.alive = k.alive /\ k2.reqch = k.reqch
        /\ k2.expected = k.expected /\ k2.closed = k.closed /\ k2.w = k.w /\ k2.bodyRead = k.bodyRead /\ k2.down = k.down
        /\ k2.peeked = k.peeked
    BY <1>7, <2>1 DEF OnlyConn, ConnBut, ConnFields
  <2>6. ~Busy(k2) /\ ~Free(k2)
    BY <2>3, <2>5 DEF Busy, Free
  <2>7. ConnKept(k2, L2, i)
    BY <2>2, <2>3, <2>4, <2>5, <2>6 DEF ConnKept
  <2>8. caller'[c].conn = None /\ \A d \in Callers \ {c} : caller'[d] = caller[d]
    BY <1>2, <1>7 DEF OnlyCaller, Others, CallerBut, CallerFields
  <2>9. \A d \in Callers : caller'[d].conn # i
    BY <1>3, <2>2, <2>3, <2>8 DEF UsersKept, UserKept
  <2>10. KeptConn(k2, caller', L2, i)
    BY <2>6, <2>7, <2>9 DEF KeptConn, UsersKept
  <2> QED BY <1>5, <1>7, <2>1, <2>4, <2>8, <2>10
<1> QED BY <1>1, <1>6, <1>7, GetIdleFacts

(* A response, or an error, is delivered.                                  *)
LEMMA DeliveredBody ==
    ASSUME NEW i, NEW k, NEW k2, NEW K, NEW K2, NEW L, NEW c \in Callers, KeptConn(k, K, L, i), ConnBut(k, k2, {"r"}),
           k.dial = "up", k.r = "deliver", k.rc = Of(c, K[c]), Busy(k), \A d \in Callers \ {c} : K2[d] = K[d],
           K2[c].conn = i, K2[c].hop = K[c].hop,
           \/ HasBody(k.res) /\ k2.r = "body" /\ K2[c].pc \in Past
           \/ k2.r = "exit" /\ K2[c].pc = "map",
           \A d \in Callers : K[d].conn = i => K[d].pc = "start" \/ K[d].pc \in Awaits \/ K[d].pc \in Past
    PROVE  KeptConn(k2, K2, L, i)
<1>1. ConnKept(k, L, i) /\ UsersKept(k, K, L, i)
  BY DEF KeptConn
<1>2. k.reqch = <<>> /\ i \notin L /\ k.bodyRead = <<>>
  BY <1>1 DEF ConnKept
<1>3. /\ k2.dial = k.dial /\ k2.rc = k.rc /\ k2.res = k.res /\ k2.alive = k.alive /\ k2.reqch = k.reqch
      /\ k2.expected = k.expected /\ k2.closed = k.closed /\ k2.w = k.w /\ k2.bodyRead = k.bodyRead /\ k2.down = k.down
  BY DEF ConnBut, ConnFields
<1>4. ~Free(k2) /\ (Busy(k2) <=> k2.r = "body")
  BY DEF Free, Busy
<1>5. ConnKept(k2, L, i)
  BY <1>1, <1>2, <1>3 DEF ConnKept
<1>6. \A d \in Callers : K2[d].conn = i => d = c
  <2> SUFFICES ASSUME NEW d \in Callers \ {c}, K[d].conn = i PROVE FALSE
    OBVIOUS
  <2>1. UserKept(k, K[d], Of(d, K[d]), L, i)
    BY <1>1 DEF UsersKept
  <2>2. K[d].pc \in Awaits
    BY <2>1 DEF UserKept
  <2>3. Of(d, K[d]) = Of(c, K[c])
    BY <2>1, <2>2 DEF UserKept
  <2> QED BY <2>3 DEF Of
<1>7. UserKept(k2, K2[c], Of(c, K2[c]), L, i)
  <2>1. Of(c, K2[c]) = k.rc
    BY DEF Of
  <2>2. K2[c].pc # "start" /\ (K2[c].pc \in Past => K2[c].pc \notin Awaits) /\ (K2[c].pc = "map" => K2[c].pc \notin Past)
    BY DEF Past, Awaits
  <2> QED BY <1>2, <1>3, <1>4, <2>1, <2>2 DEF UserKept
<1> QED BY <1>4, <1>5, <1>6, <1>7 DEF KeptConn, UsersKept

LEMMA DeliveredAll ==
    ASSUME NEW i, NEW k, NEW k2, NEW K, NEW K2, NEW L, NEW c \in Callers, KeptConn(k, K, L, i), ConnBut(k, k2, {"r"}),
           k.dial = "up", k.r = "deliver", k.rc = Of(c, K[c]), ~HasBody(k.res), k.alive, k.res \notin Errors, k2.r = "peek",
           K[c].conn = i, K[c].pc = "wait", K2[c].conn # i, \A d \in Callers \ {c} : K2[d] = K[d]
    PROVE  KeptConn(k2, K2, L, i)
<1>1. ConnKept(k, L, i) /\ UsersKept(k, K, L, i)
  BY DEF KeptConn
<1>2. /\ k2.dial = k.dial /\ k2.rc = k.rc /\ k2.res = k.res /\ k2.alive = k.alive /\ k2.reqch = k.reqch /\ k2.fired = k.fired
      /\ k2.expected = k.expected /\ k2.closed = k.closed /\ k2.w = k.w /\ k2.bodyRead = k.bodyRead /\ k2.down = k.down
  BY DEF ConnBut, ConnFields
<1>3. ~Busy(k) /\ ~Busy(k2) /\ (Free(k2) => Free(k)) /\ \A a, q : ~Leaving(k2, a, q)
  BY <1>2 DEF Busy, Free, Leaving
<1>4. ConnKept(k2, L, i)
  BY <1>1, <1>2, <1>3 DEF ConnKept
<1>5. \A d \in Callers \ {c} : ~Leaving(k, K[d], Of(d, K[d]))
  BY DEF Leaving, Of
<1>6. \A d \in Callers : K2[d].conn = i => d # c /\ K2[d] = K[d]
  OBVIOUS
<1>7. ASSUME NEW d \in Callers, K2[d].conn = i PROVE UserKept(k2, K2[d], Of(d, K2[d]), L, i)
  <2>1. UserKept(k, K[d], Of(d, K[d]), L, i) /\ ~Leaving(k, K[d], Of(d, K[d])) /\ K2[d] = K[d]
    BY <1>1, <1>5, <1>6, <1>7 DEF UsersKept
  <2> QED BY <1>2, <1>3, <2>1 DEF UserKept
<1>8. \A d, e \in Callers : K2[d].conn = i /\ K2[e].conn = i => d = e
  BY <1>1, <1>5, <1>6 DEF UsersKept
<1>9. ASSUME Free(k2), i \notin L PROVE \E d \in Callers : Holds(k2, K2[d], d, i)
  <2>1. PICK d \in Callers : Holds(k, K[d], d, i)
    BY <1>3, <1>9 DEF KeptConn
  <2>2. Leaving(k, K[c], Of(c, K[c]))
    BY DEF Leaving, Awaits
  <2>3. d # c
    BY <2>1, <2>2 DEF Holds
  <2> QED BY <1>3, <2>1, <2>3 DEF Holds
<1> QED BY <1>4, <1>7, <1>8, <1>9 DEF KeptConn, UsersKept

LEMMA DeliverPooled ==
    ASSUME H1Types, Pooled, NEW i \in Conns, Deliver(i)
    PROVE  Pooled'
<1>1. PICK k, k2, L, K2 : k = conn[i] /\ k2 = conn'[i] /\ L = Range(pool.lru) /\ K2 = caller'
  OBVIOUS
<1>2. UNCHANGED <<h, pool>> /\ k.dial = "up" /\ k.r = "deliver" /\ OnlyConn(i, {"r"}) /\ ConnBut(k, k2, {"r"})
  BY <1>1, DeliverFacts DEF OnlyConn
<1>3. KeptConn(k, caller, L, i) /\ ConnKept(k, L, i)
  BY <1>1, PooledConn
<1>4. ASSUME k2.r = "exit" PROVE Ended(k, k2)
  BY <1>2, <1>3, <1>4 DEF Ended, ConnBut, ConnFields, ConnKept
<1>5. ASSUME k2.r = "exit", UNCHANGED caller,
             \A c \in Callers : k.rc = Req(c) /\ caller[c].conn = i => caller[c].pc \notin {"wait", "map"}
      PROVE  Pooled'
  <2>1. \A c \in Callers : caller[c].conn = i => ~Leaving(k, caller[c], Of(c, caller[c]))
    BY <1>5 DEF Leaving, Awaits, Of, Req
  <2>2. KeptConn(k2, caller, L, i)
    BY <1>3, <1>4, <1>5, <2>1, StaysSelf, KeptEnds
  <2> QED BY <1>1, <1>2, <1>5, <2>2, ConnAlone
<1>6. ASSUME NEW c \in Callers, k.rc = Req(c), caller[c].conn = i, Others(Callers, caller, caller', c), caller'[c].conn = None,
             \/ k2.r = "exit"
             \/ k2.r = "peek" /\ ~HasBody(k.res) /\ k.alive /\ k.res \notin Errors /\ caller[c].pc = "wait"
      PROVE  Pooled'
  <2>1. k.rc = Of(c, caller[c]) /\ \A d \in Callers \ {c} : K2[d] = caller[d]
    BY <1>1, <1>6 DEF Of, Req, Others
  <2>2. K2[c].conn # i
    BY <1>1, <1>6, TypeFacts
  <2>3. KeptConn(k2, K2, L, i)
    <3>1. CASE k2.r = "exit"
      <4>1. \A d \in Callers \ {c} : ~Leaving(k, caller[d], Of(d, caller[d]))
        BY <2>1 DEF Leaving, Of
      <4>2. \A d \in Callers : \/ Stays(caller[d], K2[d]) /\ (caller[d].conn = i => ~Leaving(k, caller[d], Of(d, caller[d])))
                               \/ Leaves(caller[d], K2[d], i)
        BY <1>6, <2>1, <2>2, <4>1, StaysSelf DEF Leaves
      <4> QED BY <1>3, <1>4, <3>1, <4>2, KeptEnds
    <3>2. CASE k2.r # "exit"
      BY <1>2, <1>3, <1>6, <2>1, <2>2, <3>2, DeliveredAll
    <3> QED BY <3>1, <3>2
  <2>4. Unattached(caller') /\ \A j \in Conns \ {i} : \A d \in Callers : Stays(caller[d], caller'[d]) \/ Remote(caller[d], caller'[d], j)
    BY <1>6, Departure
  <2> QED BY <1>1, <1>2, <2>3, <2>4, StepAt
<1>7. ASSUME NEW c \in Callers, k.rc = Req(c), caller[c].conn = i, Others(Callers, caller, caller', c), Busy(k),
             caller'[c].conn = i, caller'[c].hop = caller[c].hop,
             \/ HasBody(k.res) /\ k2.r = "body" /\ caller'[c].pc \in Past
             \/ k2.r = "exit" /\ caller'[c].pc = "map"
      PROVE  Pooled'
  <2>1. k.rc = Of(c, caller[c]) /\ \A d \in Callers \ {c} : K2[d] = caller[d]
    BY <1>1, <1>7 DEF Of, Req, Others
  <2>2. \A d \in Callers : caller[d].conn = i => caller[d].pc = "start" \/ caller[d].pc \in Awaits \/ caller[d].pc \in Past
    BY UserPc
  <2>3. /\ K2[c].conn = i /\ K2[c].hop = caller[c].hop
        /\ \/ HasBody(k.res) /\ k2.r = "body" /\ K2[c].pc \in Past
           \/ k2.r = "exit" /\ K2[c].pc = "map"
    BY <1>1, <1>7
  <2>4. KeptConn(k2, K2, L, i)
    BY <1>2, <1>3, <1>7, <2>1, <2>2, <2>3, DeliveredBody
  <2>5. Unattached(caller')
    BY <1>1, <1>7, <2>1 DEF Pooled, Unattached, Past
  <2>6. \A j \in Conns \ {i} : \A d \in Callers : Stays(caller[d], caller'[d]) \/ Remote(caller[d], caller'[d], j)
    BY <1>1, <1>7, <2>1, StaysSelf DEF Remote
  <2> QED BY <1>1, <1>2, <2>4, <2>5, <2>6, StepAt
<1>8. ASSUME NEW c \in Callers, k.rc = Req(c), caller[c].conn = i, caller[c].pc = "wait",
             k.res \notin {"read error", "bad response"},
             k2.r = (IF HasBody(k.res) THEN "body" ELSE IF k.alive THEN "peek" ELSE "exit"),
             Answers(caller', c, i, k.res, k.from)
      PROVE  Pooled'
  <2>1. Others(Callers, caller, caller', c) /\ k.res \notin Errors
    BY <1>8 DEF Answers, Errors
  <2>2. CASE ~HasBody(k.res)
    <3>1. PICK K : Finished(K, caller', c)
      BY <1>8, <2>2 DEF Answers, HasBody
    <3>2. caller'[c].conn = None
      BY <3>1, FinishedLeaves
    <3> QED BY <1>6, <1>8, <2>1, <2>2, <3>2
  <2>3. CASE HasBody(k.res)
    <3>1. caller'[c].conn = i /\ caller'[c].hop = caller[c].hop /\ caller'[c].pc \in Past
      BY <1>8, <2>3 DEF Answers, CallerBut, CallerFields, Past
    <3>2. Busy(k)
      BY <1>2, <2>3 DEF Busy
    <3> QED BY <1>7, <1>8, <2>1, <2>3, <3>1, <3>2
  <2> QED BY <2>2, <2>3
<1>9. ASSUME NEW c \in Callers, k.rc = Req(c), caller[c].conn = i, k.res \in {"read error", "bad response"}, k2.r = "exit",
             OnlyCaller(c, {"pc", "err"}), caller'[c].pc = "map"
      PROVE  Pooled'
  <2>1. Others(Callers, caller, caller', c) /\ caller'[c].conn = i /\ caller'[c].hop = caller[c].hop
    BY <1>9 DEF OnlyCaller, CallerBut, CallerFields
  <2>2. Busy(k)
    BY <1>2, <1>9 DEF Busy, Errors
  <2> QED BY <1>7, <1>9, <2>1, <2>2
<1>10. ASSUME NEW c \in Callers, k.rc = Req(c), caller[c].conn = i, k2.r = "exit",
              NEW again \in BOOLEAN, NEW err, Fail(c, caller, again, err)
       PROVE  Pooled'
  BY <1>6, <1>10, FailLeaves
<1>11. \/ \E c \in Callers :
            /\ k.rc = Req(c) /\ caller[c].conn = i /\ caller[c].pc = "wait"
            /\ \/ /\ k.res \notin {"read error", "bad response"}
                  /\ k2.r = (IF HasBody(k.res) THEN "body" ELSE IF k.alive THEN "peek" ELSE "exit")
                  /\ Answers(caller', c, i, k.res, k.from)
               \/ /\ k.res \in {"read error", "bad response"} /\ k2.r = "exit"
                  /\ \/ OnlyCaller(c, {"pc", "err"}) /\ caller'[c].pc = "map"
                     \/ LET err == IF k.canceled THEN "canceled" ELSE k.res IN
                        Fail(c, caller, ShouldRetry(i, caller[c].method, err), err)
       \/ /\ \A c \in Callers : k.rc = Req(c) /\ caller[c].conn = i => caller[c].pc \notin {"wait", "map"}
          /\ k2.r = "exit" /\ UNCHANGED caller
  BY <1>1, DeliverFacts
<1>12. CASE /\ \A c \in Callers : k.rc = Req(c) /\ caller[c].conn = i => caller[c].pc \notin {"wait", "map"}
            /\ k2.r = "exit" /\ UNCHANGED caller
  BY <1>5, <1>12
<1>13. ASSUME NEW c \in Callers, k.rc = Req(c), caller[c].conn = i, caller[c].pc = "wait", k2.r = "exit",
              LET err == IF k.canceled THEN "canceled" ELSE k.res IN
                Fail(c, caller, ShouldRetry(i, caller[c].method, err), err)
       PROVE  Pooled'
  <2>1. PICK err : Fail(c, caller, ShouldRetry(i, caller[c].method, err), err)
    BY <1>13
  <2> QED BY <1>10, <1>13, <2>1, ShouldRetryBoolean
<1> QED BY <1>8, <1>9, <1>11, <1>12, <1>13

-----------------------------------------------------------------------------
(* A connection i, of C, is offered to the pool and not refused.           *)
LEMMA OfferedLists ==
    ASSUME H1Types, Pooled, NEW i \in Conns, NEW C, AreConns(C), Others(Conns, conn, C, i), C[i].key = conn[i].key,
           i \notin Range(pool.lru), NEW p, p.pool \in Pools,
           GivenOn(C, pool, i, p) \/ Listed(C, pool, i, p) \/ Evicts(C, pool, i, p)
    PROVE  /\ Lists(p.pool, conn) /\ ConnBut(C[i], p.conn[i], {"reused"})
           /\ p.to # None => p.to \in Callers /\ caller[p.to].pc = "select" /\ i \notin Range(p.pool.lru)
           /\ p.to = None => i \in Range(p.pool.lru)
           /\ \A j \in Conns \ {i} :
                /\ Dull(conn[j], p.conn[j]) /\ p.conn[j].key = conn[j].key
                /\ j \in Range(p.pool.lru) => j \in Range(pool.lru)
                /\ j \in Range(pool.lru) => j \in Range(p.pool.lru) \/ ~Free(p.conn[j])
<1>1. /\ pool \in Pools /\ Range(pool.lru) \subseteq Conns /\ Lists(pool, conn)
      /\ \A j \in Conns \ {i} : C[j] = conn[j] /\ Dull(conn[j], conn[j])
  BY LruFacts, PooledConn, DullSame DEF Pooled, Others
<1>2. /\ \A j \in Conns : C[j].key = conn[j].key
      /\ Range(p.pool.lru) \subseteq Conns
  <2>1. p.pool.lru \in Seq(Conns)
    BY DEF Pools
  <2>2. Range(p.pool.lru) \subseteq Conns
    BY <2>1 DEF Range
  <2> QED BY <1>1, <2>2
<1>3. Lists(pool, C) /\ Agree(pool, C)
  <2>1. Lists(pool, C)
    BY <1>1, <1>2, ListsStay
  <2> QED BY <2>1 DEF Lists
<1>4. Lists(p.pool, C) => Lists(p.pool, conn)
  BY <1>2, ListsStay
<1>5. CASE GivenOn(C, pool, i, p)
  <2>1. /\ p.pool = pool /\ p.to \in Callers /\ caller[p.to].pc = "select" /\ ConnBut(C[i], p.conn[i], {"reused"})
        /\ \A j \in Conns \ {i} : p.conn[j] = C[j]
    BY <1>5 DEF GivenOn, Reuses, Others
  <2>2. p.to # None
    BY <2>1, TypeFacts
  <2> QED BY <1>1, <2>1, <2>2
<1>6. CASE Listed(C, pool, i, p)
  <2>1. /\ p.to = None /\ ConnBut(C[i], p.conn[i], {"reused"}) /\ (\A j \in Conns \ {i} : p.conn[j] = C[j])
        /\ Fits(pool, i, C[i].key, p.pool) /\ (h.maxIdle = 0 \/ Len(p.pool.lru) <= h.maxIdle)
    BY <1>6 DEF Listed, Reuses, Others
  <2>2. C[i].key \in Hosts
    BY <1>2, TypeFacts, ConnFacts
  <2>3. Agree(p.pool, C) /\ Range(p.pool.lru) = Range(pool.lru) \cup {i}
    <3>1. PICK P, P2 : P = pool /\ P2 = p.pool
      OBVIOUS
    <3>2. P \in Pools /\ Agree(P, C) /\ i \notin Range(P.lru) /\ Fits(P, i, C[i].key, P2)
      BY <1>1, <1>3, <2>1, <3>1
    <3>3. Agree(P2, C) /\ Range(P2.lru) = Range(P.lru) \cup {i}
      BY <2>2, <3>2, ListsListed
    <3> QED BY <3>1, <3>3
  <2>4. Lists(p.pool, C)
    BY <2>1, <2>3 DEF Lists
  <2> QED BY <1>1, <1>4, <2>1, <2>3, <2>4
<1>7. CASE Evicts(C, pool, i, p)
  <2>1. p.to = None
    BY <1>7 DEF Evicts
  <2>2. PICK e \in Conns : \E D : PushesOut(C, pool, i, p, e, D)
    <3>1. PICK P : P = pool
      OBVIOUS
    <3>2. P \in Pools /\ Lists(P, C) /\ i \notin Range(P.lru) /\ Evicts(C, P, i, p)
      BY <1>1, <1>3, <1>7, <3>1
    <3>3. \E e \in Conns : \E D : PushesOut(C, P, i, p, e, D)
      BY <3>2, ListsEvicted
    <3> QED BY <3>1, <3>3
  <2>3. PICK D : /\ Lists(p.pool, C) /\ Range(p.pool.lru) = (Range(pool.lru) \cup {i}) \ {e} /\ e # i
                 /\ AreConns(D) /\ Reuses(C, D, i) /\ p.conn = Close(D, e, "too many idle")
    BY <2>2 DEF PushesOut
  <2>4. /\ Others(Conns, D, p.conn, e) /\ ConnBut(D[e], p.conn[e], {"closed"})
        /\ p.conn[e].closed = IF D[e].closed = Unset THEN "too many idle" ELSE D[e].closed
    <3>1. PICK D2 : D2 = p.conn
      OBVIOUS
    <3>2. AreConns(D) /\ D2 = Close(D, e, "too many idle")
      BY <2>3, <3>1
    <3>3. /\ Others(Conns, D, D2, e) /\ ConnBut(D[e], D2[e], {"closed"})
          /\ D2[e].closed = IF D[e].closed = Unset THEN "too many idle" ELSE D[e].closed
      BY <3>2, CloseFacts
    <3> QED BY <3>1, <3>3
  <2>5. p.conn[i] = D[i] /\ ConnBut(C[i], D[i], {"reused"}) /\ (\A j \in Conns \ {i} : D[j] = conn[j])
    BY <1>1, <2>3, <2>4 DEF Reuses, Others
  <2>6. p.conn[e].closed # Unset
    BY <2>4 DEF Unset
  <2>7. ConnKept(conn[e], Range(pool.lru), e) /\ ConnBut(conn[e], p.conn[e], {"closed"})
    BY <2>3, <2>4, <2>5, PooledConn
  <2>8. Dull(conn[e], p.conn[e]) /\ ~Free(p.conn[e]) /\ p.conn[e].key = conn[e].key
    BY <2>6, <2>7 DEF ConnBut, ConnFields, Dull, ConnKept, Free
  <2>9. \A j \in Conns \ {i, e} : p.conn[j] = conn[j]
    BY <2>4, <2>5 DEF Others
  <2>10. ASSUME NEW j \in Conns \ {i}
         PROVE  /\ Dull(conn[j], p.conn[j]) /\ p.conn[j].key = conn[j].key
                /\ j \in Range(p.pool.lru) => j \in Range(pool.lru)
                /\ j \in Range(pool.lru) => j \in Range(p.pool.lru) \/ ~Free(p.conn[j])
    BY <1>1, <2>3, <2>8, <2>9
  <2> QED BY <1>4, <2>1, <2>3, <2>5, <2>10
<1> QED BY <1>5, <1>6, <1>7

(* D is the connections then; K the callers, but for the one it is given.  *)
LEMMA OfferPooled ==
    ASSUME H1Types, Pooled, NEW i \in Conns, NEW C, AreConns(C), Others(Conns, conn, C, i), C[i].key = conn[i].key,
           i \notin Range(pool.lru), NEW p, p.pool \in Pools,
           GivenOn(C, pool, i, p) \/ Listed(C, pool, i, p) \/ Evicts(C, pool, i, p),
           NEW D, AreConns(D), Others(Conns, p.conn, D, i), ConnBut(p.conn[i], D[i], {"r", "alive"}), \A M : ConnKept(D[i], M, i),
           h' = h, pool' = p.pool, conn' = (IF p.to = None THEN D ELSE HandPending(D, p.to)),
           NEW K, \A d \in Callers : K[d] = caller[d] \/ (caller[d].conn = i /\ K[d].conn = None),
           \A d \in Callers : K[d].conn = i => Leaving(D[i], K[d], Of(d, K[d])),
           \A d \in Callers : caller'[d] = K[d] \/ (d = p.to /\ caller'[d].conn = i /\ caller'[d].pc = "start"),
           p.to # None => caller'[p.to].conn = i /\ caller'[p.to].pc = "start"
    PROVE  Pooled'
<1>1. PICK k, k2, L, L2, K2 : k = D[i] /\ k2 = conn'[i] /\ L = Range(pool.lru) /\ L2 = Range(pool'.lru) /\ K2 = caller'
  OBVIOUS
<1>2. /\ Lists(pool', conn) /\ ConnBut(C[i], p.conn[i], {"reused"}) /\ pool' \in Pools
      /\ p.to # None => p.to \in Callers /\ caller[p.to].pc = "select" /\ i \notin L2
      /\ p.to = None => i \in L2
  BY <1>1, OfferedLists
<1>3. \A j \in Conns \ {i} :
        /\ Dull(conn[j], p.conn[j]) /\ p.conn[j].key = conn[j].key /\ (j \in L2 => j \in L)
        /\ j \in L => j \in L2 \/ ~Free(p.conn[j])
  BY <1>1, OfferedLists
<1>4. \A j \in Conns : D[j].key = conn[j].key
  <2>1. D[i].key = conn[i].key
    BY <1>2 DEF ConnBut, ConnFields
  <2> QED BY <1>3, <2>1 DEF Others
<1>5. \A j \in Conns : ConnBut(D[j], conn'[j], {"wanted"})
  <2>1. CASE p.to = None
    BY <2>1 DEF ConnBut, AreConns, IsConn
  <2>2. CASE p.to # None
    BY <2>2, HandPendingFacts
  <2> QED BY <2>1, <2>2
<1>6. \A j \in Conns : conn'[j].key = conn[j].key
  BY <1>4, <1>5 DEF ConnBut, ConnFields
<1>7. ASSUME NEW j \in Conns, NEW M, ConnKept(D[j], M, j) PROVE Dull(D[j], conn'[j]) /\ (Free(conn'[j]) => Free(D[j]))
  <2>1. conn'[j].w = D[j].w
    BY <1>5, <1>7 DEF ConnBut, ConnFields
  <2>2. Dull(D[j], conn'[j])
    BY <1>5, <1>7, <2>1, DullBut DEF DullFields
  <2> QED BY <2>2, DullFacts
<1>8. ASSUME NEW j \in Conns \ {i}
      PROVE  /\ Dull(conn[j], conn'[j]) /\ (j \in L2 => j \in L)
             /\ j \in L => j \in L2 \/ ~Free(conn'[j])
  <2>1. D[j] = p.conn[j] /\ ConnKept(conn[j], L, j)
    BY <1>1, PooledConn DEF Others
  <2>2. Dull(conn[j], D[j])
    BY <1>3, <2>1
  <2>3. ConnKept(D[j], L, j)
    BY <2>1, <2>2, DullConn
  <2>4. Dull(D[j], conn'[j]) /\ (Free(conn'[j]) => Free(D[j]))
    BY <1>7, <2>3
  <2>5. Dull(conn[j], conn'[j])
    BY <2>2, <2>4 DEF Dull
  <2> QED BY <1>3, <2>1, <2>4, <2>5
<1>9. Dull(k, k2)
  BY <1>1, <1>7
<1>10. p.to # None => K[p.to] = caller[p.to] /\ caller[p.to].conn = None
  <2> SUFFICES ASSUME p.to # None PROVE K[p.to] = caller[p.to] /\ caller[p.to].conn = None
    OBVIOUS
  <2>1. p.to \in Callers /\ caller[p.to].pc = "select"
    BY <1>2
  <2>2. caller[p.to].conn = None /\ i # None
    BY <2>1, TypeFacts DEF Pooled, Unattached
  <2> QED BY <2>1, <2>2
<1>11. KeptConn(k2, K2, L2, i)
  <2>1. CASE p.to = None
    <3>1. \A d \in Callers : K2[d] = K[d]
      BY <1>1, <2>1, TypeFacts
    <3>2. KeptConn(k, K, L2, i)
      <4>1. ConnKept(k, L2, i) /\ i \in L2
        BY <1>1, <1>2, <2>1
      <4> QED BY <1>1, <4>1, KeptListed
    <3>3. \A d \in Callers : Stays(K[d], K2[d])
      BY <3>1, StaysSelf
    <3> QED BY <1>9, <3>2, <3>3, KeptStays
  <2>2. CASE p.to # None
    <3>1. PICK d \in Callers : d = p.to
      BY <1>2, <2>2
    <3>2. PICK M : M = L2 \cup {i}
      OBVIOUS
    <3>3. KeptConn(k, K, M, i)
      <4>1. ConnKept(k, M, i) /\ i \in M
        BY <1>1, <3>2
      <4> QED BY <1>1, <4>1, KeptListed
    <3>4. /\ K[d].conn # i /\ K2[d].conn = i /\ K2[d].pc = "start" /\ i \in M /\ i \notin L2
          /\ \A x \in Callers \ {d} : K2[x] = K[x]
      BY <1>1, <1>2, <1>10, <2>2, <3>1, <3>2, TypeFacts
    <3>5. \A x \in Callers \ {d} : Stays(K[x], K2[x])
      BY <3>4, StaysSelf
    <3> QED BY <1>9, <3>3, <3>4, <3>5, KeptTaken
  <2> QED BY <2>1, <2>2
<1>12. Unattached(caller')
  <2>1. \A d \in Callers : caller'[d].pc \in {"getconn", "join", "select"} => caller'[d] = K[d]
    OBVIOUS
  <2> QED BY <2>1 DEF Pooled, Unattached
<1>13. ASSUME NEW j \in Conns \ {i}, NEW d \in Callers PROVE Stays(caller[d], caller'[d]) \/ Remote(caller[d], caller'[d], j)
  <2>1. CASE p.to = d
    <3>1. d # None /\ j # None
      BY TypeFacts
    <3> QED BY <1>10, <2>1, <3>1 DEF Remote
  <2>2. CASE p.to # d
    <3>1. caller'[d] = K[d] /\ j # None
      BY <2>2, TypeFacts
    <3> QED BY <3>1, StaysSelf DEF Remote
  <2> QED BY <2>1, <2>2
<1> QED BY <1>1, <1>2, <1>6, <1>8, <1>11, <1>12, <1>13, StepLists

LEMMA HandedAre ==
    ASSUME H1Types, NEW K, AreCallers(K), NEW i \in Conns, NEW to \in Callers \cup {None}
    PROVE  /\ \A d \in Callers : Handed(K, to, i)[d] = K[d]
                                 \/ (d = to /\ Handed(K, to, i)[d].conn = i /\ Handed(K, to, i)[d].pc = "start")
           /\ to # None => Handed(K, to, i)[to].conn = i /\ Handed(K, to, i)[to].pc = "start"
           /\ to = None => Handed(K, to, i) = K
<1>1. PICK K2 : K2 = Handed(K, to, i)
  OBVIOUS
<1>2. CASE to = None
  BY <1>2 DEF Handed
<1>3. CASE to # None
  <2>1. Others(Callers, K, K2, to) /\ K2[to].pc = "start" /\ K2[to].conn = i
    BY <1>1, <1>3, HandedFacts, TypeFacts
  <2>2. \A d \in Callers : K2[d] = K[d] \/ (d = to /\ K2[d].conn = i /\ K2[d].pc = "start")
    BY <2>1 DEF Others
  <2> QED BY <1>1, <1>3, <2>1, <2>2
<1> QED BY <1>2, <1>3

LEMMA ConnAny ==
    ASSUME NEW k, NEW L, NEW i, ConnKept(k, L, i), k.dial = "up", k.reqch = <<>>, ~Busy(k)
    PROVE  \A M : ConnKept(k, M, i)
  BY DEF ConnKept

LEMMA OfferedTo ==
    ASSUME H1Types, NEW C, AreConns(C), NEW i \in Conns, NEW p, Offered(C, pool, i, p)
    PROVE  /\ AreConns(p.conn) /\ p.pool \in Pools /\ p.to \in Callers \cup {None}
           /\ \/ Discarded(C, pool, i, p)
              \/ GivenOn(C, pool, i, p) \/ Listed(C, pool, i, p) \/ Evicts(C, pool, i, p)
  BY LruFacts, OfferTame DEF Offered

(* A dial its caller did not wait for.                                     *)
LEMMA PendingDialPooled ==
    ASSUME H1Types, Pooled, NEW i \in Conns, handlePendingDial(i)
    PROVE  Pooled'
<1>1. PICK k, k2, L : k = conn[i] /\ k2 = conn'[i] /\ L = Range(pool.lru)
  OBVIOUS
<1>2. h' = h /\ k.dial = "dialing"
  BY <1>1, PendingDialFacts
<1>3. ConnKept(k, L, i) /\ UsersKept(k, caller, L, i)
  BY <1>1, PooledConn
<1>4. k.r = "peek" /\ k.reqch = <<>> /\ i \notin L
  BY <1>2, <1>3 DEF ConnKept
<1>5. \A d \in Callers : caller[d].conn # i
  BY <1>2, <1>3 DEF UsersKept, UserKept
<1>6. ASSUME NEW x, NEW F, F \subseteq {"dial", "wanted", "reused", "closed"}, ConnBut(k, x, F), k.closed # Unset => x.closed # Unset
      PROVE  /\ \A M : x.dial = "up" => ConnKept(x, M, i)
             /\ ConnKept(x, L, i)
  <2>1. /\ x.r = k.r /\ x.rc = k.rc /\ x.res = k.res /\ x.alive = k.alive /\ x.reqch = k.reqch
        /\ x.expected = k.expected /\ x.w = k.w /\ x.bodyRead = k.bodyRead /\ x.down = k.down
        /\ x.peeked = k.peeked
    BY <1>6 DEF ConnBut, ConnFields
  <2>2. ~Busy(x)
    BY <1>4, <2>1 DEF Busy
  <2>3. ConnKept(x, L, i)
    BY <1>3, <1>4, <1>6, <2>1, <2>2 DEF ConnKept
  <2> QED BY <1>4, <2>1, <2>2, <2>3, ConnAny
<1>7. ASSUME NEW F, OnlyConn(i, F), F \subseteq {"dial", "wanted", "reused", "closed"}, UNCHANGED <<caller, pool>>,
             k.closed # Unset => k2.closed # Unset, ~Free(k2)
      PROVE  Pooled'
  <2>1. ConnBut(k, k2, F)
    BY <1>1, <1>7 DEF OnlyConn
  <2>2. ConnKept(k2, L, i)
    BY <1>6, <1>7, <2>1
  <2>3. KeptConn(k2, caller, L, i)
    BY <1>5, <1>7, <2>2 DEF KeptConn, UsersKept
  <2>4. "key" \notin F
    BY <1>7
  <2> QED BY <1>1, <1>2, <1>7, <2>3, <2>4, ConnAlone
<1>8. CASE OnlyConn(i, {"dial", "wanted"}) /\ k2.dial = "failed" /\ UNCHANGED <<caller, pool>>
  <2>1. k2.closed = k.closed /\ ~Free(k2)
    BY <1>1, <1>8 DEF OnlyConn, ConnBut, ConnFields, Free
  <2> QED BY <1>7, <1>8, <2>1
<1>9. ASSUME NEW C, AreConns(C), Others(Conns, conn, C, i), ConnBut(conn[i], C[i], {"dial", "wanted"}), C[i].dial = "up",
             GivesBack(C, i, caller')
      PROVE  Pooled'
  <2>1. PICK p : /\ Offered(C, pool, i, p) /\ pool' = p.pool /\ caller' = Handed(caller, p.to, i)
                 /\ conn' = IF p.to = None THEN p.conn ELSE HandPending(p.conn, p.to)
    BY <1>9 DEF GivesBack
  <2>2. /\ AreConns(p.conn) /\ p.pool \in Pools /\ p.to \in Callers \cup {None}
        /\ \/ Discarded(C, pool, i, p)
           \/ GivenOn(C, pool, i, p) \/ Listed(C, pool, i, p) \/ Evicts(C, pool, i, p)
    BY <1>9, <2>1, OfferedTo
  <2>3. AreCallers(caller)
    BY DEF H1Types
  <2>4. C[i].key = conn[i].key /\ C[i].closed = k.closed
    BY <1>1, <1>9 DEF ConnBut, ConnFields
  <2>5. CASE Discarded(C, pool, i, p)
    <3>1. /\ p.to = None /\ p.pool = pool /\ Others(Conns, C, p.conn, i) /\ ConnBut(C[i], p.conn[i], {"reused", "closed"})
          /\ p.conn[i].closed = IF C[i].closed = Unset THEN "not put idle" ELSE C[i].closed
      BY <2>5 DEF Discarded
    <3>2. UNCHANGED <<caller, pool>> /\ conn' = p.conn
      BY <2>1, <3>1 DEF Handed
    <3>3. k2.closed # Unset /\ ~Free(k2)
      BY <1>1, <3>1, <3>2 DEF Free, Unset
    <3>4. OnlyConn(i, {"dial", "wanted", "reused", "closed"})
      BY <1>9, <2>2, <3>1, <3>2 DEF OnlyConn, Others, ConnBut, ConnFields
    <3> QED BY <1>7, <3>2, <3>3, <3>4
  <2>6. CASE GivenOn(C, pool, i, p) \/ Listed(C, pool, i, p) \/ Evicts(C, pool, i, p)
    <3>1. ConnBut(C[i], p.conn[i], {"reused"})
      BY <1>1, <1>4, <1>9, <2>2, <2>4, <2>6, OfferedLists
    <3>2. ConnBut(k, p.conn[i], {"dial", "wanted", "reused"}) /\ p.conn[i].dial = "up" /\ p.conn[i].closed = k.closed
      BY <1>1, <1>9, <2>4, <3>1 DEF ConnBut, ConnFields
    <3>3. \A M : ConnKept(p.conn[i], M, i)
      BY <1>6, <3>2
    <3>4. /\ Others(Conns, p.conn, p.conn, i) /\ ConnBut(p.conn[i], p.conn[i], {"r", "alive"})
      BY <2>2 DEF AreConns, Others, IsConn, ConnBut
    <3>5. /\ \A d \in Callers : caller'[d] = caller[d] \/ (d = p.to /\ caller'[d].conn = i /\ caller'[d].pc = "start")
          /\ p.to # None => caller'[p.to].conn = i /\ caller'[p.to].pc = "start"
      BY <2>1, <2>2, <2>3, HandedAre
    <3> QED BY <1>1, <1>2, <1>4, <1>5, <1>9, <2>1, <2>2, <2>4, <2>6, <3>3, <3>4, <3>5, OfferPooled
  <2> QED BY <2>2, <2>5, <2>6
<1> QED BY <1>1, <1>8, <1>9, PendingDialFacts

(* A request is sent on its connection.                                    *)
LEMMA SendPooled ==
    ASSUME H1Types, Pooled, NEW c \in Callers, NEW i \in Conns, i = caller[c].conn, caller[c].pc = "start", UNCHANGED <<h, pool>>,
           OnlyConn(i, {"expected", "writech", "reqch"}), conn'[i].expected = conn[i].expected + 1,
           conn'[i].reqch = Append(conn[i].reqch, Req(c)),
           OnlyCaller(c, {"pc", "start", "werr", "told"}), caller'[c].pc = "wait"
    PROVE  Pooled'
<1>1. PICK k, k2, L, K2 : k = conn[i] /\ k2 = conn'[i] /\ L = Range(pool.lru) /\ K2 = caller'
  OBVIOUS
<1>2. ConnKept(k, L, i) /\ UsersKept(k, caller, L, i) /\ k.expected \in Int
  BY <1>1, PooledConn, TypeFacts, ConnFacts
<1>3. UserKept(k, caller[c], Of(c, caller[c]), L, i) /\ ~Leaving(k, caller[c], Of(c, caller[c]))
  BY <1>2 DEF UsersKept, Leaving, Awaits
<1>4. k.dial = "up" /\ i \notin L /\ k.reqch = <<>> /\ ~Busy(k)
  BY <1>3 DEF UserKept
<1>5. /\ k2.dial = k.dial /\ k2.r = k.r /\ k2.rc = k.rc /\ k2.res = k.res /\ k2.alive = k.alive /\ k2.closed = k.closed
      /\ k2.w = k.w /\ k2.bodyRead = k.bodyRead /\ k2.down = k.down /\ k2.peeked = k.peeked
  BY <1>1 DEF OnlyConn, ConnBut, ConnFields
<1>6. k2.reqch # <<>> /\ k2.reqch[1] = Req(c)
  <2>1. k2.reqch = Append(<<>>, Req(c))
    BY <1>1, <1>4
  <2> QED BY <2>1
<1>7. k2.expected \in Int /\ k2.expected > 0
  BY <1>1, <1>2 DEF ConnKept
<1>8. ~Busy(k2) /\ ~Free(k2) /\ \A a, q : Leaving(k2, a, q) <=> Leaving(k, a, q)
  BY <1>4, <1>5, <1>7 DEF Busy, Free, Leaving
<1>9. ConnKept(k2, L, i)
  BY <1>2, <1>4, <1>5, <1>7, <1>8 DEF ConnKept
<1>10. /\ \A d \in Callers \ {c} : K2[d] = caller[d]
       /\ K2[c].conn = i /\ K2[c].pc = "wait" /\ Of(c, K2[c]) = Req(c)
  BY <1>1 DEF OnlyCaller, Others, CallerBut, CallerFields, Of, Req
<1>11. \A d \in Callers \ {c} : K2[d].conn = i => Leaving(k2, K2[d], Of(d, K2[d]))
  BY <1>2, <1>3, <1>8, <1>10 DEF UsersKept
<1>12. ASSUME NEW d \in Callers, K2[d].conn = i PROVE UserKept(k2, K2[d], Of(d, K2[d]), L, i)
  <2>1. CASE d = c
    <3>1. K2[d].pc # "start" /\ K2[d].pc \notin Past
      BY <1>10, <2>1 DEF Past
    <3> QED BY <1>4, <1>5, <1>6, <1>8, <1>10, <2>1, <3>1 DEF UserKept
  <2>2. CASE d # c
    <3>1. Leaving(k2, K2[d], Of(d, K2[d]))
      BY <1>11, <1>12, <2>2
    <3>2. K2[d].pc # "start" /\ K2[d].pc \notin Past
      BY <3>1 DEF Leaving, Awaits, Past
    <3> QED BY <1>4, <1>5, <1>8, <3>1, <3>2 DEF UserKept
  <2> QED BY <2>1, <2>2
<1>13. UsersKept(k2, K2, L, i)
  BY <1>11, <1>12 DEF UsersKept
<1>14. KeptConn(k2, K2, L, i)
  BY <1>8, <1>9, <1>13 DEF KeptConn
<1>15. Unattached(caller')
  BY <1>1, <1>10 DEF Pooled, Unattached
<1>16. \A j \in Conns \ {i} : \A d \in Callers : Stays(caller[d], caller'[d]) \/ Remote(caller[d], caller'[d], j)
  BY <1>1, <1>10, StaysSelf DEF Remote
<1> QED BY <1>1, <1>14, <1>15, <1>16, StepAt

(* The request was cancelled meanwhile: the connection goes back.          *)
LEMMA GiveBackPooled ==
    ASSUME H1Types, Pooled, NEW c \in Callers, NEW i \in Conns, i = caller[c].conn, caller[c].pc = "start", h' = h,
           NEW K, GivesBack(conn, i, K), Fail(c, K, FALSE, "canceled")
    PROVE  Pooled'
<1>1. PICK k, L : k = conn[i] /\ L = Range(pool.lru)
  OBVIOUS
<1>2. ConnKept(k, L, i) /\ UsersKept(k, caller, L, i)
  BY <1>1, PooledConn
<1>3. UserKept(k, caller[c], Of(c, caller[c]), L, i) /\ ~Leaving(k, caller[c], Of(c, caller[c]))
  BY <1>2 DEF UsersKept, Leaving, Awaits
<1>4. k.dial = "up" /\ i \notin L /\ k.reqch = <<>> /\ ~Busy(k)
  BY <1>3 DEF UserKept
<1>5. \A d \in Callers \ {c} : caller[d].conn = i => Leaving(k, caller[d], Of(d, caller[d]))
  BY <1>2, <1>3 DEF UsersKept
<1>6. AreConns(conn) /\ AreCallers(caller) /\ Others(Conns, conn, conn, i)
  BY DEF H1Types, AreConns, Others
<1>7. PICK p : /\ Offered(conn, pool, i, p) /\ pool' = p.pool /\ K = Handed(caller, p.to, i)
               /\ conn' = IF p.to = None THEN p.conn ELSE HandPending(p.conn, p.to)
  BY DEF GivesBack
<1>8. /\ AreConns(p.conn) /\ p.pool \in Pools /\ p.to \in Callers \cup {None}
      /\ \/ Discarded(conn, pool, i, p)
         \/ GivenOn(conn, pool, i, p) \/ Listed(conn, pool, i, p) \/ Evicts(conn, pool, i, p)
  BY <1>6, <1>7, OfferedTo
<1>9. AreCallers(K) /\ Kindly(caller, K, i)
  BY <1>6, GivesBackFacts
<1>10. K[c] = caller[c]
  BY <1>9 DEF Kindly
<1>11. Others(Callers, K, caller', c) /\ caller'[c].conn = None
  BY <1>9, <1>10, FailFacts DEF IsReturned
<1>12. CASE Discarded(conn, pool, i, p)
  <2>1. /\ p.to = None /\ p.pool = pool /\ Others(Conns, conn, p.conn, i) /\ ConnBut(conn[i], p.conn[i], {"reused", "closed"})
        /\ p.conn[i].closed = IF conn[i].closed = Unset THEN "not put idle" ELSE conn[i].closed
    BY <1>12 DEF Discarded
  <2>2. K = caller /\ pool' = pool /\ conn' = p.conn
    BY <1>7, <2>1 DEF Handed
  <2>3. conn'[i].closed # Unset
    BY <2>1, <2>2 DEF Unset
  <2>4. OnlyConn(i, {"reused", "closed"})
    BY <1>8, <2>1, <2>2 DEF OnlyConn
  <2>5. Dull(conn[i], conn'[i]) /\ ~Free(conn'[i])
    BY <1>1, <1>2, <2>3, <2>4 DEF OnlyConn, ConnBut, ConnFields, Dull, ConnKept, Free
  <2> QED BY <1>11, <2>2, <2>4, <2>5, LeavesPooled
<1>13. CASE GivenOn(conn, pool, i, p) \/ Listed(conn, pool, i, p) \/ Evicts(conn, pool, i, p)
  <2>1. ConnBut(conn[i], p.conn[i], {"reused"}) /\ (p.to # None => p.to \in Callers /\ caller[p.to].pc = "select")
    BY <1>1, <1>4, <1>6, <1>8, <1>13, OfferedLists
  <2>2. Dull(k, p.conn[i])
    <3>1. p.conn[i].w = k.w
      BY <1>1, <2>1 DEF ConnBut, ConnFields
    <3> QED BY <1>1, <1>2, <2>1, <3>1, DullBut DEF DullFields
  <2>3. \A M : ConnKept(p.conn[i], M, i)
    <3>1. ConnKept(p.conn[i], L, i)
      BY <1>2, <2>2, DullConn
    <3>2. p.conn[i].dial = "up" /\ p.conn[i].reqch = <<>> /\ ~Busy(p.conn[i])
      BY <1>4, <2>2, DullFacts DEF Dull
    <3> QED BY <3>1, <3>2, ConnAny
  <2>4. Others(Conns, p.conn, p.conn, i) /\ ConnBut(p.conn[i], p.conn[i], {"r", "alive"})
    BY <1>8 DEF AreConns, Others, IsConn, ConnBut
  <2>5. PICK K0 : K0 = [d \in Callers |-> IF d = c THEN caller'[c] ELSE caller[d]]
    OBVIOUS
  <2>6. K0[c].conn = None /\ \A d \in Callers \ {c} : K0[d] = caller[d]
    BY <1>11, <2>5
  <2>7. \A d \in Callers : K0[d] = caller[d] \/ (caller[d].conn = i /\ K0[d].conn = None)
    BY <2>6
  <2>8. \A d \in Callers : K0[d].conn = i => Leaving(p.conn[i], K0[d], Of(d, K0[d]))
    <3> SUFFICES ASSUME NEW d \in Callers, K0[d].conn = i PROVE Leaving(p.conn[i], K0[d], Of(d, K0[d]))
      OBVIOUS
    <3>1. d # c /\ K0[d] = caller[d]
      BY <2>6, TypeFacts
    <3>2. Leaving(k, caller[d], Of(d, caller[d]))
      BY <1>5, <3>1
    <3> QED BY <2>2, <3>1, <3>2, StaysSelf, DullFacts
  <2>9. /\ \A d \in Callers : K[d] = caller[d] \/ (d = p.to /\ K[d].conn = i /\ K[d].pc = "start")
        /\ p.to # None => K[p.to].conn = i /\ K[p.to].pc = "start"
    BY <1>6, <1>7, <1>8, HandedAre
  <2>10. p.to # c
    BY <2>1, TypeFacts
  <2>11. \A d \in Callers : caller'[d] = K0[d] \/ (d = p.to /\ caller'[d].conn = i /\ caller'[d].pc = "start")
    BY <1>11, <2>5, <2>6, <2>9 DEF Others
  <2>12. p.to # None => caller'[p.to].conn = i /\ caller'[p.to].pc = "start"
    BY <1>11, <2>1, <2>9, <2>10 DEF Others
  <2> QED BY <1>1, <1>4, <1>6, <1>7, <1>8, <1>13, <2>3, <2>4, <2>7, <2>8, <2>11, <2>12, OfferPooled
<1> QED BY <1>8, <1>12, <1>13

LEMMA RoundTripPooled ==
    ASSUME H1Types, Pooled, NEW c \in Callers, roundTrip(c)
    PROVE  Pooled'
<1>1. PICK i : i = caller[c].conn
  OBVIOUS
<1>2. h' = h /\ caller[c].pc = "start" /\ i \in Conns
  BY <1>1, RoundTripFacts
<1>3. CASE \E K : GivesBack(conn, i, K) /\ Fail(c, K, FALSE, "canceled")
  BY <1>1, <1>2, <1>3, GiveBackPooled
<1>4. CASE /\ pool' = pool /\ OnlyConn(i, {"expected", "writech", "reqch"}) /\ conn'[i].expected = conn[i].expected + 1
           /\ conn'[i].reqch = Append(conn[i].reqch, Req(c))
           /\ OnlyCaller(c, {"pc", "start", "werr", "told"}) /\ caller'[c].pc = "wait"
  BY <1>1, <1>2, <1>4, SendPooled
<1> QED BY <1>1, <1>3, <1>4, RoundTripFacts

-----------------------------------------------------------------------------
(* The readLoop is done with a response, or has one without a body: the    *)
(* users of its connection then, and what releasing them leaves.           *)
LEMMA RecycleUsers ==
    ASSUME H1Types, Pooled, NEW i \in Conns, conn[i].r = "recycle", NEW K, Released(i, K)
    PROVE  /\ AreCallers(K)
           /\ \A d \in Callers : K[d] = caller[d] \/ (caller[d].conn = i /\ K[d].conn = None)
           /\ HasBody(conn[i].res) => \A d \in Callers : K[d].conn # i
           /\ ~HasBody(conn[i].res) =>
                /\ \A d \in Callers : K[d] = caller[d]
                /\ \A d \in Callers : K[d].conn = i => K[d].pc \in Awaits /\ Of(d, K[d]) = conn[i].rc
<1>1. PICK k, L : k = conn[i] /\ L = Range(pool.lru)
  OBVIOUS
<1>2. ConnKept(k, L, i) /\ UsersKept(k, caller, L, i) /\ Busy(k)
  BY <1>1, PooledConn DEF Busy
<1>3. ASSUME NEW d \in Callers, caller[d].conn = i
      PROVE  /\ HasBody(k.res) => Ends(d, i)
             /\ ~HasBody(k.res) => caller[d].pc \in Awaits /\ Of(d, caller[d]) = k.rc
  <2>1. UserKept(k, caller[d], Of(d, caller[d]), L, i)
    BY <1>2, <1>3 DEF UsersKept
  <2>2. caller[d].pc \in Awaits \/ caller[d].pc \in Past
    BY <1>2, <1>3, <2>1, UserPc DEF UserKept
  <2>3. CASE caller[d].pc \in Awaits
    BY <1>1, <1>2, <2>1, <2>3 DEF UserKept
  <2>4. CASE caller[d].pc \in Past
    <3>1. HasBody(k.res) /\ caller[d].pc = "eof" /\ Of(d, caller[d])[1] = k.rc[1]
      BY <1>1, <2>1, <2>4 DEF UserKept
    <3>2. Of(d, caller[d])[1] = d
      BY DEF Of
    <3> QED BY <1>1, <1>3, <3>1, <3>2 DEF Ends
  <2> QED BY <2>2, <2>3, <2>4
<1>4. CASE K = caller /\ \A d \in Callers : ~Ends(d, i)
  <2>1. AreCallers(K)
    BY <1>4 DEF H1Types
  <2> QED BY <1>1, <1>3, <1>4, <2>1
<1>5. ASSUME NEW c \in Callers, Ends(c, i), Finished(caller, K, c)
      PROVE  /\ AreCallers(K) /\ HasBody(k.res) /\ caller[c].conn = i /\ K[c].conn = None
             /\ \A d \in Callers \ {c} : K[d] = caller[d] /\ caller[d].conn # i
  <2>1. Others(Callers, caller, K, c) /\ K[c].conn = None /\ AreCallers(K)
    BY <1>5, FinishedLeaves DEF Finished
  <2>2. HasBody(k.res) /\ caller[c].conn = i /\ k.rc[1] = c
    BY <1>1, <1>5 DEF Ends
  <2>3. \A d \in Callers \ {c} : caller[d].conn # i
    BY <1>1, <1>3, <2>2 DEF Ends
  <2> QED BY <2>1, <2>2, <2>3 DEF Others
<1>6. CASE \E c \in Callers : Ends(c, i) /\ Finished(caller, K, c)
  <2>1. PICK c \in Callers : /\ AreCallers(K) /\ HasBody(k.res) /\ caller[c].conn = i /\ K[c].conn = None
                             /\ \A d \in Callers \ {c} : K[d] = caller[d] /\ caller[d].conn # i
    BY <1>5, <1>6
  <2>2. \A d \in Callers : K[d].conn # i
    BY <2>1, TypeFacts
  <2> QED BY <1>1, <2>1, <2>2
<1> QED BY <1>4, <1>6 DEF Released

LEMMA RecyclePooled ==
    ASSUME H1Types, Pooled, NEW i \in Conns, Recycle(i)
    PROVE  Pooled'
<1>1. PICK k, L : k = conn[i] /\ L = Range(pool.lru)
  OBVIOUS
<1>2. h' = h /\ k.dial = "up" /\ k.r = "recycle"
  BY <1>1, RecycleFacts
<1>3. ConnKept(k, L, i) /\ UsersKept(k, caller, L, i) /\ Busy(k)
  BY <1>1, <1>2, PooledConn DEF Busy
<1>4. k.reqch = <<>> /\ i \notin L /\ k.bodyRead = <<>> /\ k.res \notin Errors
  BY <1>2, <1>3 DEF ConnKept
<1>5. ASSUME NEW x, ConnBut(k, x, {"writeErrCh", "reused", "r", "alive"}), NEW a \in BOOLEAN, x.r = After(i, a), x.alive = a
      PROVE  /\ ConnKept(x, L, i) /\ x.dial = "up" /\ x.reqch = <<>> /\ x.rc = k.rc /\ x.res = k.res
             /\ a => ~Busy(x)
             /\ ~a => ~Free(x)
             /\ x.r = IF ~HasBody(k.res) THEN "deliver" ELSE IF a THEN "peek" ELSE "exit"
  <2>1. /\ x.dial = k.dial /\ x.rc = k.rc /\ x.res = k.res /\ x.reqch = k.reqch /\ x.peeked = k.peeked
        /\ x.expected = k.expected /\ x.closed = k.closed /\ x.w = k.w /\ x.bodyRead = k.bodyRead /\ x.down = k.down
    BY <1>5 DEF ConnBut, ConnFields
  <2>2. x.r = IF ~HasBody(k.res) THEN "deliver" ELSE IF a THEN "peek" ELSE "exit"
    BY <1>1, <1>5 DEF After
  <2>3. (a => ~Busy(x)) /\ (~a => ~Free(x))
    BY <1>4, <1>5, <2>1, <2>2 DEF Busy, Free
  <2>4. ConnKept(x, L, i)
    BY <1>2, <1>3, <1>4, <2>1, <2>2 DEF ConnKept
  <2> QED BY <1>2, <1>4, <2>1, <2>2, <2>3, <2>4
<1>6. ASSUME OnlyConn(i, {"writeErrCh", "reused", "r", "alive"}), conn'[i].r = After(i, FALSE), conn'[i].alive = FALSE,
             pool' = pool, Released(i, caller')
      PROVE  Pooled'
  <2>1. PICK k2, K2 : k2 = conn'[i] /\ K2 = caller'
    OBVIOUS
  <2>2. ConnBut(k, k2, {"writeErrCh", "reused", "r", "alive"}) /\ k2.r = After(i, FALSE) /\ k2.alive = FALSE
    BY <1>1, <1>6, <2>1 DEF OnlyConn
  <2>3. /\ ConnKept(k2, L, i) /\ k2.dial = "up" /\ k2.reqch = <<>> /\ k2.rc = k.rc /\ k2.res = k.res /\ ~Free(k2)
        /\ k2.r = IF ~HasBody(k.res) THEN "deliver" ELSE "exit"
    BY <1>5, <2>2
  <2>4. /\ \A d \in Callers : K2[d] = caller[d] \/ (caller[d].conn = i /\ K2[d].conn = None)
        /\ HasBody(k.res) => \A d \in Callers : K2[d].conn # i
        /\ ~HasBody(k.res) => \A d \in Callers : K2[d].conn = i => K2[d].pc \in Awaits /\ Of(d, K2[d]) = k.rc
    BY <1>1, <1>2, <1>6, <2>1, RecycleUsers
  <2>5. ASSUME NEW d \in Callers, K2[d].conn = i PROVE UserKept(k2, K2[d], Of(d, K2[d]), L, i)
    <3>1. K2[d].pc \in Awaits /\ Of(d, K2[d]) = k.rc /\ ~HasBody(k.res)
      BY <2>4, <2>5
    <3>2. K2[d].pc # "start" /\ K2[d].pc \notin Past
      BY <3>1 DEF Awaits, Past
    <3> QED BY <1>4, <2>3, <3>1, <3>2 DEF UserKept
  <2>6. \A d, e \in Callers : K2[d].conn = i /\ K2[e].conn = i => d = e
    BY <2>4 DEF Of
  <2>7. KeptConn(k2, K2, L, i)
    BY <2>3, <2>5, <2>6 DEF KeptConn, UsersKept
  <2>8. Unattached(caller')
    BY <2>1, <2>4 DEF Pooled, Unattached
  <2>9. \A j \in Conns \ {i} : \A d \in Callers : Stays(caller[d], caller'[d]) \/ Remote(caller[d], caller'[d], j)
    BY <2>1, <2>4, StaysSelf, TypeFacts DEF Remote
  <2> QED BY <1>1, <1>2, <1>6, <2>1, <2>7, <2>8, <2>9, StepAt
<1>7. CASE /\ OnlyConn(i, {"writeErrCh", "r", "alive"}) /\ conn'[i].r = After(i, FALSE) /\ conn'[i].alive = FALSE
           /\ pool' = pool /\ Released(i, caller')
  <2>1. OnlyConn(i, {"writeErrCh", "reused", "r", "alive"})
    BY <1>7 DEF OnlyConn, ConnBut
  <2> QED BY <1>6, <1>7, <2>1
<1>8. ASSUME NEW E, NEW p, NEW D, NEW K, AreConns(E), Others(Conns, conn, E, i), ConnBut(conn[i], E[i], {"writeErrCh"}),
             AreConns(p.conn), p.pool \in Pools, p.ok \in BOOLEAN,
             Refused(E, pool, i, p) \/ GivenOn(E, pool, i, p) \/ Listed(E, pool, i, p) \/ Evicts(E, pool, i, p),
             AreConns(D), Others(Conns, p.conn, D, i), ConnBut(p.conn[i], D[i], {"r", "alive"}),
             D[i].r = After(i, p.ok), D[i].alive = p.ok,
             pool' = p.pool, conn' = (IF p.to = None THEN D ELSE HandPending(D, p.to)),
             Released(i, K), caller' = Handed(K, p.to, i)
      PROVE  Pooled'
  <2>1. CASE Refused(E, pool, i, p)
    <3>1. p.ok = FALSE /\ p.to = None /\ p.pool = pool /\ Others(Conns, E, p.conn, i) /\ ConnBut(E[i], p.conn[i], {"reused"})
      BY <1>8, <2>1 DEF Refused, Reuses
    <3>2. conn' = D /\ caller' = K /\ pool' = pool
      BY <1>8, <3>1 DEF Handed
    <3>3. OnlyConn(i, {"writeErrCh", "reused", "r", "alive"})
      BY <1>8, <3>1, <3>2 DEF OnlyConn, Others, ConnBut, ConnFields
    <3> QED BY <1>6, <1>8, <3>1, <3>2, <3>3
  <2>2. CASE GivenOn(E, pool, i, p) \/ Listed(E, pool, i, p) \/ Evicts(E, pool, i, p)
    <3>1. p.ok = TRUE
      BY <1>8, <2>2 DEF GivenOn, Listed, Evicts
    <3>2. E[i].key = conn[i].key
      BY <1>8 DEF ConnBut, ConnFields
    <3>3. ConnBut(E[i], p.conn[i], {"reused"}) /\ p.to \in Callers \cup {None}
      BY <1>1, <1>4, <1>8, <2>2, <3>2, OfferedLists
    <3>4. ConnBut(k, D[i], {"writeErrCh", "reused", "r", "alive"})
      BY <1>1, <1>8, <3>3 DEF ConnBut, ConnFields
    <3>5. /\ ConnKept(D[i], L, i) /\ D[i].dial = "up" /\ D[i].reqch = <<>> /\ D[i].rc = k.rc /\ D[i].res = k.res
          /\ ~Busy(D[i]) /\ (~HasBody(k.res) => D[i].r = "deliver")
      BY <1>5, <1>8, <3>1, <3>4
    <3>6. \A M : ConnKept(D[i], M, i)
      BY <3>5, ConnAny
    <3>7. /\ AreCallers(K)
          /\ \A d \in Callers : K[d] = caller[d] \/ (caller[d].conn = i /\ K[d].conn = None)
          /\ HasBody(k.res) => \A d \in Callers : K[d].conn # i
          /\ ~HasBody(k.res) => \A d \in Callers : K[d].conn = i => K[d].pc \in Awaits /\ Of(d, K[d]) = k.rc
      BY <1>1, <1>2, <1>8, RecycleUsers
    <3>8. \A d \in Callers : K[d].conn = i => Leaving(D[i], K[d], Of(d, K[d]))
      BY <3>5, <3>7 DEF Leaving
    <3>9. /\ \A d \in Callers : caller'[d] = K[d] \/ (d = p.to /\ caller'[d].conn = i /\ caller'[d].pc = "start")
          /\ p.to # None => caller'[p.to].conn = i /\ caller'[p.to].pc = "start"
      BY <1>8, <3>3, <3>7, HandedAre
    <3> QED BY <1>1, <1>2, <1>4, <1>8, <2>2, <3>2, <3>6, <3>7, <3>8, <3>9, OfferPooled
  <2> QED BY <1>8, <2>1, <2>2
<1> QED BY <1>7, <1>8, RecycleFacts, ZenonT(90)

-----------------------------------------------------------------------------
LEMMA PooledInit == H1Init => Pooled
<1> SUFFICES ASSUME H1Init PROVE Pooled
  OBVIOUS
<1>1. /\ caller = [c \in Callers |-> IF c \in h.users THEN Sending(CallerInit, 0, h.method) ELSE CallerInit]
      /\ conn = [i \in Conns |-> ConnInit]
      /\ pool = [idle |-> [x \in Hosts |-> <<>>], lru |-> <<>>, wantIdle |-> FALSE] /\ h \in Setting
  BY SettingsAssumption DEF H1Init
<1>2. \A c \in Callers : caller[c].conn = None
  <2>1. Sending(CallerInit, 0, h.method).conn = None
    BY DEF Sending, CallerInit
  <2> QED BY <1>1, <2>1, CallerInitFacts
<1>3. Unattached(caller)
  BY <1>2 DEF Unattached
<1>4. Range(<<>>) = {} /\ IsInjective(<<>>) /\ Len(<<>>) = 0
  BY DEF Range, IsInjective
<1>5. pool.lru = <<>> /\ \A x \in Hosts : pool.idle[x] = <<>>
  BY <1>1
<1>6. Lists(pool, conn)
  <2>1. h.perHost \in Nat /\ h.maxIdle \in Nat
    BY <1>1 DEF Setting
  <2>2. UNION {Range(pool.idle[x]) : x \in Hosts} = {}
    BY <1>4, <1>5
  <2> QED BY <1>4, <1>5, <2>1, <2>2 DEF Lists, Agree
<1>7. ASSUME NEW i \in Conns PROVE KeptConn(conn[i], caller, Range(pool.lru), i)
  <2>1. PICK k : k = conn[i]
    OBVIOUS
  <2>2. /\ k.dial = "no" /\ k.r = "peek" /\ k.reqch = <<>> /\ k.expected = 0 /\ k.w = "idle" /\ k.bodyRead = <<>>
        /\ k.down = <<>> /\ i \notin Range(pool.lru)
    BY <1>1, <1>4, <1>5, <2>1, ConnInitFacts
  <2>3. ~Busy(k) /\ ~Free(k) /\ <<>> \in Seq(Frames)
    BY <2>2 DEF Busy, Free
  <2>4. ConnKept(k, Range(pool.lru), i)
    BY <2>2, <2>3 DEF ConnKept
  <2>5. \A c \in Callers : caller[c].conn # i
    BY <1>2, SettingsAssumption DEF None
  <2>6. UsersKept(k, caller, Range(pool.lru), i)
    BY <2>5 DEF UsersKept
  <2> QED BY <2>1, <2>3, <2>4, <2>6 DEF KeptConn
<1> QED BY <1>3, <1>6, <1>7 DEF Pooled

LEMMA PooledNext == H1Types /\ Pooled /\ [H1Next]_h1Vars => Pooled'
<1> SUFFICES ASSUME H1Types, Pooled, [H1Next]_h1Vars PROVE Pooled'
  OBVIOUS
<1>1. ASSUME NEW c \in Callers, CallerStep(c) PROVE Pooled'
  BY <1>1, GetIdlePooled, JoinPooled, DialCanceledPooled, RoundTripPooled, DialAnswersPooled, ErrorsPooled,
     CancelingPooled, BodyPooled DEF CallerStep
<1>2. ASSUME NEW i \in Conns, ConnStep(i) PROVE Pooled'
  BY <1>2, PendingDialPooled, PeekPooled, ReadResponsePooled, RecyclePooled, DeliverPooled, AwaitBodyPooled,
     ReadLoopEndsPooled, DullSteps, WriteLoopPooled, StillIdlePooled DEF ConnStep
<1>3. ASSUME Surroundings PROVE Pooled'
  BY <1>3, CancelingPooled, DullSteps, CloseIdlePooled DEF Surroundings
<1>4. CASE UNCHANGED h1Vars
  <2>1. h' = h /\ caller' = caller /\ conn' = conn /\ pool' = pool
    BY <1>4 DEF h1Vars
  <2> QED BY <2>1, PooledBy DEF Pooled
<1> QED BY <1>1, <1>2, <1>3, <1>4 DEF H1Next, H1Client

LEMMA PooledKept == H1Types /\ Pooled => PoolSound /\ OneUser /\ NoLeak
<1> SUFFICES ASSUME H1Types, Pooled PROVE PoolSound /\ OneUser /\ NoLeak
  OBVIOUS
<1>1. Lists(pool, conn) /\ Range(pool.lru) \subseteq Conns
  BY LruFacts DEF Pooled
<1>2. ASSUME NEW i \in Range(pool.lru), NEW c \in Callers, caller[c].conn = i
      PROVE  conn[i].r = "deliver" /\ caller[c].pc \in {"wait", "map"}
  <2>1. UserKept(conn[i], caller[c], Of(c, caller[c]), Range(pool.lru), i)
    BY <1>1, <1>2, PooledConn DEF UsersKept
  <2> QED BY <2>1 DEF UserKept, Leaving, Awaits
<1>3. PoolSound
  BY <1>1, <1>2 DEF PoolSound, Lists, Agree
<1>4. ASSUME NEW c \in Callers, NEW d \in Callers, c # d, caller[c].conn # None, caller[c].conn = caller[d].conn
      PROVE  \E x \in {c, d} : /\ caller[x].pc \in {"wait", "map"} /\ conn[caller[x].conn].r = "deliver"
                               /\ conn[caller[x].conn].rc = Req(x)
  <2>1. PICK i : i = caller[c].conn
    OBVIOUS
  <2>2. i \in Conns
    BY <1>4, <2>1, TypeFacts, CallerFacts
  <2>3. UsersKept(conn[i], caller, Range(pool.lru), i)
    BY <2>2, PooledConn
  <2>4. Leaving(conn[i], caller[c], Of(c, caller[c])) \/ Leaving(conn[i], caller[d], Of(d, caller[d]))
    BY <1>4, <2>1, <2>3 DEF UsersKept
  <2> QED BY <1>4, <2>1, <2>4 DEF Leaving, Awaits, Of, Req
<1>5. OneUser
  BY <1>4 DEF OneUser
<1>6. ASSUME NEW i \in Conns, conn[i].dial = "up", conn[i].closed = Unset, Idle(i), ~conn[i].fired
      PROVE  i \in Range(pool.lru) \/ InUse(i)
  <2>1. Free(conn[i])
    BY <1>6 DEF Free, Idle
  <2>2. i \in Range(pool.lru) \/ \E c \in Callers : Holds(conn[i], caller[c], c, i)
    BY <2>1, PooledConn DEF KeptConn
  <2> QED BY <2>2 DEF Holds, InUse
<1>7. NoLeak
  BY <1>6 DEF NoLeak
<1> QED BY <1>3, <1>5, <1>7
=============================================================================
