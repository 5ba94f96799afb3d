----------------------------- MODULE HttpProofs -----------------------------
(* Proofs about the HTTP/2 client, for every set of requests, connections, *)
(* streams and plays, and about the two clients together.                  *)
EXTENDS Http, Http1Proofs

-----------------------------------------------------------------------------
(* HTTP/2: no request is acted on twice.                                   *)

CsFields == {"req", "flow", "inflow", "buf", "pipe", "err", "brk", "resc", "done", "peerReset", "didReset",
             "stop", "left", "w", "wres", "past"}
StreamFields == {"st", "head", "early", "down", "send", "recv", "got"}
SvFields == {"windows", "init", "send", "recv", "last", "pinged", "stream"}
RtFields == {"pc", "conn", "id", "cancel", "written", "res", "err"}
Results == {"body", "no body", "refused", "refused no body", "bad response", "EOF", "closed pipe",
            "stream error", "protocol", "flow control", "server left"}
Plain(r) == r = <<>> \/ \E x \in Results : r = <<x>>
Rec(s, F) == s = [f \in F |-> s[f]]

AreStreams(S) ==
    /\ S = [k \in Conns2 |-> S[k]]
    /\ \A k \in Conns2 : S[k] = [n \in Streams |-> S[k][n]] /\ \A n \in Streams : Rec(S[k][n], CsFields)
AreServers(V) ==
    /\ V = [k \in Conns2 |-> V[k]]
    /\ \A k \in Conns2 : /\ Rec(V[k], SvFields) /\ V[k].stream = [n \in Streams |-> V[k].stream[n]]
                         /\ \A n \in Streams : Rec(V[k].stream[n], StreamFields)

(* What a step may do to a stream, to a server and to a connection of the  *)
(* client when it sends no request.                                        *)
StreamLike(s, t) == Rec(t, CsFields) /\ t.req = s.req /\ (t.resc = s.resc \/ Plain(t.resc))
ServedLike(s, t) == Rec(t, StreamFields) /\ (t.st = "open" => s.st = "open")
ServerLike(v, w) ==
    /\ Rec(w, SvFields) /\ w.last = v.last /\ w.stream = [n \in Streams |-> w.stream[n]]
    /\ \A n \in Streams : ServedLike(v.stream[n], w.stream[n])
CsLike(S, S2) == AreStreams(S2) /\ \A k \in Conns2, n \in Streams : StreamLike(S[k][n], S2[k][n])
SvLike(V, V2) == AreServers(V2) /\ \A k \in Conns2 : ServerLike(V[k], V2[k])

LEMMA LikeItself ==
    /\ \A S : AreStreams(S) => CsLike(S, S)
    /\ \A V : AreServers(V) => SvLike(V, V)
  BY DEF AreStreams, AreServers, CsLike, SvLike, StreamLike, ServerLike, ServedLike

LEMMA LikeBoth ==
    /\ \A S, S1, S2 : CsLike(S, S1) /\ CsLike(S1, S2) => CsLike(S, S2)
    /\ \A V, V1, V2 : SvLike(V, V1) /\ SvLike(V1, V2) => SvLike(V, V2)
<1>1. \A S, S1, S2 : CsLike(S, S1) /\ CsLike(S1, S2) => CsLike(S, S2)
  <2>1. ASSUME NEW s, NEW t, NEW u, StreamLike(s, t), StreamLike(t, u) PROVE StreamLike(s, u)
    BY <2>1 DEF StreamLike
  <2> QED BY <2>1, Zenon DEF CsLike
<1>2. \A V, V1, V2 : SvLike(V, V1) /\ SvLike(V1, V2) => SvLike(V, V2)
  <2>1. ASSUME NEW s, NEW t, NEW u, ServerLike(s, t), ServerLike(t, u) PROVE ServerLike(s, u)
    BY <2>1, Zenon DEF ServerLike, ServedLike
  <2> QED BY <2>1, Zenon DEF SvLike
<1> QED BY <1>1, <1>2

LEMMA StreamUpdated ==
    ASSUME NEW S, AreStreams(S), NEW k \in Conns2, NEW n, NEW y, n \in Streams => StreamLike(S[k][n], y),
           NEW S2, S2 = [S EXCEPT ![k][n] = y]
    PROVE  CsLike(S, S2)
  BY DEF AreStreams, CsLike, StreamLike

LEMMA ServerUpdated ==
    ASSUME NEW V, AreServers(V), NEW k \in Conns2, NEW w, ServerLike(V[k], w), NEW V2, V2 = [V EXCEPT ![k] = w]
    PROVE  SvLike(V, V2)
  BY DEF AreServers, SvLike, ServerLike, ServedLike

LEMMA ServedUpdated ==
    ASSUME NEW V, AreServers(V), NEW k \in Conns2, NEW n, NEW y, n \in Streams => ServedLike(V[k].stream[n], y),
           NEW w, w = [V[k] EXCEPT !.stream[n] = y]
    PROVE  ServerLike(V[k], w)
<1>1. Rec(V[k], SvFields) /\ V[k].stream = [m \in Streams |-> V[k].stream[m]]
      /\ \A m \in Streams : Rec(V[k].stream[m], StreamFields)
  BY DEF AreServers
<1>2. PICK z : z = [V[k].stream EXCEPT ![n] = y]
  OBVIOUS
<1>3. w = [V[k] EXCEPT !.stream = z]
  BY <1>2
<1>4. w.stream = z /\ w.last = V[k].last /\ Rec(w, SvFields)
  BY <1>1, <1>3, Zenon DEF Rec, SvFields
<1>5. z = [m \in Streams |-> z[m]] /\ \A m \in Streams : ServedLike(V[k].stream[m], z[m])
  BY <1>1, <1>2 DEF ServedLike
<1>6. w.stream = [m \in Streams |-> w.stream[m]] /\ \A m \in Streams : ServedLike(V[k].stream[m], w.stream[m])
  BY <1>4, <1>5
<1> QED BY <1>4, <1>6, Zenon DEF ServerLike

LEMMA ResetsLike ==
    ASSUME NEW V, AreServers(V), NEW k \in Conns2, NEW n, NEW V2, V2 = ServerResets(V, k, n)
    PROVE  SvLike(V, V2)
<1>1. PICK y : y = [V[k].stream[n] EXCEPT !.st = IF @ = "open" THEN "closed" ELSE @]
  OBVIOUS
<1>2. n \in Streams => ServedLike(V[k].stream[n], y)
  <2>1. n \in Streams => Rec(V[k].stream[n], StreamFields)
    BY DEF AreServers
  <2> QED BY <1>1, <2>1 DEF ServedLike, Rec, StreamFields
<1>3. PICK w : w = [V[k] EXCEPT !.stream[n] = y]
  OBVIOUS
<1>4. ServerLike(V[k], w)
  BY <1>2, <1>3, ServedUpdated
<1>5. V2 = [V EXCEPT ![k] = w]
  BY <1>1, <1>3 DEF ServerResets
<1> QED BY <1>4, <1>5, ServerUpdated

LEMMA GainsLike ==
    ASSUME NEW V, AreServers(V), NEW k \in Conns2, NEW n, NEW inc, NEW V2, V2 = ServerGains(V, k, n, inc)
    PROVE  SvLike(V, V2)
<1>1. CASE n = 0
  <2>1. PICK w : w = [V[k] EXCEPT !.send = @ + inc]
    OBVIOUS
  <2>2. Rec(V[k], SvFields) /\ V[k].stream = [m \in Streams |-> V[k].stream[m]]
        /\ \A m \in Streams : Rec(V[k].stream[m], StreamFields)
    BY DEF AreServers
  <2>3. Rec(w, SvFields) /\ w.stream = V[k].stream /\ w.last = V[k].last
    BY <2>1, <2>2, Zenon DEF Rec, SvFields
  <2>4. ServerLike(V[k], w)
    BY <2>2, <2>3, Zenon DEF ServerLike, ServedLike
  <2>5. V2 = [V EXCEPT ![k] = w]
    BY <1>1, <2>1 DEF ServerGains
  <2> QED BY <2>4, <2>5, ServerUpdated
<1>2. CASE n # 0
  <2>1. PICK y : y = [V[k].stream[n] EXCEPT !.send = @ + inc]
    OBVIOUS
  <2>2. n \in Streams => ServedLike(V[k].stream[n], y)
    <3>1. n \in Streams => Rec(V[k].stream[n], StreamFields)
      BY DEF AreServers
    <3> QED BY <2>1, <3>1, Zenon DEF ServedLike, Rec, StreamFields
  <2>3. PICK w : w = [V[k] EXCEPT !.stream[n] = y]
    OBVIOUS
  <2>4. ServerLike(V[k], w)
    BY <2>2, <2>3, ServedUpdated
  <2>5. V2 = [V EXCEPT ![k] = w]
    BY <1>2, <2>1, <2>3 DEF ServerGains
  <2> QED BY <2>4, <2>5, ServerUpdated
<1> QED BY <1>1, <1>2

LEMMA ForgetLike ==
    ASSUME NEW C, NEW S, AreStreams(S), NEW k \in Conns2, NEW n, NEW r, r = Forget(C, S, k, n)
    PROVE  CsLike(S, r.cs)
<1>1. CASE n \in C[k].streams /\ ~C[k].closed
  <2>1. PICK y, S2 : y = [S[k][n] EXCEPT !.done = TRUE] /\ S2 = r.cs
    OBVIOUS
  <2>2. n \in Streams => Rec(S[k][n], CsFields)
    BY DEF AreStreams
  <2>3. n \in Streams => StreamLike(S[k][n], y)
    BY <2>1, <2>2, Zenon DEF Rec, CsFields, StreamLike
  <2>4. S2 = [S EXCEPT ![k][n] = y]
    BY <1>1, <2>1 DEF Forget
  <2>5. CsLike(S, S2)
    BY <2>3, <2>4, StreamUpdated
  <2> QED BY <2>1, <2>5
<1>2. CASE ~(n \in C[k].streams /\ ~C[k].closed)
  <2>1. r.cs = S
    BY <1>2 DEF Forget
  <2> QED BY <2>1, LikeItself
<1> QED BY <1>1, <1>2

LEMMA OfferLike ==
    ASSUME NEW S, AreStreams(S), NEW k \in Conns2, NEW n, NEW e \in Results, NEW S2, S2 = Offer(S, k, n, e)
    PROVE  CsLike(S, S2)
<1>1. PICK y : y = [S[k][n] EXCEPT !.resc = IF @ = <<>> THEN <<e>> ELSE @]
  OBVIOUS
<1>2. n \in Streams => Rec(S[k][n], CsFields)
  BY DEF AreStreams
<1>3. n \in Streams => y.resc = <<e>> \/ y.resc = S[k][n].resc
  BY <1>1, <1>2 DEF Rec, CsFields
<1>4. n \in Streams => Rec(y, CsFields) /\ y.req = S[k][n].req
  BY <1>1, <1>2, Zenon DEF Rec, CsFields
<1>5. n \in Streams => StreamLike(S[k][n], y)
  BY <1>3, <1>4, Zenon DEF StreamLike, Plain
<1>6. S2 = [S EXCEPT ![k][n] = y]
  BY <1>1 DEF Offer
<1> QED BY <1>5, <1>6, StreamUpdated

LEMMA EndPipeLike ==
    ASSUME NEW S, AreStreams(S), NEW k \in Conns2, NEW n, NEW e, NEW S2, S2 = EndPipe(S, k, n, e)
    PROVE  CsLike(S, S2)
<1>1. PICK y : y = [S[k][n] EXCEPT !.err = IF @ = Blank THEN e ELSE @]
  OBVIOUS
<1>2. n \in Streams => Rec(S[k][n], CsFields)
  BY DEF AreStreams
<1>3. n \in Streams => StreamLike(S[k][n], y)
  BY <1>1, <1>2, Zenon DEF Rec, CsFields, StreamLike
<1>4. S2 = [S EXCEPT ![k][n] = y]
  BY <1>1 DEF EndPipe
<1> QED BY <1>3, <1>4, StreamUpdated

LEMMA StreamErrorLike ==
    ASSUME NEW S, AreStreams(S), NEW k \in Conns2, NEW n, NEW e \in Results, NEW S2, S2 = endStreamError(S, k, n, e)
    PROVE  CsLike(S, S2)
<1>1. PICK S1 : S1 = EndPipe(S, k, n, e)
  OBVIOUS
<1>2. CsLike(S, S1) /\ S2 = Offer(S1, k, n, e)
  BY <1>1, EndPipeLike DEF endStreamError
<1>3. CsLike(S1, S2)
  BY <1>2, OfferLike DEF CsLike
<1> QED BY <1>2, <1>3, LikeBoth

LEMMA HandleResponseLike ==
    ASSUME NEW S, AreStreams(S), NEW k \in Conns2, NEW f, NEW S2, S2 = handleResponse(S, k, f)
    PROVE  CsLike(S, S2)
<1>1. f.n \in Streams => Rec(S[k][f.n], CsFields)
  BY DEF AreStreams
<1>2. PICK n : n = f.n
  OBVIOUS
<1>3. CASE f.v = "bad"
  <2>1. PICK y : y = [S[k][n] EXCEPT !.resc = <<"bad response">>]
    OBVIOUS
  <2>2. n \in Streams => Rec(y, CsFields) /\ y.req = S[k][n].req /\ y.resc = <<"bad response">>
    BY <1>1, <1>2, <2>1, Zenon DEF Rec, CsFields
  <2>3. "bad response" \in Results
    BY DEF Results
  <2>4. n \in Streams => StreamLike(S[k][n], y)
    BY <2>2, <2>3, Zenon DEF StreamLike, Plain
  <2>5. S2 = [S EXCEPT ![k][n] = y]
    BY <1>2, <1>3, <2>1 DEF handleResponse
  <2> QED BY <2>4, <2>5, StreamUpdated
<1>4. CASE f.v # "bad"
  <2>1. PICK e : e = IF f.end THEN IF f.v = "ok" THEN "no body" ELSE "refused no body"
                     ELSE IF f.v = "ok" THEN "body" ELSE "refused"
    OBVIOUS
  <2>2. e \in Results
    BY <2>1 DEF Results
  <2>3. S2 = [S EXCEPT ![k][f.n].pipe = ~f.end, ![k][f.n].resc = <<e>>]
    BY <1>4, <2>1, Zenon DEF handleResponse
  <2>4. PICK S1 : S1 = [S EXCEPT ![k][n].pipe = ~f.end]
    OBVIOUS
  <2>5. S2 = [S1 EXCEPT ![k][n].resc = <<e>>]
    BY <1>2, <2>3, <2>4
  <2>6. CsLike(S, S1)
    <3>1. PICK y : y = [S[k][n] EXCEPT !.pipe = ~f.end]
      OBVIOUS
    <3>2. n \in Streams => StreamLike(S[k][n], y)
      BY <1>1, <1>2, <3>1, Zenon DEF StreamLike, Rec, CsFields
    <3>3. S1 = [S EXCEPT ![k][n] = y]
      BY <2>4, <3>1
    <3> QED BY <3>2, <3>3, StreamUpdated
  <2>7. CsLike(S1, S2)
    <3>1. PICK y : y = [S1[k][n] EXCEPT !.resc = <<e>>]
      OBVIOUS
    <3>2. n \in Streams => Rec(S1[k][n], CsFields)
      BY <2>6 DEF CsLike, AreStreams
    <3>3. n \in Streams => Rec(y, CsFields) /\ y.req = S1[k][n].req /\ y.resc = <<e>>
      BY <3>1, <3>2, Zenon DEF Rec, CsFields
    <3>4. n \in Streams => StreamLike(S1[k][n], y)
      BY <2>2, <3>3, Zenon DEF StreamLike, Plain
    <3>5. S2 = [S1 EXCEPT ![k][n] = y]
      BY <2>5, <3>1
    <3>6. AreStreams(S1)
      BY <2>6 DEF CsLike
    <3> QED BY <3>4, <3>5, <3>6, StreamUpdated
  <2> QED BY <2>6, <2>7, LikeBoth
<1> QED BY <1>3, <1>4

(* A frame's handler other than GOAWAY's.                                  *)
Mild(r) ==
    /\ CsLike(cs, r.cs) /\ SvLike(sv, r.sv)
    /\ r.err \in {Blank, "protocol", "flow control", "closed pipe"}
LEMMA HandledMild ==
    ASSUME NEW C, NEW S, NEW V, NEW e \in {Blank, "protocol", "flow control", "closed pipe"},
           CsLike(cs, S), SvLike(sv, V)
    PROVE  Mild(Handled(C, S, V, e))
<1>1. PICK r : r = Handled(C, S, V, e)
  OBVIOUS
<1>2. r.cc = C /\ r.cs = S /\ r.sv = V /\ r.err = e
  BY <1>1 DEF Handled
<1>3. Mild(r)
  BY <1>2, Zenon DEF Mild
<1> QED BY <1>1, <1>3

Shapes == AreStreams(cs) /\ AreServers(sv)
LEMMA ShapesLike == Shapes => CsLike(cs, cs) /\ SvLike(sv, sv)
  BY LikeItself DEF Shapes

LEMMA ForgetsMaybe ==
    ASSUME Shapes, NEW k \in Conns2, NEW n, NEW b, NEW end,
           b = IF end THEN Forget(cc, cs, k, n) ELSE [cc |-> cc, cs |-> cs]
    PROVE  CsLike(cs, b.cs)
<1>1. CASE end
  BY <1>1, ForgetLike DEF Shapes
<1>2. CASE ~end
  BY <1>2, ShapesLike
<1> QED BY <1>1, <1>2

LEMMA HeadersMild ==
    ASSUME Shapes, NEW k \in Conns2, NEW f
    PROVE  Mild(processHeaders(k, f))
<1>1. PICK b : b = IF f.end THEN Forget(cc, cs, k, f.n) ELSE [cc |-> cc, cs |-> cs]
  OBVIOUS
<1>2. PICK B, D : B = b.cs /\ D = b.cc
  OBVIOUS
<1>3. CsLike(cs, B) /\ CsLike(cs, cs) /\ SvLike(sv, sv)
  BY <1>1, <1>2, ForgetsMaybe, ShapesLike, Zenon
<1>4. PICK S : S = [B EXCEPT ![k][f.n].past = TRUE]
  OBVIOUS
<1>5. CsLike(cs, S)
  <2>1. PICK n, y : n = f.n /\ y = [B[k][n] EXCEPT !.past = TRUE]
    OBVIOUS
  <2>2. n \in Streams => Rec(B[k][n], CsFields)
    BY <1>3 DEF CsLike, AreStreams
  <2>3. n \in Streams => StreamLike(B[k][n], y)
    BY <2>1, <2>2, Zenon DEF Rec, CsFields, StreamLike
  <2>4. S = [B EXCEPT ![k][n] = y]
    BY <1>4, <2>1
  <2>5. CsLike(B, S)
    BY <1>3, <2>3, <2>4, StreamUpdated DEF CsLike
  <2> QED BY <1>3, <2>5, LikeBoth
<1>6. PICK E, H : E = endStreamError(S, k, f.n, "EOF") /\ H = handleResponse(S, k, f)
  OBVIOUS
<1>7. CsLike(cs, E)
  <2>1. "EOF" \in Results
    BY DEF Results
  <2>2. CsLike(S, E)
    BY <1>5, <1>6, <2>1, StreamErrorLike DEF CsLike
  <2> QED BY <1>5, <2>2, LikeBoth
<1>8. CsLike(cs, H)
  <2>1. CsLike(S, H)
    BY <1>5, <1>6, HandleResponseLike DEF CsLike
  <2> QED BY <1>5, <2>1, LikeBoth
<1>9. PICK V : V = IF f.v = "bad" THEN ServerResets(sv, k, f.n) ELSE sv
  OBVIOUS
<1>10. SvLike(sv, V)
  BY <1>3, <1>9, ResetsLike DEF Shapes
<1>11. /\ Mild(Handled(cc, cs, sv, Blank)) /\ Mild(Handled(D, E, sv, Blank)) /\ Mild(Handled(D, S, sv, "protocol"))
       /\ Mild(Handled(D, H, V, Blank))
  BY <1>3, <1>5, <1>7, <1>8, <1>10, HandledMild
<1>12. processHeaders(k, f) \in {Handled(cc, cs, sv, Blank), Handled(D, E, sv, Blank), Handled(D, S, sv, "protocol"),
                                 Handled(D, H, V, Blank)}
  BY <1>1, <1>2, <1>4, <1>6, <1>9, Zenon DEF processHeaders
<1> QED BY <1>11, <1>12

LEMMA DataLike ==
    ASSUME NEW S, AreStreams(S), NEW k \in Conns2, NEW n, NEW u, NEW v, NEW S2,
           S2 = [S EXCEPT ![k][n].inflow = u, ![k][n].buf = v]
    PROVE  CsLike(S, S2)
<1>1. PICK y, z : y = [S[k][n] EXCEPT !.inflow = u] /\ z = [y EXCEPT !.buf = v]
  OBVIOUS
<1>2. n \in Streams => Rec(S[k][n], CsFields)
  BY DEF AreStreams
<1>3. n \in Streams => Rec(y, CsFields) /\ y.req = S[k][n].req /\ y.resc = S[k][n].resc
  BY <1>1, <1>2, Zenon DEF Rec, CsFields
<1>4. n \in Streams => StreamLike(S[k][n], z)
  BY <1>1, <1>3, Zenon DEF Rec, CsFields, StreamLike
<1>5. S2 = [S EXCEPT ![k][n] = z]
  BY <1>1
<1> QED BY <1>4, <1>5, StreamUpdated

LEMMA DataMild ==
    ASSUME Shapes, NEW k \in Conns2, NEW f
    PROVE  Mild(processData(k, f))
<1>1. PICK n, b : n = f.n /\ b = IF f.end THEN Forget(cc, cs, k, n) ELSE [cc |-> cc, cs |-> cs]
  OBVIOUS
<1>2. PICK B, D : B = b.cs /\ D = b.cc
  OBVIOUS
<1>3. CsLike(cs, B) /\ CsLike(cs, cs) /\ SvLike(sv, sv)
  BY <1>1, <1>2, ForgetsMaybe, ShapesLike, Zenon
<1>4. AreStreams(B) /\ AreServers(sv)
  BY <1>3 DEF CsLike, Shapes
<1>5. PICK C : C = [D EXCEPT ![k].inflow = @ - f.len]
  OBVIOUS
<1>6. PICK S : S = [B EXCEPT ![k][n].inflow = @ - f.len, ![k][n].buf = @ + (IF cs[k][n].didReset THEN 0 ELSE f.len)]
  OBVIOUS
<1>7. PICK W : W = ServerGains(sv, k, 0, f.pad)
  OBVIOUS
<1>8. PICK V : V = ServerGains(W, k, n, f.pad)
  OBVIOUS
<1>10. CsLike(cs, S)
  <2>1. S = [B EXCEPT ![k][n].inflow = B[k][n].inflow - f.len,
                      ![k][n].buf = B[k][n].buf + (IF cs[k][n].didReset THEN 0 ELSE f.len)]
    BY <1>6, <1>4 DEF AreStreams, Rec, CsFields
  <2>2. PICK u, v : u = B[k][n].inflow - f.len /\ v = B[k][n].buf + (IF cs[k][n].didReset THEN 0 ELSE f.len)
    OBVIOUS
  <2>3. S = [B EXCEPT ![k][n].inflow = u, ![k][n].buf = v]
    BY <2>1, <2>2, Zenon
  <2>4. CsLike(B, S)
    BY <1>4, <2>3, DataLike
  <2> QED BY <1>3, <2>4, LikeBoth
<1>11. SvLike(sv, V)
  <2>1. SvLike(sv, W)
    BY <1>4, <1>7, GainsLike
  <2>2. AreServers(W)
    BY <2>1 DEF SvLike
  <2>3. SvLike(W, V)
    BY <1>8, <2>2, GainsLike
  <2> QED BY <2>1, <2>3, LikeBoth
<1>12. PICK E, P : E = endStreamError(S, k, n, "EOF") /\ P = endStreamError(S, k, n, "closed pipe")
  OBVIOUS
<1>13. CsLike(cs, E) /\ CsLike(cs, P)
  <2>1. "EOF" \in Results /\ "closed pipe" \in Results
    BY DEF Results
  <2>2. AreStreams(S)
    BY <1>10 DEF CsLike
  <2>3. CsLike(S, E) /\ CsLike(S, P)
    BY <1>12, <2>1, <2>2, StreamErrorLike
  <2> QED BY <1>10, <2>3, LikeBoth
<1>14. PICK G, U : G = [cc EXCEPT ![k].inflow = @ + (f.len + f.pad)] /\ U = ServerGains(sv, k, 0, f.len + f.pad)
  OBVIOUS
<1>15. SvLike(sv, U)
  BY <1>4, <1>14, GainsLike
<1>16. /\ Mild(Handled(cc, cs, sv, "protocol")) /\ Mild(Handled(G, cs, U, Blank)) /\ Mild(Handled(D, B, sv, "protocol"))
       /\ Mild(Handled(D, B, sv, "flow control")) /\ Mild(Handled(C, P, V, "closed pipe"))
       /\ Mild(Handled(C, E, V, Blank)) /\ Mild(Handled(C, S, V, Blank))
  BY <1>3, <1>10, <1>11, <1>13, <1>15, HandledMild
<1>17. processData(k, f) \in {Handled(cc, cs, sv, "protocol"), Handled(G, cs, U, Blank), Handled(D, B, sv, "protocol"),
          Handled(D, B, sv, "flow control"), Handled(C, P, V, "closed pipe"), Handled(C, E, V, Blank),
          Handled(C, S, V, Blank)}
  BY <1>1, <1>2, <1>5, <1>6, <1>7, <1>8, <1>12, <1>14, Zenon DEF processData
<1> QED BY <1>16, <1>17

LEMMA ResetStreamMild ==
    ASSUME Shapes, NEW k \in Conns2, NEW f
    PROVE  Mild(processResetStream(k, f))
<1>1. PICK n, b : n = f.n /\ b = Forget(cc, cs, k, n)
  OBVIOUS
<1>2. PICK B, D : B = b.cs /\ D = b.cc
  OBVIOUS
<1>3. CsLike(cs, B) /\ CsLike(cs, cs) /\ SvLike(sv, sv)
  <2>1. CsLike(cs, B)
    BY <1>1, <1>2, ForgetLike DEF Shapes
  <2> QED BY <2>1, ShapesLike
<1>4. PICK S : S = [B EXCEPT ![k][n].peerReset = TRUE]
  OBVIOUS
<1>5. PICK E : E = EndPipe(S, k, n, "reset")
  OBVIOUS
<1>6. CsLike(cs, S)
  <2>1. PICK y : y = [B[k][n] EXCEPT !.peerReset = TRUE]
    OBVIOUS
  <2>2. AreStreams(B)
    BY <1>3 DEF CsLike
  <2>3. n \in Streams => Rec(B[k][n], CsFields)
    BY <2>2 DEF AreStreams
  <2>4. n \in Streams => StreamLike(B[k][n], y)
    BY <2>1, <2>3, Zenon DEF Rec, CsFields, StreamLike
  <2>5. S = [B EXCEPT ![k][n] = y]
    BY <1>4, <2>1
  <2>6. CsLike(B, S)
    BY <2>2, <2>4, <2>5, StreamUpdated
  <2> QED BY <1>3, <2>6, LikeBoth
<1>7. CsLike(cs, E)
  <2>1. AreStreams(S)
    BY <1>6 DEF CsLike
  <2>2. CsLike(S, E)
    BY <1>5, <2>1, EndPipeLike
  <2> QED BY <1>6, <2>2, LikeBoth
<1>8. Mild(Handled(cc, cs, sv, Blank)) /\ Mild(Handled(D, E, sv, Blank))
  BY <1>3, <1>7, HandledMild
<1>9. processResetStream(k, f) \in {Handled(cc, cs, sv, Blank), Handled(D, E, sv, Blank)}
  BY <1>1, <1>2, <1>4, <1>5, Zenon DEF processResetStream
<1> QED BY <1>8, <1>9

LEMMA GarbledMild ==
    ASSUME Shapes, NEW k \in Conns2, NEW f
    PROVE  Mild(streamError(k, f))
<1>1. PICK n, b : n = f.n /\ b = Forget(cc, cs, k, n)
  OBVIOUS
<1>2. PICK B, D : B = b.cs /\ D = b.cc
  OBVIOUS
<1>3. CsLike(cs, B) /\ CsLike(cs, cs) /\ SvLike(sv, sv)
  <2>1. CsLike(cs, B)
    BY <1>1, <1>2, ForgetLike DEF Shapes
  <2> QED BY <2>1, ShapesLike
<1>4. PICK E, V : E = endStreamError(B, k, n, "stream error") /\ V = ServerResets(sv, k, n)
  OBVIOUS
<1>5. CsLike(cs, E)
  <2>1. AreStreams(B) /\ "stream error" \in Results
    BY <1>3 DEF CsLike, Results
  <2>2. CsLike(B, E)
    BY <1>4, <2>1, StreamErrorLike
  <2> QED BY <1>3, <2>2, LikeBoth
<1>6. SvLike(sv, V)
  BY <1>4, ResetsLike DEF Shapes
<1>7. Mild(Handled(cc, cs, sv, Blank)) /\ Mild(Handled(D, E, V, Blank))
  BY <1>3, <1>5, <1>6, HandledMild
<1>8. streamError(k, f) \in {Handled(cc, cs, sv, Blank), Handled(D, E, V, Blank)}
  BY <1>1, <1>2, <1>4, Zenon DEF streamError
<1> QED BY <1>7, <1>8

LEMMA ConnStreamsUpdated ==
    ASSUME NEW S, AreStreams(S), NEW k \in Conns2, NEW F, F = [n \in Streams |-> F[n]],
           \A n \in Streams : StreamLike(S[k][n], F[n]), NEW S2, S2 = [S EXCEPT ![k] = F]
    PROVE  CsLike(S, S2)
  BY DEF AreStreams, CsLike, StreamLike

LEMMA SettingsMild ==
    ASSUME Shapes, NEW k \in Conns2, NEW f
    PROVE  Mild(processSettings(k, f))
<1>1. CsLike(cs, cs) /\ SvLike(sv, sv)
  BY ShapesLike
<1>2. AreStreams(cs)
  BY DEF Shapes
<1>3. PICK A : A = [cc EXCEPT ![k].wantAck = FALSE]
  OBVIOUS
<1>5. PICK C : C = [cc EXCEPT ![k].max = play.max, ![k].init = f.len]
  OBVIOUS
<1>7. PICK F : F = [n \in Streams |-> IF n \in cc[k].streams
                         THEN [cs[k][n] EXCEPT !.flow = @ + (f.len - cc[k].init)] ELSE cs[k][n]]
  OBVIOUS
<1>8. PICK S : S = [cs EXCEPT ![k] = F]
  OBVIOUS
<1>9. CsLike(cs, S)
  <2>1. ASSUME NEW n \in Streams PROVE StreamLike(cs[k][n], F[n])
    <3>1. Rec(cs[k][n], CsFields)
      BY <1>2 DEF AreStreams
    <3>2. PICK y : y = [cs[k][n] EXCEPT !.flow = @ + (f.len - cc[k].init)]
      OBVIOUS
    <3>3. StreamLike(cs[k][n], y)
      BY <3>1, <3>2, Zenon DEF Rec, CsFields, StreamLike
    <3>4. F[n] = y \/ F[n] = cs[k][n]
      BY <1>7, <3>2
    <3>5. StreamLike(cs[k][n], cs[k][n])
      BY <3>1 DEF StreamLike
    <3> QED BY <3>3, <3>4, <3>5
  <2>2. F = [n \in Streams |-> F[n]]
    BY <1>7
  <2> QED BY <1>2, <1>8, <2>1, <2>2, ConnStreamsUpdated
<1>10. /\ Mild(Handled(A, cs, sv, Blank)) /\ Mild(Handled(A, cs, sv, "protocol")) /\ Mild(Handled(C, S, sv, Blank))
  BY <1>1, <1>9, HandledMild
<1>11. processSettings(k, f) \in {Handled(A, cs, sv, Blank), Handled(A, cs, sv, "protocol"), Handled(C, S, sv, Blank)}
  <2>1. CASE f.t = "ack"
    <3>1. processSettings(k, f) = Handled(A, cs, sv, IF cc[k].wantAck THEN Blank ELSE "protocol")
      BY <1>3, <2>1, Zenon DEF processSettings
    <3> QED BY <3>1
  <2>2. CASE f.t # "ack"
    <3>1. processSettings(k, f) = Handled(C, S, sv, Blank)
      BY <1>5, <1>7, <1>8, <2>2, Zenon DEF processSettings
    <3> QED BY <3>1
  <2> QED BY <2>1, <2>2
<1> QED BY <1>10, <1>11

LEMMA WindowMild ==
    ASSUME Shapes, NEW k \in Conns2, NEW f
    PROVE  Mild(processWindowUpdate(k, f))
<1>1. CsLike(cs, cs) /\ SvLike(sv, sv)
  BY ShapesLike
<1>2. AreStreams(cs)
  BY DEF Shapes
<1>3. PICK C, S : C = [cc EXCEPT ![k].flow = @ + f.len] /\ S = [cs EXCEPT ![k][f.n].flow = @ + f.len]
  OBVIOUS
<1>5. CsLike(cs, S)
  <2>1. PICK n, y : n = f.n /\ y = [cs[k][n] EXCEPT !.flow = @ + f.len]
    OBVIOUS
  <2>2. n \in Streams => Rec(cs[k][n], CsFields)
    BY <1>2 DEF AreStreams
  <2>3. n \in Streams => StreamLike(cs[k][n], y)
    BY <2>1, <2>2, Zenon DEF Rec, CsFields, StreamLike
  <2>4. S = [cs EXCEPT ![k][n] = y]
    BY <1>3, <2>1
  <2> QED BY <1>2, <2>3, <2>4, StreamUpdated
<1>6. /\ Mild(Handled(C, cs, sv, Blank)) /\ Mild(Handled(cc, cs, sv, "flow control"))
      /\ Mild(Handled(cc, cs, sv, Blank)) /\ Mild(Handled(cc, S, sv, Blank))
  BY <1>1, <1>5, HandledMild
<1>7. processWindowUpdate(k, f) \in {Handled(C, cs, sv, Blank), Handled(cc, cs, sv, "flow control"),
        Handled(cc, cs, sv, Blank), Handled(cc, S, sv, Blank)}
  BY <1>3, Zenon DEF processWindowUpdate
<1> QED BY <1>6, <1>7

FrameTypes == {"headers", "data", "goaway", "rst", "garbled", "settings", "ack", "window", "ping"}
LEMMA HandleMild ==
    ASSUME Shapes, NEW k \in Conns2, NEW f, f.t \in FrameTypes \ {"goaway"}
    PROVE  Mild(Handle(k, f))
<1>1. CASE f.t = "headers"
  <2>1. Handle(k, f) = processHeaders(k, f)
    BY <1>1 DEF Handle
  <2> QED BY <2>1, HeadersMild
<1>2. CASE f.t = "data"
  <2>1. Handle(k, f) = processData(k, f)
    BY <1>2 DEF Handle
  <2> QED BY <2>1, DataMild
<1>3. CASE f.t = "rst"
  <2>1. Handle(k, f) = processResetStream(k, f)
    BY <1>3 DEF Handle
  <2> QED BY <2>1, ResetStreamMild
<1>4. CASE f.t = "garbled"
  <2>1. Handle(k, f) = streamError(k, f)
    BY <1>4 DEF Handle
  <2> QED BY <2>1, GarbledMild
<1>5. CASE f.t \in {"settings", "ack"}
  <2>1. Handle(k, f) = processSettings(k, f)
    BY <1>5 DEF Handle
  <2> QED BY <2>1, SettingsMild
<1>6. CASE f.t = "window"
  <2>1. Handle(k, f) = processWindowUpdate(k, f)
    BY <1>6 DEF Handle
  <2> QED BY <2>1, WindowMild
<1>7. CASE f.t = "ping"
  <2>1. Handle(k, f) = Handled(cc, cs, sv, Blank)
    BY <1>7 DEF Handle
  <2> QED BY <2>1, ShapesLike, HandledMild
<1> QED BY <1>1, <1>2, <1>3, <1>4, <1>5, <1>6, <1>7 DEF FrameTypes

(* GOAWAY tells the streams above its last one, and leaves the rest alone. *)
LEMMA GoAwayFacts ==
    ASSUME Shapes, NEW k \in Conns2, NEW f, f.t = "goaway", NEW r, r = Handle(k, f)
    PROVE  /\ AreStreams(r.cs) /\ r.sv = sv /\ r.err = Blank
           /\ \A j \in Conns2, n \in Streams :
                 /\ r.cs[j][n].req = cs[j][n].req
                 /\ r.cs[j][n].resc # cs[j][n].resc =>
                       j = k /\ n > f.n /\ r.cs[j][n].resc = <<"goaway">>
<1>1. PICK C, F : /\ C = MarkDead(cc, k)
                  /\ F = [n \in Streams |-> IF n \in cc[k].streams /\ n > f.n
                                            THEN Offer(cs, k, n, "goaway")[k][n] ELSE cs[k][n]]
  OBVIOUS
<1>2. PICK D, S : D = [C EXCEPT ![k].goAway = f.n] /\ S = [cs EXCEPT ![k] = F]
  OBVIOUS
<1>3. r = Handled(D, S, sv, Blank)
  <2>1. r = setGoAway(k, f)
    BY DEF Handle
  <2>2. S = [cs EXCEPT ![k] = [n \in Streams |-> IF n \in cc[k].streams /\ n > f.n
                                                 THEN Offer(cs, k, n, "goaway")[k][n] ELSE @[n]]]
    BY <1>1, <1>2, Zenon
  <2> QED BY <1>1, <1>2, <2>1, <2>2, Zenon DEF setGoAway
<1>4. r.cc = D /\ r.cs = S /\ r.sv = sv /\ r.err = Blank
  BY <1>3 DEF Handled
<1>6. ASSUME NEW n \in Streams
      PROVE  /\ Rec(F[n], CsFields) /\ F[n].req = cs[k][n].req
             /\ F[n].resc # cs[k][n].resc => n > f.n /\ F[n].resc = <<"goaway">>
  <2>1. Rec(cs[k][n], CsFields) /\ cs[k] = [m \in Streams |-> cs[k][m]] /\ cs = [j \in Conns2 |-> cs[j]]
    BY DEF Shapes, AreStreams
  <2>2. PICK y : y = [cs[k][n] EXCEPT !.resc = IF @ = <<>> THEN <<"goaway">> ELSE @]
    OBVIOUS
  <2>3. y.resc = <<"goaway">> \/ y.resc = cs[k][n].resc
    BY <2>1, <2>2 DEF Rec, CsFields
  <2>4. Rec(y, CsFields) /\ y.req = cs[k][n].req
    BY <2>1, <2>2, Zenon DEF Rec, CsFields
  <2>5. Offer(cs, k, n, "goaway")[k][n] = y
    <3>1. PICK O : O = Offer(cs, k, n, "goaway")
      OBVIOUS
    <3>2. O = [cs EXCEPT ![k][n] = y]
      BY <2>2, <3>1 DEF Offer
    <3>3. O[k][n] = y
      BY <2>1, <3>2
    <3> QED BY <3>1, <3>3
  <2>6. CASE n \in cc[k].streams /\ n > f.n
    <3>1. F[n] = y
      BY <1>1, <2>5, <2>6, Zenon
    <3> QED BY <2>3, <2>4, <2>6, <3>1
  <2>7. CASE ~(n \in cc[k].streams /\ n > f.n)
    <3>1. F[n] = cs[k][n]
      BY <1>1, <2>7, Zenon
    <3> QED BY <2>1, <3>1
  <2> QED BY <2>6, <2>7
<1>7. F = [n \in Streams |-> F[n]]
  BY <1>1
<1>8. /\ AreStreams(S)
      /\ \A j \in Conns2, n \in Streams :
            /\ S[j][n].req = cs[j][n].req
            /\ S[j][n].resc # cs[j][n].resc => j = k /\ n > f.n /\ S[j][n].resc = <<"goaway">>
  BY <1>2, <1>6, <1>7 DEF Shapes, AreStreams
<1> QED BY <1>4, <1>8

(* What is on the wire: frames, and any GOAWAY among them names the last   *)
(* stream of a server that has gone away.                                  *)
IsFrame(f, last) == f.t \in FrameTypes /\ (f.t = "goaway" => last = f.n /\ last >= 0)
IsWire(w, last) == (\E T : w \in Seq(T)) /\ \A i \in 1..Len(w) : IsFrame(w[i], last)

LEMMA WireEmpty == ASSUME NEW l PROVE IsWire(<<>>, l)
<1>1. <<>> \in Seq({}) /\ Len(<<>>) = 0
  OBVIOUS
<1> QED BY <1>1 DEF IsWire

LEMMA WireOf == ASSUME NEW f, NEW l, IsFrame(f, l) PROVE IsWire(<<f>>, l)
<1>1. <<f>> \in Seq({f}) /\ Len(<<f>>) = 1 /\ <<f>>[1] = f
  OBVIOUS
<1>2. \A i \in 1..Len(<<f>>) : i = 1
  BY <1>1
<1> QED BY <1>1, <1>2 DEF IsWire

LEMMA WireTail == ASSUME NEW w, NEW l, IsWire(w, l), w # <<>> PROVE IsWire(Tail(w), l) /\ IsFrame(Head(w), l)
<1>1. PICK T : w \in Seq(T)
  BY DEF IsWire
<1>2. /\ Tail(w) \in Seq(T) /\ Len(Tail(w)) = Len(w) - 1 /\ \A i \in 1..Len(Tail(w)) : Tail(w)[i] = w[i + 1]
      /\ Head(w) = w[1] /\ Len(w) \in Nat \ {0}
  BY <1>1
<1>3. \A i \in 1..Len(w) : IsFrame(w[i], l)
  BY DEF IsWire
<1>4. 1 \in 1..Len(w) /\ \A i \in 1..Len(Tail(w)) : i + 1 \in 1..Len(w)
  BY <1>2
<1>5. \A i \in 1..Len(Tail(w)) : IsFrame(Tail(w)[i], l)
  BY <1>2, <1>3, <1>4
<1> QED BY <1>2, <1>3, <1>4, <1>5 DEF IsWire

LEMMA WireJoin == ASSUME NEW v, NEW w, NEW l, IsWire(v, l), IsWire(w, l) PROVE IsWire(v \o w, l)
<1>1. PICK T : v \in Seq(T)
  BY DEF IsWire
<1>2. PICK U : w \in Seq(U)
  BY DEF IsWire
<1>3. PICK X : X = T \cup U
  OBVIOUS
<1>4. v \in Seq(X) /\ w \in Seq(X)
  BY <1>1, <1>2, <1>3
<1>5. PICK x : x = v \o w
  OBVIOUS
<1>6. /\ x \in Seq(X) /\ Len(x) = Len(v) + Len(w) /\ Len(v) \in Nat /\ Len(w) \in Nat
      /\ \A i \in 1..Len(x) : x[i] = IF i <= Len(v) THEN v[i] ELSE w[i - Len(v)]
  BY <1>4, <1>5
<1>7. ASSUME NEW i \in 1..Len(x) PROVE IsFrame(x[i], l)
  <2>1. CASE i <= Len(v)
    <3>1. i \in 1..Len(v) /\ x[i] = v[i]
      BY <1>6, <2>1
    <3> QED BY <3>1 DEF IsWire
  <2>2. CASE ~(i <= Len(v))
    <3>1. i - Len(v) \in 1..Len(w) /\ x[i] = w[i - Len(v)]
      BY <1>6, <2>2
    <3> QED BY <3>1 DEF IsWire
  <2> QED BY <2>1, <2>2
<1> QED BY <1>5, <1>6, <1>7 DEF IsWire

LEMMA WireCalm == ASSUME NEW w, NEW l \in Int, l < 0, IsWire(w, l), NEW m PROVE IsWire(w, m)
<1>1. \A f : IsFrame(f, l) => IsFrame(f, m)
  BY DEF IsFrame
<1> QED BY <1>1 DEF IsWire

-----------------------------------------------------------------------------
Early == {"get", "dial", "start"}
Late == {"wait", "body", "done"}
RtOK(r) ==
    /\ Rec(r, RtFields) /\ r.pc \in Early \cup Late /\ r.conn \in Conns2 \cup {Nothing}
    /\ r.conn = Nothing => r.pc = "get"
    /\ r.pc \in Early => r.id = Nothing
    /\ r.pc \in {"wait", "body"} => r.id \in Streams

(* A stream its server will still serve.                                   *)
InReach(k, n) == sv[k].stream[n].st = "open" /\ (sv[k].last < 0 \/ n <= sv[k].last)
(* The RoundTrip of q is over once it is bound to stream n of k, or waits  *)
(* for it.                                                                 *)
Bound(q, k, n) == rt[q].conn = k /\ rt[q].id = n /\ rt[q].pc \in Late

Served == \A k \in Conns2, n \in Streams : InReach(k, n) => cs[k][n].req \in Requests /\ Bound(cs[k][n].req, k, n)
Acted ==
    \A a \in acted : \E q \in Requests : \E k \in Conns2 : \E n \in Streams :
        a = <<q, k, n>> /\ Bound(q, k, n) /\ (sv[k].last >= 0 => n <= sv[k].last)
Refusals ==
    \A k \in Conns2, n \in Streams : cs[k][n].resc = <<"goaway">> =>
        ~InReach(k, n) /\ \A q \in Requests : <<q, k, n>> \notin acted
Told(r) == r = <<>> \/ \E x \in Results \cup {"goaway"} : r = <<x>>

RtsOK(R) == R = [q \in Requests |-> R[q]] /\ \A q \in Requests : RtOK(R[q])
WiresOK(W, V) == W = [k \in Conns2 |-> W[k]] /\ \A k \in Conns2 : V[k].last \in Int /\ IsWire(W[k], V[k].last)
AllTold(S) == \A k \in Conns2, n \in Streams : Told(S[k][n].resc)
H2Once == /\ Shapes /\ RtsOK(rt) /\ WiresOK(wire, sv) /\ AllTold(cs)
          /\ Served /\ Acted /\ Refusals

(* What a step does that neither sends a request nor lets a server act or  *)
(* go away: a RoundTrip begins again only if GOAWAY said so.               *)
RtMoves(a, b) ==
    \/ a.pc \in Early
    \/ b.pc \in Late /\ b.conn = a.conn /\ b.id = a.id
    \/ a.pc = "wait" /\ cs[a.conn][a.id].resc = <<"goaway">>
SvMoves(V, V2) == AreServers(V2) /\ \A k \in Conns2 : ServerLike(V[k], V2[k]) \/ V2[k] = SvInit
Quiet2 ==
    /\ acted' = acted /\ CsLike(cs, cs') /\ SvMoves(sv, sv') /\ WiresOK(wire', sv')
    /\ RtsOK(rt') /\ \A q \in Requests : RtMoves(rt[q], rt'[q])

LEMMA SvInitFacts ==
    /\ SvInit.last = -1 /\ \A n \in Streams : SvInit.stream[n].st = "none"
    /\ Rec(SvInit, SvFields) /\ SvInit.stream = [n \in Streams |-> SvInit.stream[n]]
    /\ \A n \in Streams : Rec(SvInit.stream[n], StreamFields)
  BY DEF SvInit, Rec, SvFields, StreamFields

LEMMA ReachKept ==
    ASSUME H2Once, SvMoves(sv, sv'), NEW k \in Conns2, NEW n \in Streams, InReach(k, n)'
    PROVE  InReach(k, n)
<1>1. CASE sv'[k] = SvInit
  <2>1. sv'[k].stream[n].st = "open"
    BY DEF InReach
  <2>2. SvInit.stream[n].st = "none"
    BY SvInitFacts
  <2> QED BY <1>1, <2>1, <2>2
<1>2. CASE ServerLike(sv[k], sv'[k])
  <2>1. sv'[k].last = sv[k].last /\ (sv'[k].stream[n].st = "open" => sv[k].stream[n].st = "open")
    BY <1>2 DEF ServerLike, ServedLike
  <2> QED BY <2>1 DEF InReach
<1> QED BY <1>1, <1>2 DEF SvMoves

(* A request bound to a stream stays bound to it, unless it was told that  *)
(* the server will not serve it.                                           *)
LEMMA BoundKept ==
    ASSUME H2Once, \A q \in Requests : RtMoves(rt[q], rt'[q]), NEW q \in Requests, NEW k \in Conns2, NEW n \in Streams,
           Bound(q, k, n), cs[k][n].resc # <<"goaway">>
    PROVE  Bound(q, k, n)'
<1>1. rt[q].conn = k /\ rt[q].id = n /\ rt[q].pc \notin Early
  BY DEF Bound, Early, Late
<1>2. RtMoves(rt[q], rt'[q])
  OBVIOUS
<1> QED BY <1>1, <1>2 DEF Bound, RtMoves

LEMMA QuietOnce ==
    ASSUME H2Once, Quiet2
    PROVE  H2Once'
<1>1. SvMoves(sv, sv') /\ CsLike(cs, cs') /\ acted' = acted /\ \A q \in Requests : RtMoves(rt[q], rt'[q])
  BY DEF Quiet2
<1>2. Served /\ Acted /\ Refusals /\ AllTold(cs)
  BY DEF H2Once
<1>3. Shapes'
  BY <1>1 DEF Shapes, CsLike, SvMoves
<1>4. RtsOK(rt)' /\ WiresOK(wire, sv)'
  BY DEF Quiet2
<1>5. \A k \in Conns2, n \in Streams : StreamLike(cs[k][n], cs'[k][n])
  BY <1>1 DEF CsLike
<1>6. AllTold(cs)'
  <2>1. \A s, t : StreamLike(s, t) /\ Told(s.resc) => Told(t.resc)
    BY DEF StreamLike, Told, Plain
  <2> QED BY <1>2, <1>5, <2>1 DEF AllTold
<1>7. Served'
  <2>1. SUFFICES ASSUME NEW k \in Conns2, NEW n \in Streams, InReach(k, n)'
                 PROVE  (cs[k][n].req \in Requests /\ Bound(cs[k][n].req, k, n))'
    BY DEF Served
  <2>2. InReach(k, n)
    BY <1>1, <2>1, ReachKept
  <2>3. cs[k][n].resc # <<"goaway">> /\ cs[k][n].req \in Requests /\ Bound(cs[k][n].req, k, n)
    BY <1>2, <2>2 DEF Served, Refusals
  <2>4. PICK q \in Requests : q = cs[k][n].req
    BY <2>3
  <2>5. Bound(q, k, n)'
    BY <1>1, <2>3, <2>4, BoundKept
  <2>6. cs'[k][n].req = q
    BY <1>5, <2>4 DEF StreamLike
  <2> QED BY <2>5, <2>6 DEF Bound
<1>8. Acted'
  <2>1. SUFFICES ASSUME NEW a \in acted
                 PROVE  \E q \in Requests : \E k \in Conns2 : \E n \in Streams :
                           a = <<q, k, n>> /\ Bound(q, k, n)' /\ (sv'[k].last >= 0 => n <= sv'[k].last)
    BY <1>1 DEF Acted
  <2>2. PICK q \in Requests : \E k \in Conns2 : \E n \in Streams :
          a = <<q, k, n>> /\ Bound(q, k, n) /\ (sv[k].last >= 0 => n <= sv[k].last)
    BY <1>2 DEF Acted
  <2>3. PICK k \in Conns2 : \E n \in Streams :
          a = <<q, k, n>> /\ Bound(q, k, n) /\ (sv[k].last >= 0 => n <= sv[k].last)
    BY <2>2
  <2>4. PICK n \in Streams : a = <<q, k, n>> /\ Bound(q, k, n) /\ (sv[k].last >= 0 => n <= sv[k].last)
    BY <2>3
  <2>5. cs[k][n].resc # <<"goaway">>
    BY <1>2, <2>4 DEF Refusals
  <2>6. Bound(q, k, n)'
    BY <1>1, <2>4, <2>5, BoundKept
  <2>7. sv'[k].last >= 0 => n <= sv'[k].last
    <3>1. CASE sv'[k] = SvInit
      BY <3>1, SvInitFacts
    <3>2. CASE ServerLike(sv[k], sv'[k])
      BY <2>4, <3>2 DEF ServerLike
    <3> QED BY <1>1, <3>1, <3>2 DEF SvMoves
  <2> QED BY <2>4, <2>6, <2>7
<1>9. Refusals'
  <2>1. SUFFICES ASSUME NEW k \in Conns2, NEW n \in Streams, cs'[k][n].resc = <<"goaway">>
                 PROVE  ~InReach(k, n)' /\ \A q \in Requests : <<q, k, n>> \notin acted
    BY <1>1 DEF Refusals
  <2>2. ~Plain(<<"goaway">>)
    BY DEF Plain, Results
  <2>3. cs[k][n].resc = <<"goaway">>
    BY <1>5, <2>1, <2>2 DEF StreamLike
  <2>4. ~InReach(k, n) /\ \A q \in Requests : <<q, k, n>> \notin acted
    BY <1>2, <2>3 DEF Refusals
  <2> QED BY <1>1, <2>4, ReachKept
<1> QED BY <1>3, <1>4, <1>6, <1>7, <1>8, <1>9 DEF H2Once

LEMMA RtPc ==
    ASSUME NEW r, Rec(r, RtFields), NEW v, NEW y, y = [r EXCEPT !.pc = v]
    PROVE  Rec(y, RtFields) /\ y.pc = v /\ y.conn = r.conn /\ y.id = r.id
  BY Zenon DEF Rec, RtFields
LEMMA RtConn ==
    ASSUME NEW r, Rec(r, RtFields), NEW v, NEW y, y = [r EXCEPT !.conn = v]
    PROVE  Rec(y, RtFields) /\ y.pc = r.pc /\ y.conn = v /\ y.id = r.id
  BY Zenon DEF Rec, RtFields
LEMMA RtId ==
    ASSUME NEW r, Rec(r, RtFields), NEW v, NEW y, y = [r EXCEPT !.id = v]
    PROVE  Rec(y, RtFields) /\ y.pc = r.pc /\ y.conn = r.conn /\ y.id = v
  BY Zenon DEF Rec, RtFields
LEMMA RtElse ==
    ASSUME NEW r, Rec(r, RtFields), NEW v, NEW y,
           \/ y = [r EXCEPT !.err = v] \/ y = [r EXCEPT !.res = v]
           \/ y = [r EXCEPT !.cancel = v] \/ y = [r EXCEPT !.written = v]
    PROVE  Rec(y, RtFields) /\ y.pc = r.pc /\ y.conn = r.conn /\ y.id = r.id
<1>1. CASE y = [r EXCEPT !.err = v]
  BY <1>1, Zenon DEF Rec, RtFields
<1>2. CASE y = [r EXCEPT !.res = v]
  BY <1>2, Zenon DEF Rec, RtFields
<1>3. CASE y = [r EXCEPT !.cancel = v]
  BY <1>3, Zenon DEF Rec, RtFields
<1>4. CASE y = [r EXCEPT !.written = v]
  BY <1>4, Zenon DEF Rec, RtFields
<1> QED BY <1>1, <1>2, <1>3, <1>4

RtStep == RtsOK(rt') /\ \A q \in Requests : RtMoves(rt[q], rt'[q])

LEMMA RtUpdated ==
    ASSUME RtsOK(rt), NEW q \in Requests, NEW y, RtOK(y), RtMoves(rt[q], y), rt' = [rt EXCEPT ![q] = y]
    PROVE  RtStep
<1>1. \A p \in Requests : rt'[p] = IF p = q THEN y ELSE rt[p]
  BY DEF RtsOK
<1>2. \A p \in Requests : RtOK(rt[p]) /\ RtMoves(rt[p], rt[p])
  BY DEF RtsOK, RtOK, RtMoves
<1>3. \A p \in Requests : RtOK(rt'[p]) /\ RtMoves(rt[p], rt'[p])
  BY <1>1, <1>2
<1>4. rt' = [p \in Requests |-> rt'[p]]
  BY DEF RtsOK
<1> QED BY <1>3, <1>4 DEF RtsOK, RtStep

LEMMA RtSame == ASSUME RtsOK(rt), rt' = rt PROVE RtStep
  BY DEF RtsOK, RtOK, RtMoves, RtStep

LEMMA FailedStep ==
    ASSUME RtsOK(rt), NEW q \in Requests, rt[q].pc # "get", NEW e, rt' = Failed(rt, q, e)
    PROVE  RtStep
<1>1. RtOK(rt[q]) /\ Rec(rt[q], RtFields)
  BY DEF RtsOK, RtOK
<1>2. PICK x : x = [rt[q] EXCEPT !.pc = "done"]
  OBVIOUS
<1>3. PICK y : y = [x EXCEPT !.err = e]
  OBVIOUS
<1>4. Rec(x, RtFields) /\ x.pc = "done" /\ x.conn = rt[q].conn /\ x.id = rt[q].id
  BY <1>1, <1>2, RtPc
<1>5. Rec(y, RtFields) /\ y.pc = "done" /\ y.conn = rt[q].conn /\ y.id = rt[q].id
  BY <1>3, <1>4, RtElse
<1>6. RtOK(y) /\ RtMoves(rt[q], y)
  BY <1>1, <1>5 DEF RtOK, RtMoves, Early, Late
<1>7. rt' = [rt EXCEPT ![q] = y]
  BY <1>2, <1>3 DEF Failed, RtsOK
<1> QED BY <1>6, <1>7, RtUpdated

LEMMA RetriedStep ==
    ASSUME RtsOK(rt), NEW q \in Requests, rt' = Retried(rt, q),
           \/ rt[q].pc \in Early
           \/ rt[q].pc = "wait" /\ cs[rt[q].conn][rt[q].id].resc = <<"goaway">>
    PROVE  RtStep
<1>1. PICK y : y = [RtInit EXCEPT !.cancel = rt[q].cancel]
  OBVIOUS
<1>2. Rec(RtInit, RtFields) /\ RtInit.pc = "get" /\ RtInit.conn = Nothing /\ RtInit.id = Nothing
  BY DEF RtInit, Rec, RtFields
<1>3. Rec(y, RtFields) /\ y.pc = "get" /\ y.conn = Nothing /\ y.id = Nothing
  BY <1>1, <1>2, RtElse
<1>4. RtOK(y)
  BY <1>3 DEF RtOK, Early, Late
<1>5. RtMoves(rt[q], y)
  BY DEF RtMoves
<1>6. rt' = [rt EXCEPT ![q] = y]
  BY <1>1 DEF Retried
<1> QED BY <1>4, <1>5, <1>6, RtUpdated

LEMMA LikeMoves ==
    ASSUME SvLike(sv, sv')
    PROVE  SvMoves(sv, sv')
  BY DEF SvLike, SvMoves

LEMMA WiresKept ==
    ASSUME WiresOK(wire, sv), SvLike(sv, sv'), wire' = wire
    PROVE  WiresOK(wire', sv')
<1>1. \A k \in Conns2 : sv'[k].last = sv[k].last
  BY DEF SvLike, ServerLike
<1> QED BY <1>1 DEF WiresOK

(* A step of the client that reads no frame.                               *)
LEMMA CalmOnce ==
    ASSUME H2Once, RtStep, CsLike(cs, cs'), SvLike(sv, sv'), wire' = wire, acted' = acted
    PROVE  H2Once'
<1>1. SvMoves(sv, sv')
  BY LikeMoves
<1>2. WiresOK(wire', sv')
  BY WiresKept DEF H2Once
<1>3. Quiet2
  BY <1>1, <1>2 DEF Quiet2, RtStep
<1> QED BY <1>3, QuietOnce

LEMMA SameLike ==
    ASSUME H2Once
    PROVE  (cs' = cs => CsLike(cs, cs')) /\ (sv' = sv => SvLike(sv, sv'))
           /\ CsLike(cs, cs) /\ SvLike(sv, sv)
  BY ShapesLike DEF H2Once

LEMMA GetClientConnOnce ==
    ASSUME H2Once, NEW q \in Requests, getClientConn(q)
    PROVE  H2Once'
<1>1. RtsOK(rt) /\ RtOK(rt[q]) /\ Rec(rt[q], RtFields) /\ rt[q].pc = "get"
  BY DEF H2Once, RtsOK, RtOK, getClientConn
<1>2. \E k \in Conns2 : \E v \in {"start", "dial"} : rt' = [rt EXCEPT ![q].pc = v, ![q].conn = k]
  BY DEF getClientConn
<1>3. PICK k \in Conns2 : \E v \in {"start", "dial"} : rt' = [rt EXCEPT ![q].pc = v, ![q].conn = k]
  BY <1>2
<1>4. PICK v \in {"start", "dial"} : rt' = [rt EXCEPT ![q].pc = v, ![q].conn = k]
  BY <1>3
<1>5. PICK x : x = [rt[q] EXCEPT !.pc = v]
  OBVIOUS
<1>6. PICK y : y = [x EXCEPT !.conn = k]
  OBVIOUS
<1>7. Rec(x, RtFields) /\ x.pc = v /\ x.conn = rt[q].conn /\ x.id = rt[q].id
  BY <1>1, <1>5, RtPc
<1>8. Rec(y, RtFields) /\ y.pc = v /\ y.conn = k /\ y.id = rt[q].id
  BY <1>6, <1>7, RtConn
<1>9. k # Nothing
  BY PlaysAssumption DEF Nothing
<1>10. RtOK(y) /\ RtMoves(rt[q], y)
  BY <1>1, <1>8, <1>9 DEF RtOK, RtMoves, Early, Late
<1>11. rt' = [rt EXCEPT ![q] = y]
  BY <1>1, <1>4, <1>5, <1>6 DEF RtsOK
<1>12. RtStep
  BY <1>1, <1>10, <1>11, RtUpdated
<1>13. cs' = cs /\ sv' = sv /\ wire' = wire /\ acted' = acted
  BY DEF getClientConn
<1> QED BY <1>12, <1>13, SameLike, CalmOnce

LEMMA DialReturnsOnce ==
    ASSUME H2Once, NEW q \in Requests, DialReturns(q)
    PROVE  H2Once'
<1>1. RtsOK(rt) /\ RtOK(rt[q]) /\ Rec(rt[q], RtFields) /\ rt[q].pc = "dial"
  BY DEF H2Once, RtsOK, RtOK, DialReturns
<1>2. RtStep
  <2>1. CASE rt' = Failed(rt, q, "dial")
    BY <1>1, <2>1, FailedStep
  <2>2. CASE rt' = [rt EXCEPT ![q].pc = "start"]
    <3>1. PICK y : y = [rt[q] EXCEPT !.pc = "start"]
      OBVIOUS
    <3>2. Rec(y, RtFields) /\ y.pc = "start" /\ y.conn = rt[q].conn /\ y.id = rt[q].id
      BY <1>1, <3>1, RtPc
    <3>3. RtOK(y) /\ RtMoves(rt[q], y)
      BY <1>1, <3>2 DEF RtOK, RtMoves, Early, Late
    <3>4. rt' = [rt EXCEPT ![q] = y]
      BY <2>2, <3>1
    <3> QED BY <1>1, <3>3, <3>4, RtUpdated
  <2>3. rt' = IF cc[rt[q].conn].dial = "failed" THEN Failed(rt, q, "dial") ELSE [rt EXCEPT ![q].pc = "start"]
    BY DEF DialReturns
  <2> QED BY <2>1, <2>2, <2>3
<1>3. cs' = cs /\ sv' = sv /\ wire' = wire /\ acted' = acted
  BY DEF DialReturns
<1> QED BY <1>2, <1>3, SameLike, CalmOnce

LEMMA EndsOnce ==
    ASSUME H2Once, NEW q \in Requests, PeerReset(q) \/ BodyWritten(q) \/ CancelFires(q)
    PROVE  H2Once'
<1>1. RtsOK(rt) /\ RtOK(rt[q]) /\ Rec(rt[q], RtFields)
  BY DEF H2Once, RtsOK, RtOK
<1>2. ASSUME NEW y, \/ y = [rt[q] EXCEPT !.written = TRUE]
                    \/ y = [rt[q] EXCEPT !.cancel = TRUE], rt' = [rt EXCEPT ![q] = y]
      PROVE  RtStep
  <2>1. Rec(y, RtFields) /\ y.pc = rt[q].pc /\ y.conn = rt[q].conn /\ y.id = rt[q].id
    BY <1>1, <1>2, RtElse
  <2>2. RtOK(y) /\ RtMoves(rt[q], y)
    BY <1>1, <2>1 DEF RtOK, RtMoves
  <2> QED BY <1>1, <1>2, <2>2, RtUpdated
<1>3. CASE PeerReset(q)
  <2>1. rt[q].pc # "get" /\ rt' = Failed(rt, q, "reset")
    BY <1>3 DEF PeerReset
  <2>2. RtStep
    BY <1>1, <2>1, FailedStep
  <2>3. cs' = cs /\ sv' = sv /\ wire' = wire /\ acted' = acted
    BY <1>3 DEF PeerReset
  <2> QED BY <2>2, <2>3, SameLike, CalmOnce
<1>4. CASE BodyWritten(q)
  <2>1. rt[q].pc # "get" /\ \/ rt' = [rt EXCEPT ![q].written = TRUE]
                            \/ \E e : rt' = Failed(rt, q, e)
    BY <1>4 DEF BodyWritten
  <2>2. RtStep
    <3>1. CASE rt' = [rt EXCEPT ![q].written = TRUE]
      <4>1. PICK y : y = [rt[q] EXCEPT !.written = TRUE]
        OBVIOUS
      <4>2. rt' = [rt EXCEPT ![q] = y]
        BY <3>1, <4>1
      <4> QED BY <1>2, <4>1, <4>2
    <3>2. CASE \E e : rt' = Failed(rt, q, e)
      BY <1>1, <2>1, <3>2, FailedStep
    <3> QED BY <2>1, <3>1, <3>2
  <2>3. cs' = cs /\ sv' = sv /\ wire' = wire /\ acted' = acted
    BY <1>4 DEF BodyWritten
  <2> QED BY <2>2, <2>3, SameLike, CalmOnce
<1>5. CASE CancelFires(q)
  <2>1. PICK y : y = [rt[q] EXCEPT !.cancel = TRUE]
    OBVIOUS
  <2>2. rt' = [rt EXCEPT ![q] = y]
    BY <1>5, <2>1 DEF CancelFires
  <2>3. RtStep
    BY <1>2, <2>1, <2>2
  <2>4. cs' = cs /\ sv' = sv /\ wire' = wire /\ acted' = acted
    BY <1>5 DEF CancelFires
  <2> QED BY <2>3, <2>4, SameLike, CalmOnce
<1> QED BY <1>3, <1>4, <1>5

(* One field of a stream other than its request and its results.           *)
LEMMA FieldLike ==
    ASSUME NEW S, AreStreams(S), NEW k \in Conns2, NEW n, NEW v, NEW S2,
           \/ S2 = [S EXCEPT ![k][n].stop = v] \/ S2 = [S EXCEPT ![k][n].w = v]
           \/ S2 = [S EXCEPT ![k][n].wres = v] \/ S2 = [S EXCEPT ![k][n].flow = v]
           \/ S2 = [S EXCEPT ![k][n].left = v] \/ S2 = [S EXCEPT ![k][n].buf = v]
           \/ S2 = [S EXCEPT ![k][n].inflow = v] \/ S2 = [S EXCEPT ![k][n].brk = v]
           \/ S2 = [S EXCEPT ![k][n].didReset = v] \/ S2 = [S EXCEPT ![k][n].err = v]
    PROVE  CsLike(S, S2)
<1>1. PICK s : s = S[k][n]
  OBVIOUS
<1>2. n \in Streams => Rec(s, CsFields)
  BY <1>1 DEF AreStreams
<1>3. ASSUME NEW y, \/ y = [s EXCEPT !.stop = v] \/ y = [s EXCEPT !.w = v]
                    \/ y = [s EXCEPT !.wres = v] \/ y = [s EXCEPT !.flow = v]
                    \/ y = [s EXCEPT !.left = v] \/ y = [s EXCEPT !.buf = v]
                    \/ y = [s EXCEPT !.inflow = v] \/ y = [s EXCEPT !.brk = v]
                    \/ y = [s EXCEPT !.didReset = v] \/ y = [s EXCEPT !.err = v]
      PROVE  n \in Streams => StreamLike(S[k][n], y)
  <2>1. CASE y = [s EXCEPT !.stop = v]
    BY <1>1, <1>2, <2>1, Zenon DEF Rec, CsFields, StreamLike
  <2>2. CASE y = [s EXCEPT !.w = v]
    BY <1>1, <1>2, <2>2, Zenon DEF Rec, CsFields, StreamLike
  <2>3. CASE y = [s EXCEPT !.wres = v]
    BY <1>1, <1>2, <2>3, Zenon DEF Rec, CsFields, StreamLike
  <2>4. CASE y = [s EXCEPT !.flow = v]
    BY <1>1, <1>2, <2>4, Zenon DEF Rec, CsFields, StreamLike
  <2>5. CASE y = [s EXCEPT !.left = v]
    BY <1>1, <1>2, <2>5, Zenon DEF Rec, CsFields, StreamLike
  <2>6. CASE y = [s EXCEPT !.buf = v]
    BY <1>1, <1>2, <2>6, Zenon DEF Rec, CsFields, StreamLike
  <2>7. CASE y = [s EXCEPT !.inflow = v]
    BY <1>1, <1>2, <2>7, Zenon DEF Rec, CsFields, StreamLike
  <2>8. CASE y = [s EXCEPT !.brk = v]
    BY <1>1, <1>2, <2>8, Zenon DEF Rec, CsFields, StreamLike
  <2>9. CASE y = [s EXCEPT !.didReset = v]
    BY <1>1, <1>2, <2>9, Zenon DEF Rec, CsFields, StreamLike
  <2>10. CASE y = [s EXCEPT !.err = v]
    BY <1>1, <1>2, <2>10, Zenon DEF Rec, CsFields, StreamLike
  <2> QED BY <1>3, <2>1, <2>2, <2>3, <2>4, <2>5, <2>6, <2>7, <2>8, <2>9, <2>10
<1>4. \E y : /\ S2 = [S EXCEPT ![k][n] = y]
             /\ \/ y = [s EXCEPT !.stop = v] \/ y = [s EXCEPT !.w = v]
                \/ y = [s EXCEPT !.wres = v] \/ y = [s EXCEPT !.flow = v]
                \/ y = [s EXCEPT !.left = v] \/ y = [s EXCEPT !.buf = v]
                \/ y = [s EXCEPT !.inflow = v] \/ y = [s EXCEPT !.brk = v]
                \/ y = [s EXCEPT !.didReset = v] \/ y = [s EXCEPT !.err = v]
  <2>1. CASE S2 = [S EXCEPT ![k][n].stop = v]
    BY <1>1, <2>1, Zenon
  <2>2. CASE S2 = [S EXCEPT ![k][n].w = v]
    BY <1>1, <2>2, Zenon
  <2>3. CASE S2 = [S EXCEPT ![k][n].wres = v]
    BY <1>1, <2>3, Zenon
  <2>4. CASE S2 = [S EXCEPT ![k][n].flow = v]
    BY <1>1, <2>4, Zenon
  <2>5. CASE S2 = [S EXCEPT ![k][n].left = v]
    BY <1>1, <2>5, Zenon
  <2>6. CASE S2 = [S EXCEPT ![k][n].buf = v]
    BY <1>1, <2>6, Zenon
  <2>7. CASE S2 = [S EXCEPT ![k][n].inflow = v]
    BY <1>1, <2>7, Zenon
  <2>8. CASE S2 = [S EXCEPT ![k][n].brk = v]
    BY <1>1, <2>8, Zenon
  <2>9. CASE S2 = [S EXCEPT ![k][n].didReset = v]
    BY <1>1, <2>9, Zenon
  <2>10. CASE S2 = [S EXCEPT ![k][n].err = v]
    BY <1>1, <2>10, Zenon
  <2> QED BY <2>1, <2>2, <2>3, <2>4, <2>5, <2>6, <2>7, <2>8, <2>9, <2>10, Zenon
<1>5. PICK y : /\ S2 = [S EXCEPT ![k][n] = y]
               /\ \/ y = [s EXCEPT !.stop = v] \/ y = [s EXCEPT !.w = v]
                  \/ y = [s EXCEPT !.wres = v] \/ y = [s EXCEPT !.flow = v]
                  \/ y = [s EXCEPT !.left = v] \/ y = [s EXCEPT !.buf = v]
                  \/ y = [s EXCEPT !.inflow = v] \/ y = [s EXCEPT !.brk = v]
                  \/ y = [s EXCEPT !.didReset = v] \/ y = [s EXCEPT !.err = v]
  BY <1>4, Zenon
<1>6. n \in Streams => StreamLike(S[k][n], y)
  BY <1>3, <1>5, Zenon
<1> QED BY <1>5, <1>6, StreamUpdated

(* Two of them, one after the other.                                       *)
LEMMA LikeThen ==
    ASSUME NEW S, NEW S1, NEW S2, CsLike(S, S1), AreStreams(S1) => CsLike(S1, S2)
    PROVE  CsLike(S, S2)
<1>1. AreStreams(S1)
  BY DEF CsLike
<1> QED BY <1>1, LikeBoth

LEMMA TakesLike ==
    ASSUME NEW V, AreServers(V), NEW k \in Conns2, NEW n \in Streams, NEW len, NEW V2, V2 = ServerTakes(V, k, n, len)
    PROVE  SvLike(V, V2)
<1>1. PICK v : v = V[k]
  OBVIOUS
<1>2. /\ Rec(v, SvFields) /\ v.stream = [m \in Streams |-> v.stream[m]] /\ V = [j \in Conns2 |-> V[j]]
      /\ \A m \in Streams : Rec(v.stream[m], StreamFields)
  BY <1>1 DEF AreServers
<1>3. PICK x : x = [v EXCEPT !.recv = @ - len]
  OBVIOUS
<1>4. Rec(x, SvFields) /\ x.last = v.last /\ x.stream = v.stream
  BY <1>2, <1>3, Zenon DEF Rec, SvFields
<1>5. PICK V1 : V1 = [V EXCEPT ![k] = x]
  OBVIOUS
<1>6. ServerLike(V[k], x)
  BY <1>1, <1>2, <1>4, Zenon DEF ServerLike, ServedLike
<1>7. SvLike(V, V1)
  BY <1>5, <1>6, ServerUpdated
<1>8. AreServers(V1)
  BY <1>7 DEF SvLike
<1>9. PICK a, b : a = V1[k].stream[n].recv - len /\ b = V1[k].stream[n].got + len
  OBVIOUS
<1>10. PICK V3 : V3 = [V1 EXCEPT ![k].stream[n].recv = a]
  OBVIOUS
<1>11. V2 = [V3 EXCEPT ![k].stream[n].got = b]
  <2>1. V2 = [V EXCEPT ![k].recv = @ - len, ![k].stream[n].recv = @ - len, ![k].stream[n].got = @ + len]
    BY DEF ServerTakes
  <2>2. V1 = [V EXCEPT ![k].recv = @ - len]
    BY <1>1, <1>3, <1>5
  <2>3. V2 = [V1 EXCEPT ![k].stream[n].recv = @ - len, ![k].stream[n].got = @ + len]
    BY <2>1, <2>2
  <2> QED BY <1>9, <1>10, <2>3
<1>12. SvLike(V1, V3)
  <2>1. PICK s : s = [V1[k].stream[n] EXCEPT !.recv = a]
    OBVIOUS
  <2>2. Rec(V1[k].stream[n], StreamFields)
    BY <1>8 DEF AreServers
  <2>3. ServedLike(V1[k].stream[n], s)
    BY <2>1, <2>2, Zenon DEF Rec, StreamFields, ServedLike
  <2>4. PICK w : w = [V1[k] EXCEPT !.stream[n] = s]
    OBVIOUS
  <2>5. ServerLike(V1[k], w)
    BY <1>8, <2>3, <2>4, ServedUpdated
  <2>6. V3 = [V1 EXCEPT ![k] = w]
    BY <1>10, <2>1, <2>4
  <2> QED BY <1>8, <2>5, <2>6, ServerUpdated
<1>13. AreServers(V3)
  BY <1>12 DEF SvLike
<1>14. SvLike(V3, V2)
  <2>1. PICK s : s = [V3[k].stream[n] EXCEPT !.got = b]
    OBVIOUS
  <2>2. Rec(V3[k].stream[n], StreamFields)
    BY <1>13 DEF AreServers
  <2>3. ServedLike(V3[k].stream[n], s)
    BY <2>1, <2>2, Zenon DEF Rec, StreamFields, ServedLike
  <2>4. PICK w : w = [V3[k] EXCEPT !.stream[n] = s]
    OBVIOUS
  <2>5. ServerLike(V3[k], w)
    BY <1>13, <2>3, <2>4, ServedUpdated
  <2>6. V2 = [V3 EXCEPT ![k] = w]
    BY <1>11, <2>1, <2>4
  <2> QED BY <1>13, <2>5, <2>6, ServerUpdated
<1> QED BY <1>7, <1>12, <1>14, LikeBoth

LEMMA ConnIs ==
    ASSUME H2Once, NEW q \in Requests, rt[q].pc # "get"
    PROVE  rt[q].conn \in Conns2
  BY DEF H2Once, RtsOK, RtOK

LEMMA FailsStep ==
    ASSUME RtsOK(rt), NEW q \in Requests, rt[q].pc # "get", NEW e, RoundTripFails(q, e),
           \/ rt[q].pc \in Early
           \/ rt[q].pc = "wait" /\ cs[rt[q].conn][rt[q].id].resc = <<"goaway">>
           \/ e \in Results \cup {"write"}
    PROVE  RtStep
<1>1. rt' = Retried(rt, q) \/ rt' = Failed(rt, q, e)
  BY Zenon DEF RoundTripFails
<1>2. e \in Results \cup {"write"} => rt' = Failed(rt, q, e)
  <2>1. e \in Results \cup {"write"} => e \notin {"unusable", "goaway"} /\ e # "goaway after body"
    BY DEF Results
  <2> QED BY <2>1, Zenon DEF RoundTripFails
<1> QED BY <1>1, <1>2, FailedStep, RetriedStep

LEMMA TakenLike ==
    ASSUME NEW S, AreStreams(S), NEW k \in Conns2, NEW n, NEW v, NEW S2,
           S2 = [S EXCEPT ![k][n].resc = <<>>, ![k][n].stop = v]
    PROVE  CsLike(S, S2)
<1>1. PICK y, z : y = [S[k][n] EXCEPT !.resc = <<>>] /\ z = [y EXCEPT !.stop = v]
  OBVIOUS
<1>2. n \in Streams => Rec(S[k][n], CsFields)
  BY DEF AreStreams
<1>3. n \in Streams => Rec(y, CsFields) /\ y.req = S[k][n].req /\ y.resc = <<>>
  BY <1>1, <1>2, Zenon DEF Rec, CsFields
<1>4. n \in Streams => Rec(z, CsFields) /\ z.req = y.req /\ z.resc = y.resc
  BY <1>1, <1>3, Zenon DEF Rec, CsFields
<1>5. n \in Streams => StreamLike(S[k][n], z)
  BY <1>3, <1>4, Zenon DEF StreamLike, Plain
<1>6. S2 = [S EXCEPT ![k][n] = z]
  BY <1>1
<1> QED BY <1>5, <1>6, StreamUpdated

LEMMA ResultOnce ==
    ASSUME H2Once, NEW q \in Requests, Result(q)
    PROVE  H2Once'
<1>1. PICK k, n : k = rt[q].conn /\ n = rt[q].id
  OBVIOUS
<1>2. PICK re, v : re = Head(cs[k][n].resc) /\ v = IF re \notin {"body", "no body"} THEN "stop" ELSE cs[k][n].stop
  OBVIOUS
<1>3. PICK S : S = [cs EXCEPT ![k][n].resc = <<>>, ![k][n].stop = v]
  OBVIOUS
<1>4. S = [cs EXCEPT ![k][n].resc = <<>>, ![k][n].stop = IF re \notin {"body", "no body"} THEN "stop" ELSE @]
  BY <1>2, <1>3
<1>5. rt[q].pc = "wait" /\ cs[k][n].resc # <<>>
  BY <1>1 DEF Result
<1>6. RtsOK(rt) /\ RtOK(rt[q]) /\ Rec(rt[q], RtFields) /\ Shapes /\ AreStreams(cs)
  BY DEF H2Once, RtsOK, RtOK, Shapes
<1>7. k \in Conns2 /\ n \in Streams
  BY <1>1, <1>5, <1>6, ConnIs DEF RtOK
<1>8. CsLike(cs, S)
  BY <1>3, <1>6, <1>7, TakenLike
<1>9. re \in Results \cup {"goaway"} /\ cs[k][n].resc = <<re>>
  <2>1. Told(cs[k][n].resc)
    BY <1>7 DEF H2Once, AllTold
  <2>2. PICK x \in Results \cup {"goaway"} : cs[k][n].resc = <<x>>
    BY <1>5, <2>1 DEF Told
  <2>3. Head(<<x>>) = x
    OBVIOUS
  <2>4. re = x
    BY <1>2, <2>2, <2>3, Zenon
  <2> QED BY <2>2, <2>4
<1>10. sv' = sv /\ wire' = wire /\ acted' = acted
  BY DEF Result
<1>11. CASE /\ rt' = [rt EXCEPT ![q].pc = IF re \in {"body", "refused"} THEN "body" ELSE "done", ![q].res = re]
            /\ cs' = S
  <2>1. PICK w \in {"body", "done"} : w = IF re \in {"body", "refused"} THEN "body" ELSE "done"
    OBVIOUS
  <2>2. rt' = [rt EXCEPT ![q].pc = w, ![q].res = re]
    BY <1>11, <2>1
  <2>3. PICK x : x = [rt[q] EXCEPT !.pc = w]
    OBVIOUS
  <2>4. PICK y : y = [x EXCEPT !.res = re]
    OBVIOUS
  <2>5. Rec(x, RtFields) /\ x.pc = w /\ x.conn = k /\ x.id = n
    BY <1>1, <1>6, <2>3, RtPc
  <2>6. Rec(y, RtFields) /\ y.pc = w /\ y.conn = k /\ y.id = n
    BY <2>4, <2>5, RtElse
  <2>7. RtOK(y) /\ RtMoves(rt[q], y)
    BY <1>1, <1>5, <1>6, <1>7, <2>1, <2>6 DEF RtOK, RtMoves, Early, Late
  <2>8. rt' = [rt EXCEPT ![q] = y]
    BY <1>6, <2>2, <2>3, <2>4 DEF RtsOK
  <2>9. RtStep
    BY <1>6, <2>7, <2>8, RtUpdated
  <2> QED BY <1>8, <1>10, <1>11, <2>9, SameLike, CalmOnce
<1>12. CASE /\ RoundTripFails(q, IF re = "goaway" /\ cs[k][n].w \notin {"none", "ready"} THEN "goaway after body" ELSE re)
            /\ cs' = Forget(cc, S, k, n).cs
  <2>1. PICK e : e = IF re = "goaway" /\ cs[k][n].w \notin {"none", "ready"} THEN "goaway after body" ELSE re
    OBVIOUS
  <2>2. RoundTripFails(q, e)
    BY <1>12, <2>1, Zenon
  <2>3. e \in Results \/ (rt[q].pc = "wait" /\ cs[rt[q].conn][rt[q].id].resc = <<"goaway">>)
    BY <1>1, <1>5, <1>9, <2>1
  <2>4. RtStep
    BY <1>5, <1>6, <2>2, <2>3, FailsStep
  <2>5. PICK r, T : r = Forget(cc, S, k, n) /\ T = r.cs
    OBVIOUS
  <2>6. AreStreams(S) => CsLike(S, T)
    BY <1>7, <2>5, ForgetLike
  <2>7. CsLike(cs, T)
    BY <1>8, <2>6, LikeThen
  <2>8. cs' = T
    BY <1>12, <2>5
  <2> QED BY <1>10, <2>4, <2>7, <2>8, SameLike, CalmOnce
<1>13. \/ /\ rt' = [rt EXCEPT ![q].pc = IF re \in {"body", "refused"} THEN "body" ELSE "done", ![q].res = re]
          /\ cs' = S
       \/ /\ RoundTripFails(q, IF re = "goaway" /\ cs[k][n].w \notin {"none", "ready"} THEN "goaway after body" ELSE re)
          /\ cs' = Forget(cc, S, k, n).cs
  BY <1>1, <1>2, <1>4, Zenon DEF Result
<1> QED BY <1>11, <1>12, <1>13

LEMMA CanceledOnce ==
    ASSUME H2Once, NEW q \in Requests, Canceled(q)
    PROVE  H2Once'
<1>1. PICK k, n : k = rt[q].conn /\ n = rt[q].id
  OBVIOUS
<1>2. rt[q].pc = "wait" /\ rt' = Failed(rt, q, "canceled") /\ wire' = wire /\ acted' = acted
  BY DEF Canceled
<1>3. RtsOK(rt) /\ Shapes /\ AreStreams(cs) /\ AreServers(sv)
  BY DEF H2Once, Shapes
<1>4. k \in Conns2
  BY <1>1, <1>2, ConnIs
<1>5. RtStep
  BY <1>2, <1>3, FailedStep
<1>6. PICK T : T = [cs EXCEPT ![k][n].stop = "stop and cancel"]
  OBVIOUS
<1>7. CsLike(cs, T) /\ CsLike(cs, cs)
  BY <1>3, <1>4, <1>6, FieldLike, SameLike
<1>8. PICK S : S = IF play.up[q] = 0 \/ rt[q].written THEN cs ELSE T
  OBVIOUS
<1>9. CsLike(cs, S)
  BY <1>7, <1>8
<1>10. PICK r : r = Forget(cc, S, k, n)
  OBVIOUS
<1>11. cs' = r.cs /\ (sv' = ServerResets(sv, k, n) \/ sv' = sv)
  BY <1>1, <1>6, <1>8, <1>10, Zenon DEF Canceled
<1>12. CsLike(cs, cs')
  <2>1. AreStreams(S) => CsLike(S, r.cs)
    BY <1>4, <1>10, ForgetLike
  <2>2. PICK U : U = r.cs
    OBVIOUS
  <2>3. CsLike(cs, U)
    BY <1>9, <2>1, <2>2, LikeThen
  <2> QED BY <1>11, <2>2, <2>3
<1>13. SvLike(sv, sv')
  BY <1>3, <1>4, <1>11, ResetsLike, SameLike
<1> QED BY <1>2, <1>5, <1>12, <1>13, CalmOnce

LEMMA ReadResponseOnce ==
    ASSUME H2Once, NEW q \in Requests, ReadResponse(q)
    PROVE  H2Once'
<1>1. PICK k, n : k = rt[q].conn /\ n = rt[q].id
  OBVIOUS
<1>2. rt[q].pc = "body" /\ wire' = wire /\ acted' = acted
  BY DEF ReadResponse
<1>3. RtsOK(rt) /\ RtOK(rt[q]) /\ Rec(rt[q], RtFields) /\ AreStreams(cs) /\ AreServers(sv)
  BY DEF H2Once, Shapes, RtsOK, RtOK
<1>4. k \in Conns2
  BY <1>1, <1>2, ConnIs
<1>5. \/ /\ \E u, v : cs' = [cs EXCEPT ![k][n].buf = u, ![k][n].inflow = v]
         /\ \E a, b : sv' = ServerGains(ServerGains(sv, k, 0, a), k, n, b)
         /\ rt' = rt
      \/ /\ \E e : rt' = [rt EXCEPT ![q].pc = "done", ![q].err = e]
         /\ cs' = cs /\ sv' = sv
  <2>1. PICK s, a, w, b : /\ s = cs[k][n]
                          /\ a = IF cc[k].inflow < ConnFlow \div 2 THEN ConnFlow - cc[k].inflow ELSE 0
                          /\ w = Least(s.inflow, cc[k].inflow + a)
                          /\ b = IF w < StreamFlow - MinRefresh THEN StreamFlow - w ELSE 0
    OBVIOUS
  <2>2. \/ /\ cs' = [cs EXCEPT ![k][n].buf = 0, ![k][n].inflow = @ + b]
           /\ sv' = ServerGains(ServerGains(sv, k, 0, a), k, n, b)
           /\ rt' = rt
        \/ /\ rt' = [rt EXCEPT ![q].pc = "done", ![q].err = IF s.err = "EOF" THEN @ ELSE s.err]
           /\ cs' = cs /\ sv' = sv
    BY <1>1, <2>1, Zenon DEF ReadResponse
  <2> QED BY <2>2, Zenon
<1>6. CASE /\ \E u, v : cs' = [cs EXCEPT ![k][n].buf = u, ![k][n].inflow = v]
           /\ \E a, b : sv' = ServerGains(ServerGains(sv, k, 0, a), k, n, b)
           /\ rt' = rt
  <2>1. PICK u, v : cs' = [cs EXCEPT ![k][n].buf = u, ![k][n].inflow = v]
    BY <1>6
  <2>2. PICK a, b : sv' = ServerGains(ServerGains(sv, k, 0, a), k, n, b)
    BY <1>6
  <2>3. PICK S, V : S = [cs EXCEPT ![k][n].buf = u] /\ V = ServerGains(sv, k, 0, a)
    OBVIOUS
  <2>4. CsLike(cs, S)
    BY <1>3, <1>4, <2>3, FieldLike
  <2>5. PICK T : T = [S EXCEPT ![k][n].inflow = v]
    OBVIOUS
  <2>6. AreStreams(S) => CsLike(S, T)
    BY <1>4, <2>5, FieldLike
  <2>7. cs' = T
    BY <2>1, <2>3, <2>5
  <2>8. CsLike(cs, cs')
    BY <2>4, <2>6, <2>7, LikeThen
  <2>9. SvLike(sv, V)
    BY <1>3, <1>4, <2>3, GainsLike
  <2>10. AreServers(V)
    BY <2>9 DEF SvLike
  <2>11. SvLike(V, sv')
    BY <1>4, <2>2, <2>3, <2>10, GainsLike
  <2>12. SvLike(sv, sv')
    BY <2>9, <2>11, LikeBoth
  <2>13. RtStep
    BY <1>3, <1>6, RtSame
  <2> QED BY <1>2, <2>8, <2>12, <2>13, CalmOnce
<1>7. CASE /\ \E e : rt' = [rt EXCEPT ![q].pc = "done", ![q].err = e]
           /\ cs' = cs /\ sv' = sv
  <2>1. PICK e : rt' = Failed(rt, q, e)
    BY <1>7 DEF Failed
  <2>2. RtStep
    BY <1>2, <1>3, <2>1, FailedStep
  <2> QED BY <1>2, <1>7, <2>2, SameLike, CalmOnce
<1> QED BY <1>5, <1>6, <1>7

(* Two fields of a stream.                                                 *)
LEMMA FieldsLike ==
    ASSUME NEW S, AreStreams(S), NEW k \in Conns2, NEW n, NEW u, NEW v, NEW S2,
           \/ S2 = [S EXCEPT ![k][n].didReset = u, ![k][n].err = v]
           \/ S2 = [S EXCEPT ![k][n].w = u, ![k][n].wres = v]
           \/ S2 = [S EXCEPT ![k][n].flow = u, ![k][n].left = v]
    PROVE  CsLike(S, S2)
<1>1. CASE S2 = [S EXCEPT ![k][n].didReset = u, ![k][n].err = v]
  <2>1. PICK S1 : S1 = [S EXCEPT ![k][n].didReset = u]
    OBVIOUS
  <2>2. PICK T : T = [S1 EXCEPT ![k][n].err = v]
    OBVIOUS
  <2>3. CsLike(S, S1)
    BY <2>1, FieldLike, Zenon
  <2>4. AreStreams(S1) => CsLike(S1, T)
    BY <2>2, FieldLike, Zenon
  <2>5. S2 = T
    BY <1>1, <2>1, <2>2
  <2> QED BY <2>3, <2>4, <2>5, LikeThen, Zenon
<1>2. CASE S2 = [S EXCEPT ![k][n].w = u, ![k][n].wres = v]
  <2>1. PICK S1 : S1 = [S EXCEPT ![k][n].w = u]
    OBVIOUS
  <2>2. PICK T : T = [S1 EXCEPT ![k][n].wres = v]
    OBVIOUS
  <2>3. CsLike(S, S1)
    BY <2>1, FieldLike, Zenon
  <2>4. AreStreams(S1) => CsLike(S1, T)
    BY <2>2, FieldLike, Zenon
  <2>5. S2 = T
    BY <1>2, <2>1, <2>2
  <2> QED BY <2>3, <2>4, <2>5, LikeThen, Zenon
<1>3. CASE S2 = [S EXCEPT ![k][n].flow = u, ![k][n].left = v]
  <2>1. PICK S1 : S1 = [S EXCEPT ![k][n].flow = u]
    OBVIOUS
  <2>2. PICK T : T = [S1 EXCEPT ![k][n].left = v]
    OBVIOUS
  <2>3. CsLike(S, S1)
    BY <2>1, FieldLike, Zenon
  <2>4. AreStreams(S1) => CsLike(S1, T)
    BY <2>2, FieldLike, Zenon
  <2>5. S2 = T
    BY <1>3, <2>1, <2>2
  <2> QED BY <2>3, <2>4, <2>5, LikeThen, Zenon
<1> QED BY <1>1, <1>2, <1>3, Zenon

LEMMA CloseResponseOnce ==
    ASSUME H2Once, NEW q \in Requests, CloseResponse(q)
    PROVE  H2Once'
<1>1. PICK k, n, s : k = rt[q].conn /\ n = rt[q].id /\ s = cs[k][n]
  OBVIOUS
<1>2. rt[q].pc = "body" /\ wire' = wire /\ acted' = acted
  BY DEF CloseResponse
<1>3. RtsOK(rt) /\ RtOK(rt[q]) /\ Rec(rt[q], RtFields) /\ AreStreams(cs) /\ AreServers(sv)
  BY DEF H2Once, Shapes, RtsOK, RtOK
<1>4. k \in Conns2
  BY <1>1, <1>2, ConnIs
<1>5. PICK V : V = IF s.err = "EOF" THEN sv ELSE ServerResets(sv, k, n)
  OBVIOUS
<1>6. /\ sv' = ServerGains(V, k, 0, s.buf) /\ cs' = [cs EXCEPT ![k][n].brk = TRUE]
      /\ rt' = [rt EXCEPT ![q].pc = "done"]
  BY <1>1, <1>5, Zenon DEF CloseResponse
<1>7. SvLike(sv, V)
  <2>1. PICK W : W = ServerResets(sv, k, n)
    OBVIOUS
  <2>2. SvLike(sv, W)
    BY <1>3, <1>4, <2>1, ResetsLike
  <2> QED BY <1>5, <2>1, <2>2, SameLike
<1>8. SvLike(sv, sv')
  <2>1. AreServers(V)
    BY <1>7 DEF SvLike
  <2>2. SvLike(V, sv')
    BY <1>4, <1>6, <2>1, GainsLike
  <2> QED BY <1>7, <2>2, LikeBoth
<1>9. CsLike(cs, cs')
  BY <1>3, <1>4, <1>6, FieldLike
<1>10. PICK y : y = [rt[q] EXCEPT !.pc = "done"]
  OBVIOUS
<1>11. Rec(y, RtFields) /\ y.pc = "done" /\ y.conn = rt[q].conn /\ y.id = rt[q].id
  BY <1>3, <1>10, RtPc
<1>12. RtOK(y) /\ RtMoves(rt[q], y)
  BY <1>2, <1>3, <1>11 DEF RtOK, RtMoves, Early, Late
<1>13. rt' = [rt EXCEPT ![q] = y]
  BY <1>6, <1>10
<1>14. RtStep
  BY <1>3, <1>12, <1>13, RtUpdated
<1> QED BY <1>2, <1>8, <1>9, <1>14, CalmOnce

LEMMA AwaitCancelOnce ==
    ASSUME H2Once, NEW q \in Requests, awaitRequestCancel(q)
    PROVE  H2Once'
<1>1. PICK k, n : k = rt[q].conn /\ n = rt[q].id
  OBVIOUS
<1>2. n # Nothing /\ rt' = rt /\ wire' = wire /\ acted' = acted /\ sv' = ServerResets(sv, k, n)
  BY <1>1 DEF awaitRequestCancel
<1>3. RtsOK(rt) /\ RtOK(rt[q]) /\ AreStreams(cs) /\ AreServers(sv)
  BY DEF H2Once, Shapes, RtsOK
<1>4. k \in Conns2
  BY <1>1, <1>2, <1>3 DEF RtOK, Early
<1>5. PICK v : v = IF cs[k][n].err = Blank THEN "canceled" ELSE cs[k][n].err
  OBVIOUS
<1>6. cs' = [cs EXCEPT ![k][n].didReset = TRUE, ![k][n].err = v]
  BY <1>1, <1>5, Zenon DEF awaitRequestCancel
<1>7. CsLike(cs, cs')
  BY <1>3, <1>4, <1>6, FieldsLike
<1>8. SvLike(sv, sv')
  BY <1>2, <1>3, <1>4, ResetsLike
<1>9. RtStep
  BY <1>2, <1>3, RtSame
<1> QED BY <1>2, <1>7, <1>8, <1>9, CalmOnce

LEMMA StartsBodyOnce ==
    ASSUME H2Once, NEW k \in Conns2, NEW n \in Streams, StartsBody(k, n)
    PROVE  H2Once'
<1>1. /\ cs' = [cs EXCEPT ![k][n].w = "writing"]
      /\ rt' = rt /\ sv' = sv /\ wire' = wire /\ acted' = acted
  BY DEF StartsBody
<1>2. RtsOK(rt) /\ AreStreams(cs)
  BY DEF H2Once, Shapes
<1>3. CsLike(cs, cs')
  BY <1>1, <1>2, FieldLike
<1>4. RtStep
  BY <1>1, <1>2, RtSame
<1> QED BY <1>1, <1>3, <1>4, SameLike, CalmOnce

LEMMA WriteBodyOnce ==
    ASSUME H2Once, NEW k \in Conns2, NEW n \in Streams, writeRequestBody(k, n)
    PROVE  H2Once'
<1>1. rt' = rt /\ wire' = wire /\ acted' = acted
  BY DEF writeRequestBody
<1>2. RtsOK(rt) /\ AreStreams(cs) /\ AreServers(sv)
  BY DEF H2Once, Shapes
<1>3. RtStep
  BY <1>1, <1>2, RtSame
<1>4. PICK s, refused, take : /\ s = cs[k][n] /\ refused = WriteRefused(k, n)
                              /\ take = Least(outAvailable(k, n), s.left)
  OBVIOUS
<1>5. \/ /\ \E e : cs' = [cs EXCEPT ![k][n].w = "done", ![k][n].wres = e]
         /\ sv' = sv \/ sv' = ServerResets(sv, k, n)
      \/ /\ cs' = [cs EXCEPT ![k][n].flow = @ - take, ![k][n].left = @ - take]
         /\ sv' = sv \/ sv' = ServerTakes(sv, k, n, take)
  BY <1>4, Zenon DEF writeRequestBody
<1>6. CASE /\ \E e : cs' = [cs EXCEPT ![k][n].w = "done", ![k][n].wres = e]
           /\ sv' = sv \/ sv' = ServerResets(sv, k, n)
  <2>1. PICK e : cs' = [cs EXCEPT ![k][n].w = "done", ![k][n].wres = e]
    BY <1>6
  <2>2. CsLike(cs, cs')
    BY <1>2, <2>1, FieldsLike, Zenon
  <2>3. SvLike(sv, sv')
    BY <1>2, <1>6, ResetsLike, SameLike
  <2> QED BY <1>1, <1>3, <2>2, <2>3, CalmOnce
<1>7. CASE /\ cs' = [cs EXCEPT ![k][n].flow = @ - take, ![k][n].left = @ - take]
           /\ sv' = sv \/ sv' = ServerTakes(sv, k, n, take)
  <2>1. PICK u, v : u = cs[k][n].flow - take /\ v = cs[k][n].left - take
    OBVIOUS
  <2>2. cs' = [cs EXCEPT ![k][n].flow = u, ![k][n].left = v]
    BY <1>7, <2>1
  <2>3. CsLike(cs, cs')
    BY <1>2, <2>2, FieldsLike, Zenon
  <2>4. SvLike(sv, sv')
    BY <1>2, <1>7, TakesLike, SameLike
  <2> QED BY <1>1, <1>3, <2>3, <2>4, CalmOnce
<1> QED BY <1>5, <1>6, <1>7

LEMMA ConnStepOnce ==
    ASSUME H2Once, NEW k \in Conns2, dial(k) \/ addConnLocked(k) \/ ServerHangs(k) \/ closeIfIdle(k)
    PROVE  H2Once'
<1>1. rt' = rt /\ cs' = cs /\ sv' = sv /\ wire' = wire /\ acted' = acted
  BY Zenon DEF dial, addConnLocked, ServerHangs, closeIfIdle
<1>2. RtStep
  BY <1>1, RtSame DEF H2Once
<1> QED BY <1>1, <1>2, SameLike, CalmOnce

(* The step that sends a request: its stream is new to it.                 *)
Sends(q, k, n, s) ==
    /\ rt[q].pc = "start" /\ k = rt[q].conn
    /\ Rec(s, CsFields) /\ s.req = q /\ s.resc = <<>> /\ cs' = [cs EXCEPT ![k][n] = s]
    /\ rt' = [rt EXCEPT ![q].pc = "wait", ![q].id = n]
    /\ AreServers(sv') /\ \A j \in Conns2 : sv'[j].last = sv[j].last
    /\ \A j \in Conns2, m \in Streams :
          sv'[j].stream[m].st = "open" => sv[j].stream[m].st = "open" \/ (j = k /\ m = n)
    /\ wire' = wire /\ acted' = acted

LEMMA SendsOnce ==
    ASSUME H2Once, NEW q \in Requests, NEW k \in Conns2, NEW n \in Streams, NEW s, Sends(q, k, n, s)
    PROVE  H2Once'
<1> USE DEF Sends
<1>1. Shapes /\ RtsOK(rt) /\ WiresOK(wire, sv) /\ AllTold(cs) /\ Served /\ Acted /\ Refusals
  BY DEF H2Once
<1>2. AreStreams(cs) /\ RtOK(rt[q]) /\ Rec(rt[q], RtFields)
  BY <1>1 DEF Shapes, RtsOK, RtOK
<1>3. PICK x : x = [rt[q] EXCEPT !.pc = "wait"]
  OBVIOUS
<1>4. PICK y : y = [x EXCEPT !.id = n]
  OBVIOUS
<1>5. Rec(x, RtFields) /\ x.pc = "wait" /\ x.conn = k
  <2>1. PICK r : r = rt[q]
    OBVIOUS
  <2>2. Rec(r, RtFields) /\ x = [r EXCEPT !.pc = "wait"] /\ r.conn = k
    BY <1>2, <1>3, <2>1, Zenon
  <2>3. Rec(x, RtFields) /\ x.pc = "wait" /\ x.conn = r.conn
    BY ONLY <2>2, RtPc
  <2> QED BY <2>2, <2>3
<1>6. Rec(y, RtFields) /\ y.pc = "wait" /\ y.conn = k /\ y.id = n
  BY <1>4, <1>5, RtId, SMTT(40)
<1>7. rt' = [rt EXCEPT ![q] = y]
  BY <1>1, <1>3, <1>4 DEF RtsOK
<1>8. \A p \in Requests : rt'[p] = IF p = q THEN y ELSE rt[p]
  BY <1>1, <1>7 DEF RtsOK
<1>9. RtOK(y)
  BY <1>2, <1>6 DEF RtOK, Early, Late
<1>10. RtsOK(rt')
  <2>1. \A p \in Requests : RtOK(rt'[p])
    BY <1>1, <1>8, <1>9 DEF RtsOK
  <2>2. rt' = [p \in Requests |-> rt'[p]]
    BY <1>1, <1>7 DEF RtsOK
  <2> QED BY <2>1, <2>2 DEF RtsOK
<1>11. \A j \in Conns2, m \in Streams : cs'[j][m] = IF j = k /\ m = n THEN s ELSE cs[j][m]
  BY <1>2 DEF AreStreams
<1>12. AreStreams(cs')
  BY <1>2, <1>11 DEF AreStreams
<1>13. WiresOK(wire', sv')
  BY <1>1 DEF WiresOK
<1>14. Told(<<>>)
  BY DEF Told
<1>15. AllTold(cs')
  BY <1>1, <1>11, <1>14 DEF AllTold
<1>16. Bound(q, k, n)'
  BY <1>6, <1>8 DEF Bound, Late
<1>17. \A p \in Requests, j \in Conns2, m \in Streams : Bound(p, j, m) => p # q /\ Bound(p, j, m)'
  <2>1. rt[q].pc \notin Late
    BY DEF Late
  <2> QED BY <1>8, <2>1 DEF Bound
<1>18. \A j \in Conns2, m \in Streams : InReach(j, m)' => InReach(j, m) \/ (j = k /\ m = n)
  BY DEF InReach
<1>19. Served'
  <2>1. SUFFICES ASSUME NEW j \in Conns2, NEW m \in Streams, InReach(j, m)'
                 PROVE  (cs[j][m].req \in Requests /\ Bound(cs[j][m].req, j, m))'
    BY DEF Served
  <2>2. CASE j = k /\ m = n
    <3>1. cs'[j][m].req = q
      BY <1>11, <2>2
    <3> QED BY <1>16, <2>2, <3>1 DEF Bound
  <2>3. CASE ~(j = k /\ m = n)
    <3>1. InReach(j, m)
      BY <1>18, <2>1, <2>3
    <3>2. PICK p : p = cs[j][m].req
      OBVIOUS
    <3>3. p \in Requests /\ Bound(p, j, m)
      BY <1>1, <3>1, <3>2 DEF Served
    <3>4. Bound(p, j, m)'
      BY <1>17, <3>3
    <3>5. cs'[j][m].req = p
      BY <1>11, <2>3, <3>2
    <3> QED BY <3>3, <3>4, <3>5 DEF Bound
  <2> QED BY <2>2, <2>3
<1>20. Acted'
  <2>1. SUFFICES ASSUME NEW a \in acted
                 PROVE  \E p \in Requests : \E j \in Conns2 : \E m \in Streams :
                           a = <<p, j, m>> /\ Bound(p, j, m)' /\ (sv'[j].last >= 0 => m <= sv'[j].last)
    BY DEF Acted
  <2>2. PICK p \in Requests : \E j \in Conns2 : \E m \in Streams :
          a = <<p, j, m>> /\ Bound(p, j, m) /\ (sv[j].last >= 0 => m <= sv[j].last)
    BY <1>1 DEF Acted
  <2>3. PICK j \in Conns2 : \E m \in Streams :
          a = <<p, j, m>> /\ Bound(p, j, m) /\ (sv[j].last >= 0 => m <= sv[j].last)
    BY <2>2
  <2>4. PICK m \in Streams : a = <<p, j, m>> /\ Bound(p, j, m) /\ (sv[j].last >= 0 => m <= sv[j].last)
    BY <2>3
  <2>5. Bound(p, j, m)' /\ sv'[j].last = sv[j].last
    BY <1>17, <2>4
  <2> QED BY <2>4, <2>5
<1>21. Refusals'
  <2>1. SUFFICES ASSUME NEW j \in Conns2, NEW m \in Streams, cs'[j][m].resc = <<"goaway">>
                 PROVE  ~InReach(j, m)' /\ \A p \in Requests : <<p, j, m>> \notin acted
    BY DEF Refusals
  <2>2. <<>> # <<"goaway">>
    OBVIOUS
  <2>3. ~(j = k /\ m = n) /\ cs[j][m].resc = <<"goaway">>
    BY <1>11, <2>1, <2>2
  <2>4. ~InReach(j, m) /\ \A p \in Requests : <<p, j, m>> \notin acted
    BY <1>1, <2>3 DEF Refusals
  <2> QED BY <1>18, <2>3, <2>4
<1>22. Shapes'
  BY <1>12 DEF Shapes
<1> QED BY <1>10, <1>13, <1>15, <1>19, <1>20, <1>21, <1>22 DEF H2Once

LEMMA NewStreamFacts ==
    ASSUME NEW k, NEW n, NEW q, NEW s, s = newStream(k, n, q)
    PROVE  Rec(s, CsFields) /\ s.req = q /\ s.resc = <<>>
<1>1. PICK a, b, c, d : /\ a = cc[k].init /\ b = StreamFlow /\ c = play.up[q]
                        /\ d = IF play.up[q] > 0 THEN "ready" ELSE "none"
  OBVIOUS
<1>2. s = [CsInit EXCEPT !.req = q, !.flow = a, !.inflow = b, !.left = c, !.w = d]
  BY <1>1, Zenon DEF newStream
<1>3. PICK s1, s2, s3, s4 :
        /\ s1 = [CsInit EXCEPT !.req = q] /\ s2 = [s1 EXCEPT !.flow = a]
        /\ s3 = [s2 EXCEPT !.inflow = b] /\ s4 = [s3 EXCEPT !.left = c]
  OBVIOUS
<1>4. s = [s4 EXCEPT !.w = d]
  BY <1>2, <1>3
<1>5. Rec(CsInit, CsFields) /\ CsInit.resc = <<>>
  BY DEF CsInit, Rec, CsFields
<1>6. Rec(s1, CsFields) /\ s1.req = q /\ s1.resc = <<>>
  BY <1>3, <1>5, Zenon DEF Rec, CsFields
<1>7. Rec(s2, CsFields) /\ s2.req = q /\ s2.resc = <<>>
  BY <1>3, <1>6, Zenon DEF Rec, CsFields
<1>8. Rec(s3, CsFields) /\ s3.req = q /\ s3.resc = <<>>
  BY <1>3, <1>7, Zenon DEF Rec, CsFields
<1>9. Rec(s4, CsFields) /\ s4.req = q /\ s4.resc = <<>>
  BY <1>3, <1>8, Zenon DEF Rec, CsFields
<1> QED BY <1>4, <1>9, Zenon DEF Rec, CsFields

LEMMA OpensFacts ==
    ASSUME NEW V, AreServers(V), NEW k \in Conns2, NEW n \in Streams, NEW q, NEW V2, V2 = ServerOpens(V, k, n, q)
    PROVE  /\ AreServers(V2) /\ \A j \in Conns2 : V2[j].last = V[j].last
           /\ \A j \in Conns2, m \in Streams :
                 V2[j].stream[m].st = "open" => V[j].stream[m].st = "open" \/ (j = k /\ m = n)
<1>1. CASE Gone(k)
  <2>1. V2 = V
    BY <1>1 DEF ServerOpens
  <2> QED BY <2>1
<1>2. CASE ~Gone(k)
  <2>1. PICK v : v = V[k]
    OBVIOUS
  <2>2. /\ Rec(v, SvFields) /\ v.stream = [m \in Streams |-> v.stream[m]] /\ V = [j \in Conns2 |-> V[j]]
        /\ \A m \in Streams : Rec(v.stream[m], StreamFields)
    BY <2>1 DEF AreServers
  <2>3. PICK a, b, c : a = play.down[q] /\ b = StreamFlow /\ c = V[k].init
    OBVIOUS
  <2>4. PICK y : y = [v.stream[n] EXCEPT !.st = "open", !.down = a, !.send = b, !.recv = c]
    OBVIOUS
  <2>5. Rec(y, StreamFields)
    <3>1. PICK s1, s2, s3 : /\ s1 = [v.stream[n] EXCEPT !.st = "open"] /\ s2 = [s1 EXCEPT !.down = a]
                            /\ s3 = [s2 EXCEPT !.send = b]
      OBVIOUS
    <3>2. y = [s3 EXCEPT !.recv = c]
      BY <2>4, <3>1
    <3>3. Rec(v.stream[n], StreamFields)
      BY <2>2
    <3>4. Rec(s1, StreamFields)
      BY <3>1, <3>3, Zenon DEF Rec, StreamFields
    <3>5. Rec(s2, StreamFields)
      BY <3>1, <3>4, Zenon DEF Rec, StreamFields
    <3>6. Rec(s3, StreamFields)
      BY <3>1, <3>5, Zenon DEF Rec, StreamFields
    <3> QED BY <3>2, <3>6, Zenon DEF Rec, StreamFields
  <2>6. PICK F : F = [v.stream EXCEPT ![n] = y]
    OBVIOUS
  <2>7. PICK w : w = [v EXCEPT !.stream = F]
    OBVIOUS
  <2>8. V2 = [V EXCEPT ![k] = w]
    <3>1. V2 = [V EXCEPT ![k].stream[n] = y]
      BY <1>2, <2>1, <2>3, <2>4, Zenon DEF ServerOpens
    <3> QED BY <2>1, <2>6, <2>7, <3>1
  <2>9. Rec(w, SvFields) /\ w.last = v.last /\ w.stream = F
    BY <2>2, <2>7, Zenon DEF Rec, SvFields
  <2>10. F = [m \in Streams |-> F[m]] /\ \A m \in Streams : F[m] = IF m = n THEN y ELSE v.stream[m]
    BY <2>2, <2>6
  <2>11. \A m \in Streams : Rec(F[m], StreamFields)
    BY <2>2, <2>5, <2>10
  <2>12. \A j \in Conns2 : V2[j] = IF j = k THEN w ELSE V[j]
    BY <2>2, <2>8
  <2>13. AreServers(V2)
    <3>1. ASSUME NEW j \in Conns2
          PROVE  /\ Rec(V2[j], SvFields) /\ V2[j].stream = [m \in Streams |-> V2[j].stream[m]]
                 /\ \A m \in Streams : Rec(V2[j].stream[m], StreamFields)
      <4>1. CASE j = k
        <5>1. V2[j] = w
          BY <2>12, <4>1
        <5> QED BY <2>9, <2>10, <2>11, <5>1, Zenon
      <4>2. CASE j # k
        <5>1. V2[j] = V[j]
          BY <2>12, <4>2
        <5> QED BY <5>1 DEF AreServers
      <4> QED BY <4>1, <4>2
    <3>2. V2 = [j \in Conns2 |-> V2[j]]
      BY <2>2, <2>8
    <3> QED BY <3>1, <3>2, Zenon DEF AreServers
  <2>14. \A j \in Conns2 : V2[j].last = V[j].last
    BY <2>1, <2>9, <2>12
  <2>15. \A j \in Conns2, m \in Streams :
            V2[j].stream[m].st = "open" => V[j].stream[m].st = "open" \/ (j = k /\ m = n)
    BY <2>1, <2>9, <2>10, <2>12
  <2> QED BY <2>13, <2>14, <2>15
<1> QED BY <1>1, <1>2

LEMMA RoundTrip2Once ==
    ASSUME H2Once, NEW q \in Requests, RoundTrip(q)
    PROVE  H2Once'
<1>1. PICK k, n : k = rt[q].conn /\ n = cc[k].next
  OBVIOUS
<1>2. rt[q].pc = "start" /\ wire' = wire /\ acted' = acted
  BY DEF RoundTrip
<1>3. k \in Conns2 /\ RtsOK(rt) /\ AreServers(sv) /\ rt[q].pc \in Early /\ rt[q].pc # "get"
  BY <1>1, <1>2, ConnIs DEF H2Once, Shapes, Early
<1>4. \/ (\E e : RoundTripFails(q, e)) /\ cs' = cs /\ sv' = sv
      \/ /\ canTakeNewRequestLocked(k) /\ cs' = [cs EXCEPT ![k][n] = newStream(k, n, q)]
         /\ sv' = ServerOpens(sv, k, n, q) /\ rt' = [rt EXCEPT ![q].pc = "wait", ![q].id = n]
  BY <1>1, Zenon DEF RoundTrip
<1>5. CASE (\E e : RoundTripFails(q, e)) /\ cs' = cs /\ sv' = sv
  <2>1. RtStep
    BY <1>3, <1>5, FailsStep
  <2> QED BY <1>2, <1>5, <2>1, SameLike, CalmOnce
<1>6. CASE /\ canTakeNewRequestLocked(k) /\ cs' = [cs EXCEPT ![k][n] = newStream(k, n, q)]
           /\ sv' = ServerOpens(sv, k, n, q) /\ rt' = [rt EXCEPT ![q].pc = "wait", ![q].id = n]
  <2>1. n \in Streams
    BY <1>1, <1>6 DEF canTakeNewRequestLocked
  <2>2. PICK s : s = newStream(k, n, q)
    OBVIOUS
  <2>3. Rec(s, CsFields) /\ s.req = q /\ s.resc = <<>> /\ cs' = [cs EXCEPT ![k][n] = s]
    BY <1>6, <2>2, NewStreamFacts
  <2>4. /\ AreServers(sv') /\ \A j \in Conns2 : sv'[j].last = sv[j].last
        /\ \A j \in Conns2, m \in Streams :
              sv'[j].stream[m].st = "open" => sv[j].stream[m].st = "open" \/ (j = k /\ m = n)
    <3>1. PICK V2 : V2 = ServerOpens(sv, k, n, q)
      OBVIOUS
    <3>2. sv' = V2
      BY <1>6, <3>1, Zenon
    <3>3. /\ AreServers(V2) /\ \A j \in Conns2 : V2[j].last = sv[j].last
          /\ \A j \in Conns2, m \in Streams :
                V2[j].stream[m].st = "open" => sv[j].stream[m].st = "open" \/ (j = k /\ m = n)
      BY <1>3, <2>1, <3>1, OpensFacts
    <3> QED BY <3>2, <3>3, Zenon
  <2>5. rt' = [rt EXCEPT ![q].pc = "wait", ![q].id = n]
    BY <1>6, Zenon
  <2>6. Sends(q, k, n, s)
    BY <1>1, <1>2, <2>3, <2>4, <2>5, Zenon DEF Sends
  <2> QED BY <1>3, <2>1, <2>6, SendsOnce
<1> QED BY <1>4, <1>5, <1>6

Endings == {"protocol", "flow control", "closed pipe", "EOF"}

LEMMA CleanupLike ==
    ASSUME H2Once, NEW C, NEW S, CsLike(cs, S), NEW k \in Conns2, NEW err \in Endings, cleanup(C, S, k, err)
    PROVE  CsLike(cs, cs')
<1>1. AreStreams(S)
  BY DEF CsLike
<1>2. PICK e : e = IF C[k].goAway >= 0 /\ err = "EOF" THEN "server left" ELSE err
  OBVIOUS
<1>3. e \in Results
  BY <1>2 DEF Endings, Results
<1>4. PICK F : F = [n \in Streams |->
                     IF n \in C[k].streams
                     THEN [Offer(IF S[k][n].pipe THEN EndPipe(S, k, n, e) ELSE S, k, n, e)[k][n] EXCEPT !.done = TRUE]
                     ELSE (IF S[k][n].pipe THEN EndPipe(S, k, n, e) ELSE S)[k][n]]
  OBVIOUS
<1>5. cs' = [S EXCEPT ![k] = F]
  BY <1>2, <1>4, Zenon DEF cleanup
<1>6. ASSUME NEW n \in Streams PROVE StreamLike(S[k][n], F[n])
  <2>1. PICK P : P = IF S[k][n].pipe THEN EndPipe(S, k, n, e) ELSE S
    OBVIOUS
  <2>2. PICK E : E = EndPipe(S, k, n, e)
    OBVIOUS
  <2>3. CsLike(S, E) /\ CsLike(S, S)
    BY <1>1, <2>2, EndPipeLike, LikeItself
  <2>4. CsLike(S, P)
    BY <2>1, <2>2, <2>3
  <2>5. PICK O : O = Offer(P, k, n, e)
    OBVIOUS
  <2>6. AreStreams(P)
    BY <2>4 DEF CsLike
  <2>7. CsLike(P, O)
    BY <1>3, <2>5, <2>6, OfferLike
  <2>8. CsLike(S, O)
    BY <2>4, <2>7, LikeBoth
  <2>9. PICK o, z : o = O[k][n] /\ z = [o EXCEPT !.done = TRUE]
    OBVIOUS
  <2>10. StreamLike(S[k][n], o) /\ StreamLike(S[k][n], P[k][n])
    BY <2>4, <2>8, <2>9 DEF CsLike
  <2>11. Rec(o, CsFields)
    BY <2>10 DEF StreamLike
  <2>12. Rec(z, CsFields) /\ z.req = o.req /\ z.resc = o.resc
    BY <2>9, <2>11, Zenon DEF Rec, CsFields
  <2>13. StreamLike(S[k][n], z)
    BY <2>10, <2>12 DEF StreamLike
  <2>14. F[n] = IF n \in C[k].streams THEN z ELSE P[k][n]
    BY <1>4, <2>1, <2>5, <2>9, Zenon
  <2>15. CASE n \in C[k].streams
    BY <2>13, <2>14, <2>15
  <2>16. CASE n \notin C[k].streams
    BY <2>10, <2>14, <2>16
  <2> QED BY <2>15, <2>16
<1>7. F = [n \in Streams |-> F[n]]
  BY <1>4
<1>8. CsLike(S, cs')
  BY <1>1, <1>5, <1>6, <1>7, ConnStreamsUpdated
<1> QED BY <1>8, LikeBoth

LEMMA CleanupOnce ==
    ASSUME H2Once, NEW C, NEW S, CsLike(cs, S), NEW k \in Conns2, NEW err \in Endings, cleanup(C, S, k, err),
           rt' = rt, acted' = acted
    PROVE  H2Once'
<1>1. CsLike(cs, cs')
  BY CleanupLike
<1>2. sv' = [sv EXCEPT ![k] = SvInit] /\ wire' = [wire EXCEPT ![k] = <<>>]
  BY DEF cleanup
<1>3. AreServers(sv) /\ WiresOK(wire, sv) /\ RtsOK(rt)
  BY DEF H2Once, Shapes
<1>4. PICK v : v = SvInit
  OBVIOUS
<1>5. /\ v.last = -1 /\ Rec(v, SvFields) /\ v.stream = [n \in Streams |-> v.stream[n]]
      /\ \A n \in Streams : Rec(v.stream[n], StreamFields)
  BY <1>4, SvInitFacts
<1>6. /\ \A j \in Conns2 : sv'[j] = IF j = k THEN v ELSE sv[j]
      /\ sv' = [j \in Conns2 |-> sv'[j]]
  BY <1>2, <1>3, <1>4 DEF AreServers
<1>7. AreServers(sv')
  BY <1>3, <1>5, <1>6 DEF AreServers
<1>8. \A j \in Conns2 : ServerLike(sv[j], sv[j])
  BY <1>3 DEF AreServers, ServerLike, ServedLike
<1>9. SvMoves(sv, sv')
  BY <1>4, <1>6, <1>7, <1>8 DEF SvMoves
<1>10. WiresOK(wire', sv')
  <2>1. \A j \in Conns2 : wire'[j] = IF j = k THEN <<>> ELSE wire[j]
    BY <1>2, <1>3 DEF WiresOK
  <2>2. wire' = [j \in Conns2 |-> wire'[j]]
    BY <1>2, <1>3 DEF WiresOK
  <2>3. IsWire(<<>>, -1)
    BY WireEmpty
  <2>4. \A j \in Conns2 : sv[j].last \in Int /\ IsWire(wire[j], sv[j].last)
    BY <1>3 DEF WiresOK
  <2>5. ASSUME NEW j \in Conns2 PROVE sv'[j].last \in Int /\ IsWire(wire'[j], sv'[j].last)
    <3>1. CASE j = k
      <4>1. sv'[j].last = -1 /\ wire'[j] = <<>>
        BY <1>5, <1>6, <2>1, <3>1
      <4> QED BY <2>3, <4>1
    <3>2. CASE j # k
      <4>1. sv'[j] = sv[j] /\ wire'[j] = wire[j]
        BY <1>6, <2>1, <3>2
      <4> QED BY <2>4, <4>1
    <3> QED BY <3>1, <3>2
  <2> QED BY <2>2, <2>5 DEF WiresOK
<1>11. RtStep
  BY <1>3, RtSame
<1>12. Quiet2
  BY <1>1, <1>9, <1>10, <1>11 DEF Quiet2, RtStep
<1> QED BY <1>12, QuietOnce

LEMMA WiresUpdated ==
    ASSUME WiresOK(wire, sv), NEW k \in Conns2, NEW w, wire' = [wire EXCEPT ![k] = w],
           \A j \in Conns2 : j # k => sv'[j].last = sv[j].last, sv'[k].last \in Int, IsWire(w, sv'[k].last)
    PROVE  WiresOK(wire', sv')
<1>1. \A j \in Conns2 : wire'[j] = IF j = k THEN w ELSE wire[j]
  BY DEF WiresOK
<1>2. wire' = [j \in Conns2 |-> wire'[j]]
  BY DEF WiresOK
<1>3. \A j \in Conns2 : sv[j].last \in Int /\ IsWire(wire[j], sv[j].last)
  BY DEF WiresOK
<1>4. \A j \in Conns2 : sv'[j].last \in Int /\ IsWire(wire'[j], sv'[j].last)
  BY <1>1, <1>3
<1> QED BY <1>2, <1>4 DEF WiresOK

LEMMA WiresTail ==
    ASSUME WiresOK(wire, sv), NEW k \in Conns2, wire' = [wire EXCEPT ![k] = Tail(@)], wire[k] # <<>>,
           SvLike(sv, sv')
    PROVE  WiresOK(wire', sv')
<1>1. sv[k].last \in Int /\ IsWire(wire[k], sv[k].last)
  BY DEF WiresOK
<1>2. \A j \in Conns2 : sv'[j].last = sv[j].last
  BY DEF SvLike, ServerLike
<1>3. PICK w : w = Tail(wire[k])
  OBVIOUS
<1>4. IsWire(w, sv[k].last)
  BY <1>1, <1>3, WireTail
<1>5. wire' = [wire EXCEPT ![k] = w]
  BY <1>3
<1> QED BY <1>1, <1>2, <1>4, <1>5, WiresUpdated

(* A server that sends and neither acts nor goes away.                     *)
LEMMA SentOnce2 ==
    ASSUME H2Once, NEW k \in Conns2, NEW fs, Send(k, fs), IsWire(fs, sv[k].last), SvLike(sv, sv'),
           rt' = rt, cs' = cs, acted' = acted
    PROVE  H2Once'
<1>1. WiresOK(wire, sv) /\ RtsOK(rt)
  BY DEF H2Once
<1>2. sv[k].last \in Int /\ IsWire(wire[k], sv[k].last)
  BY <1>1 DEF WiresOK
<1>3. \A j \in Conns2 : sv'[j].last = sv[j].last
  BY DEF SvLike, ServerLike
<1>4. PICK w : w = wire[k] \o fs
  OBVIOUS
<1>5. IsWire(w, sv[k].last)
  BY <1>2, <1>4, WireJoin
<1>6. wire' = [wire EXCEPT ![k] = w]
  BY <1>4 DEF Send
<1>7. WiresOK(wire', sv')
  BY <1>1, <1>2, <1>3, <1>5, <1>6, WiresUpdated
<1>8. RtStep
  BY <1>1, RtSame
<1>9. Quiet2
  BY <1>7, <1>8, SameLike, LikeMoves DEF Quiet2, RtStep
<1> QED BY <1>9, QuietOnce

(* The read loop is told that the server has gone away.                    *)
LEMMA ReadsGoAwayOnce ==
    ASSUME H2Once, NEW k \in Conns2, wire[k] # <<>>, NEW f, f = Head(wire[k]), f.t = "goaway",
           NEW r, r = Handle(k, f), cs' = r.cs, sv' = r.sv, wire' = [wire EXCEPT ![k] = Tail(@)],
           rt' = rt, acted' = acted
    PROVE  H2Once'
<1>1. Shapes /\ RtsOK(rt) /\ WiresOK(wire, sv) /\ AllTold(cs) /\ Served /\ Acted /\ Refusals
  BY DEF H2Once
<1>2. /\ AreStreams(cs') /\ sv' = sv
      /\ \A j \in Conns2, n \in Streams :
            /\ cs'[j][n].req = cs[j][n].req
            /\ cs'[j][n].resc # cs[j][n].resc => j = k /\ n > f.n /\ cs'[j][n].resc = <<"goaway">>
  BY <1>1, GoAwayFacts
<1>3. SvLike(sv, sv')
  BY <1>2, SameLike
<1>4. WiresOK(wire', sv')
  BY <1>1, <1>3, WiresTail
<1>5. sv[k].last \in Int /\ sv[k].last = f.n /\ sv[k].last >= 0
  <2>1. sv[k].last \in Int /\ IsWire(wire[k], sv[k].last)
    BY <1>1 DEF WiresOK
  <2>2. IsFrame(f, sv[k].last)
    BY <2>1, WireTail
  <2> QED BY <2>1, <2>2 DEF IsFrame
<1>6. Shapes' /\ RtsOK(rt')
  BY <1>1, <1>2 DEF Shapes
<1>7. AllTold(cs')
  <2>1. Told(<<"goaway">>)
    BY DEF Told
  <2> QED BY <1>1, <1>2, <2>1 DEF AllTold
<1>8. \A j \in Conns2, n \in Streams : InReach(j, n)' = InReach(j, n)
  BY <1>2 DEF InReach
<1>9. \A q \in Requests, j \in Conns2, n \in Streams : Bound(q, j, n)' = Bound(q, j, n)
  BY DEF Bound
<1>10. Served'
  <2>1. SUFFICES ASSUME NEW j \in Conns2, NEW n \in Streams, InReach(j, n)'
                 PROVE  (cs[j][n].req \in Requests /\ Bound(cs[j][n].req, j, n))'
    BY DEF Served
  <2>2. cs[j][n].req \in Requests /\ Bound(cs[j][n].req, j, n)
    BY <1>1, <1>8, <2>1 DEF Served
  <2>3. cs'[j][n].req = cs[j][n].req
    BY <1>2
  <2> QED BY <2>2, <2>3 DEF Bound
<1>11. Acted'
  BY <1>1, <1>2 DEF Acted, Bound
<1>12. Refusals'
  <2>1. SUFFICES ASSUME NEW j \in Conns2, NEW n \in Streams, cs'[j][n].resc = <<"goaway">>
                 PROVE  ~InReach(j, n) /\ \A q \in Requests : <<q, j, n>> \notin acted
    BY <1>8 DEF Refusals
  <2>2. CASE cs[j][n].resc = <<"goaway">>
    BY <1>1, <2>2 DEF Refusals
  <2>3. CASE cs[j][n].resc # <<"goaway">>
    <3>1. j = k /\ n > f.n /\ n \in Nat
      BY <1>2, <2>1, <2>3, PlaysAssumption
    <3>2. ~(sv[j].last < 0) /\ ~(n <= sv[j].last)
      BY <1>5, <3>1
    <3>3. ~InReach(j, n)
      BY <3>2 DEF InReach
    <3>4. ASSUME NEW q \in Requests, <<q, j, n>> \in acted PROVE FALSE
      <4>1. PICK p \in Requests : \E i \in Conns2 : \E m \in Streams :
              <<q, j, n>> = <<p, i, m>> /\ Bound(p, i, m) /\ (sv[i].last >= 0 => m <= sv[i].last)
        BY <1>1, <3>4 DEF Acted
      <4>2. sv[j].last >= 0 => n <= sv[j].last
        BY <4>1
      <4> QED BY <1>5, <3>1, <3>2, <4>2
    <3> QED BY <3>3, <3>4
  <2> QED BY <2>2, <2>3
<1> QED BY <1>4, <1>6, <1>7, <1>10, <1>11, <1>12 DEF H2Once

LEMMA ReadFrameOnce ==
    ASSUME H2Once, NEW k \in Conns2, ReadFrame(k)
    PROVE  H2Once'
<1>1. PICK f : f = Head(wire[k])
  OBVIOUS
<1>2. PICK r : r = Handle(k, f)
  OBVIOUS
<1>3. /\ wire[k] # <<>> /\ rt' = rt /\ acted' = acted
      /\ \/ r.err = Blank /\ cs' = r.cs /\ sv' = r.sv /\ wire' = [wire EXCEPT ![k] = Tail(@)]
         \/ r.err # Blank /\ cleanup(r.cc, r.cs, k, r.err)
  BY <1>1, <1>2, Zenon DEF ReadFrame
<1>4. Shapes /\ RtsOK(rt) /\ WiresOK(wire, sv)
  BY DEF H2Once
<1>5. f.t \in FrameTypes
  <2>1. IsWire(wire[k], sv[k].last)
    BY <1>4 DEF WiresOK
  <2>2. IsFrame(f, sv[k].last)
    BY <1>1, <1>3, <2>1, WireTail
  <2> QED BY <2>2 DEF IsFrame
<1>6. CASE f.t = "goaway"
  <2>1. r.err = Blank
    BY <1>2, <1>4, <1>6, GoAwayFacts
  <2>2. cs' = r.cs /\ sv' = r.sv /\ wire' = [wire EXCEPT ![k] = Tail(@)]
    BY <1>3, <2>1, Zenon
  <2> QED BY <1>1, <1>2, <1>3, <1>6, <2>2, ReadsGoAwayOnce
<1>7. CASE f.t # "goaway"
  <2>1. Mild(r)
    BY <1>2, <1>4, <1>5, <1>7, HandleMild
  <2>2. CASE r.err = Blank
    <3>1. cs' = r.cs /\ sv' = r.sv /\ wire' = [wire EXCEPT ![k] = Tail(@)]
      BY <1>3, <2>2, Zenon
    <3>2. CsLike(cs, cs') /\ SvLike(sv, sv')
      BY <2>1, <3>1, Zenon DEF Mild
    <3>3. WiresOK(wire', sv')
      BY <1>3, <1>4, <3>1, <3>2, WiresTail
    <3>4. RtStep
      BY <1>3, <1>4, RtSame
    <3>5. Quiet2
      BY <1>3, <3>2, <3>3, <3>4, LikeMoves DEF Quiet2, RtStep
    <3> QED BY <3>5, QuietOnce
  <2>3. CASE r.err # Blank
    <3>1. cleanup(r.cc, r.cs, k, r.err)
      BY <1>3, <2>3, Zenon
    <3>2. r.err \in Endings /\ CsLike(cs, r.cs)
      BY <2>1, <2>3 DEF Mild, Endings
    <3>3. PICK C, S, e : C = r.cc /\ S = r.cs /\ e = r.err
      OBVIOUS
    <3>4. cleanup(C, S, k, e) /\ e \in Endings /\ CsLike(cs, S)
      BY <3>1, <3>2, <3>3, Zenon
    <3> QED BY <1>3, <3>4, CleanupOnce
  <2> QED BY <2>2, <2>3
<1> QED BY <1>6, <1>7

LEMMA ReadEndsOnce ==
    ASSUME H2Once, NEW k \in Conns2, ReadEnds(k)
    PROVE  H2Once'
<1>1. cleanup(cc, cs, k, "EOF") /\ rt' = rt /\ acted' = acted
  BY DEF ReadEnds
<1>2. "EOF" \in Endings
  BY DEF Endings
<1> QED BY <1>1, <1>2, SameLike, CleanupOnce

LEMMA FrameIs ==
    ASSUME NEW t \in FrameTypes \ {"goaway"}, NEW n, NEW len, NEW pad, NEW end, NEW v, NEW l
    PROVE  IsWire(<<Frame(t, n, len, pad, end, v)>>, l)
<1>1. PICK f : f = Frame(t, n, len, pad, end, v)
  OBVIOUS
<1>2. f.t = t
  BY <1>1 DEF Frame
<1>3. IsFrame(f, l)
  BY <1>2 DEF IsFrame
<1> QED BY <1>1, <1>3, WireOf

LEMMA ThenFrame ==
    ASSUME NEW u, NEW v, NEW l, IsWire(u, l), IsWire(v, l), NEW c
    PROVE  IsWire(u \o (IF c THEN v ELSE <<>>), l)
  BY WireJoin, WireEmpty

(* A server's own count other than its last stream, and one of a stream's  *)
(* other than its state.                                                   *)
LEMMA CountLike ==
    ASSUME NEW V, AreServers(V), NEW k \in Conns2, NEW v, NEW V2,
           \/ V2 = [V EXCEPT ![k].windows = v] \/ V2 = [V EXCEPT ![k].init = v] \/ V2 = [V EXCEPT ![k].send = v]
           \/ V2 = [V EXCEPT ![k].recv = v] \/ V2 = [V EXCEPT ![k].pinged = v]
    PROVE  SvLike(V, V2)
<1>1. PICK s : s = V[k]
  OBVIOUS
<1>2. /\ Rec(s, SvFields) /\ s.stream = [m \in Streams |-> s.stream[m]]
      /\ \A m \in Streams : Rec(s.stream[m], StreamFields)
  BY <1>1 DEF AreServers
<1>3. ASSUME NEW w, \/ w = [s EXCEPT !.windows = v] \/ w = [s EXCEPT !.init = v] \/ w = [s EXCEPT !.send = v]
                    \/ w = [s EXCEPT !.recv = v] \/ w = [s EXCEPT !.pinged = v]
      PROVE  ServerLike(V[k], w)
  <2>1. Rec(w, SvFields) /\ w.stream = s.stream /\ w.last = s.last
    <3>1. CASE w = [s EXCEPT !.windows = v]
      BY <1>2, <3>1, Zenon DEF Rec, SvFields
    <3>2. CASE w = [s EXCEPT !.init = v]
      BY <1>2, <3>2, Zenon DEF Rec, SvFields
    <3>3. CASE w = [s EXCEPT !.send = v]
      BY <1>2, <3>3, Zenon DEF Rec, SvFields
    <3>4. CASE w = [s EXCEPT !.recv = v]
      BY <1>2, <3>4, Zenon DEF Rec, SvFields
    <3>5. CASE w = [s EXCEPT !.pinged = v]
      BY <1>2, <3>5, Zenon DEF Rec, SvFields
    <3> QED BY <1>3, <3>1, <3>2, <3>3, <3>4, <3>5, Zenon
  <2> QED BY <1>1, <1>2, <2>1, Zenon DEF ServerLike, ServedLike
<1>4. \E w : ServerLike(V[k], w) /\ V2 = [V EXCEPT ![k] = w]
  <2>1. CASE V2 = [V EXCEPT ![k].windows = v]
    BY <1>1, <1>3, <2>1, Zenon
  <2>2. CASE V2 = [V EXCEPT ![k].init = v]
    BY <1>1, <1>3, <2>2, Zenon
  <2>3. CASE V2 = [V EXCEPT ![k].send = v]
    BY <1>1, <1>3, <2>3, Zenon
  <2>4. CASE V2 = [V EXCEPT ![k].recv = v]
    BY <1>1, <1>3, <2>4, Zenon
  <2>5. CASE V2 = [V EXCEPT ![k].pinged = v]
    BY <1>1, <1>3, <2>5, Zenon
  <2> QED BY <2>1, <2>2, <2>3, <2>4, <2>5, Zenon
<1> QED BY <1>4, ServerUpdated, Zenon

LEMMA StreamCountLike ==
    ASSUME NEW V, AreServers(V), NEW k \in Conns2, NEW n \in Streams, NEW v, NEW V2,
           \/ V2 = [V EXCEPT ![k].stream[n].head = v] \/ V2 = [V EXCEPT ![k].stream[n].early = v]
           \/ V2 = [V EXCEPT ![k].stream[n].down = v] \/ V2 = [V EXCEPT ![k].stream[n].send = v]
           \/ V2 = [V EXCEPT ![k].stream[n].recv = v] \/ V2 = [V EXCEPT ![k].stream[n].got = v]
           \/ V2 = [V EXCEPT ![k].stream[n].st = v] /\ v \in {"closed", V[k].stream[n].st}
    PROVE  SvLike(V, V2)
<1>1. PICK s : s = V[k].stream[n]
  OBVIOUS
<1>2. Rec(s, StreamFields)
  BY <1>1 DEF AreServers
<1>3. ASSUME NEW y, \/ y = [s EXCEPT !.head = v] \/ y = [s EXCEPT !.early = v] \/ y = [s EXCEPT !.down = v]
                    \/ y = [s EXCEPT !.send = v] \/ y = [s EXCEPT !.recv = v] \/ y = [s EXCEPT !.got = v]
                    \/ y = [s EXCEPT !.st = v] /\ v \in {"closed", s.st},
             V2 = [V EXCEPT ![k].stream[n] = y]
      PROVE  SvLike(V, V2)
  <2>1. Rec(y, StreamFields) /\ y.st \in {"closed", s.st}
    <3>1. CASE y = [s EXCEPT !.head = v]
      BY <1>2, <3>1, Zenon DEF Rec, StreamFields
    <3>2. CASE y = [s EXCEPT !.early = v]
      BY <1>2, <3>2, Zenon DEF Rec, StreamFields
    <3>3. CASE y = [s EXCEPT !.down = v]
      BY <1>2, <3>3, Zenon DEF Rec, StreamFields
    <3>4. CASE y = [s EXCEPT !.send = v]
      BY <1>2, <3>4, Zenon DEF Rec, StreamFields
    <3>5. CASE y = [s EXCEPT !.recv = v]
      BY <1>2, <3>5, Zenon DEF Rec, StreamFields
    <3>6. CASE y = [s EXCEPT !.got = v]
      BY <1>2, <3>6, Zenon DEF Rec, StreamFields
    <3>7. CASE y = [s EXCEPT !.st = v] /\ v \in {"closed", s.st}
      BY <1>2, <3>7, Zenon DEF Rec, StreamFields
    <3> QED BY <1>3, <3>1, <3>2, <3>3, <3>4, <3>5, <3>6, <3>7, Zenon
  <2>2. ServedLike(V[k].stream[n], y)
    BY <1>1, <2>1 DEF ServedLike
  <2>3. PICK w : w = [V[k] EXCEPT !.stream[n] = y]
    OBVIOUS
  <2>4. ServerLike(V[k], w)
    BY <2>2, <2>3, ServedUpdated, Zenon
  <2>5. V2 = [V EXCEPT ![k] = w]
    BY <1>3, <2>3, Zenon
  <2> QED BY <2>4, <2>5, ServerUpdated, Zenon
<1>4. CASE V2 = [V EXCEPT ![k].stream[n].head = v]
  BY <1>1, <1>3, <1>4, Zenon
<1>5. CASE V2 = [V EXCEPT ![k].stream[n].early = v]
  BY <1>1, <1>3, <1>5, Zenon
<1>6. CASE V2 = [V EXCEPT ![k].stream[n].down = v]
  BY <1>1, <1>3, <1>6, Zenon
<1>7. CASE V2 = [V EXCEPT ![k].stream[n].send = v]
  BY <1>1, <1>3, <1>7, Zenon
<1>8. CASE V2 = [V EXCEPT ![k].stream[n].recv = v]
  BY <1>1, <1>3, <1>8, Zenon
<1>9. CASE V2 = [V EXCEPT ![k].stream[n].got = v]
  BY <1>1, <1>3, <1>9, Zenon
<1>10. CASE V2 = [V EXCEPT ![k].stream[n].st = v] /\ v \in {"closed", V[k].stream[n].st}
  BY <1>1, <1>3, <1>10, Zenon
<1> QED BY <1>4, <1>5, <1>6, <1>7, <1>8, <1>9, <1>10, Zenon

LEMMA SvThen ==
    ASSUME NEW V, NEW V1, NEW V2, SvLike(V, V1), AreServers(V1) => SvLike(V1, V2)
    PROVE  SvLike(V, V2)
<1>1. AreServers(V1)
  BY DEF SvLike
<1> QED BY <1>1, LikeBoth

LEMMA WidenedLike ==
    ASSUME NEW V, AreServers(V), NEW k \in Conns2, NEW a, NEW b, NEW F, NEW V2,
           F = [n \in Streams |-> F[n]], \A n \in Streams : ServedLike(V[k].stream[n], F[n]),
           V2 = [V EXCEPT ![k].windows = a, ![k].init = b, ![k].stream = F]
    PROVE  SvLike(V, V2)
<1>1. PICK v : v = V[k]
  OBVIOUS
<1>2. Rec(v, SvFields)
  BY <1>1 DEF AreServers
<1>3. PICK x, y, z : x = [v EXCEPT !.windows = a] /\ y = [x EXCEPT !.init = b] /\ z = [y EXCEPT !.stream = F]
  OBVIOUS
<1>4. Rec(x, SvFields) /\ x.last = v.last
  BY <1>2, <1>3, Zenon DEF Rec, SvFields
<1>5. Rec(y, SvFields) /\ y.last = v.last
  BY <1>3, <1>4, Zenon DEF Rec, SvFields
<1>6. Rec(z, SvFields) /\ z.last = v.last /\ z.stream = F
  BY <1>3, <1>5, Zenon DEF Rec, SvFields
<1>7. ServerLike(V[k], z)
  BY <1>1, <1>6, Zenon DEF ServerLike
<1>8. V2 = [V EXCEPT ![k] = z]
  BY <1>1, <1>3
<1> QED BY <1>7, <1>8, ServerUpdated

LEMMA ServerSettingsOnce ==
    ASSUME H2Once, NEW k \in Conns2, ServerSettings(k)
    PROVE  H2Once'
<1>1. AreServers(sv)
  BY DEF H2Once, Shapes
<1>2. PICK w, c, fs : /\ w = play.windows[sv[k].windows + 1] /\ c = (sv[k].windows = 0)
                      /\ fs = <<Frame("settings", 0, w, 0, FALSE, Blank)>>
                              \o (IF sv[k].windows = 0 THEN <<Frame("ack", 0, 0, 0, FALSE, Blank)>> ELSE <<>>)
  OBVIOUS
<1>3. IsWire(fs, sv[k].last)
  <2>1. "settings" \in FrameTypes \ {"goaway"} /\ "ack" \in FrameTypes \ {"goaway"}
    BY DEF FrameTypes
  <2>2. IsWire(<<Frame("settings", 0, w, 0, FALSE, Blank)>>, sv[k].last)
    BY <2>1, FrameIs, Zenon
  <2>3. IsWire(<<Frame("ack", 0, 0, 0, FALSE, Blank)>>, sv[k].last)
    BY <2>1, FrameIs, Zenon
  <2> QED BY <1>2, <2>2, <2>3, ThenFrame, Zenon
<1>4. PICK F : F = [n \in Streams |-> Widened(sv[k].stream[n], w - sv[k].init)]
  OBVIOUS
<1>5. \A n \in Streams : ServedLike(sv[k].stream[n], F[n])
  <2>1. ASSUME NEW n \in Streams PROVE ServedLike(sv[k].stream[n], F[n])
    <3>1. PICK s, y, inc : s = sv[k].stream[n] /\ y = Widened(s, inc) /\ inc = w - sv[k].init
      OBVIOUS
    <3>2. Rec(s, StreamFields)
      BY <1>1, <3>1 DEF AreServers
    <3>3. ServedLike(s, y)
      BY <3>1, <3>2, Zenon DEF ServedLike, Rec, StreamFields, Widened
    <3>4. F[n] = y
      BY <1>4, <3>1, Zenon
    <3> QED BY <3>1, <3>3, <3>4
  <2> QED BY <2>1
<1>6. PICK a : a = sv[k].windows + 1
  OBVIOUS
<1>7. sv' = [sv EXCEPT ![k].windows = a, ![k].init = w, ![k].stream = F]
  BY <1>2, <1>4, <1>6, Zenon DEF ServerSettings
<1>8. F = [n \in Streams |-> F[n]]
  BY <1>4
<1>9. SvLike(sv, sv')
  BY <1>1, <1>5, <1>7, <1>8, WidenedLike
<1>10. Send(k, fs) /\ rt' = rt /\ cs' = cs /\ acted' = acted
  BY <1>2, Zenon DEF ServerSettings
<1> QED BY <1>3, <1>9, <1>10, SentOnce2

LEMMA Server100Once ==
    ASSUME H2Once, NEW k \in Conns2, NEW n \in Streams, Server100(k, n)
    PROVE  H2Once'
<1>1. AreServers(sv)
  BY DEF H2Once, Shapes
<1>2. /\ Send(k, <<Frame("headers", n, 0, 0, FALSE, "100")>>) /\ sv' = [sv EXCEPT ![k].stream[n].early = TRUE]
      /\ rt' = rt /\ cs' = cs /\ acted' = acted
  BY DEF Server100
<1>3. "headers" \in FrameTypes \ {"goaway"}
  BY DEF FrameTypes
<1>4. IsWire(<<Frame("headers", n, 0, 0, FALSE, "100")>>, sv[k].last)
  BY <1>3, FrameIs, Zenon
<1>5. SvLike(sv, sv')
  BY <1>1, <1>2, StreamCountLike, Zenon
<1> QED BY <1>2, <1>4, <1>5, SentOnce2

LEMMA ServerPingsOnce ==
    ASSUME H2Once, NEW k \in Conns2, ServerPings(k)
    PROVE  H2Once'
<1>1. AreServers(sv)
  BY DEF H2Once, Shapes
<1>2. /\ Send(k, <<Frame("ping", 0, 0, 0, FALSE, Blank)>>) /\ sv' = [sv EXCEPT ![k].pinged = TRUE]
      /\ rt' = rt /\ cs' = cs /\ acted' = acted
  BY DEF ServerPings
<1>3. "ping" \in FrameTypes \ {"goaway"}
  BY DEF FrameTypes
<1>4. IsWire(<<Frame("ping", 0, 0, 0, FALSE, Blank)>>, sv[k].last)
  BY <1>3, FrameIs, Zenon
<1>5. SvLike(sv, sv')
  BY <1>1, <1>2, CountLike, Zenon
<1> QED BY <1>2, <1>4, <1>5, SentOnce2

LEMMA ServerGrantsOnce ==
    ASSUME H2Once, NEW k \in Conns2, NEW n \in Streams, ServerGrants(k, n)
    PROVE  H2Once'
<1>1. AreServers(sv)
  BY DEF H2Once, Shapes
<1>2. PICK got, a, b, f, g : /\ got = sv[k].stream[n].got /\ a = sv[k].recv + got /\ b = sv[k].stream[n].recv + got
                             /\ f = Frame("window", n, got, 0, FALSE, Blank)
                             /\ g = Frame("window", 0, got, 0, FALSE, Blank)
  OBVIOUS
<1>3. Send(k, <<f, g>>) /\ rt' = rt /\ cs' = cs /\ acted' = acted
  BY <1>2, Zenon DEF ServerGrants
<1>4. sv' = [sv EXCEPT ![k].recv = a, ![k].stream[n].got = 0, ![k].stream[n].recv = b]
  BY <1>2, Zenon DEF ServerGrants
<1>5. IsWire(<<f, g>>, sv[k].last)
  <2>1. "window" \in FrameTypes \ {"goaway"}
    BY DEF FrameTypes
  <2>2. f.t = "window" /\ g.t = "window"
    BY <1>2 DEF Frame
  <2>3. IsFrame(f, sv[k].last) /\ IsFrame(g, sv[k].last)
    BY <2>1, <2>2 DEF IsFrame
  <2>4. PICK w : w = <<f, g>>
    OBVIOUS
  <2>5. w \in Seq({f, g}) /\ \A i \in 1..Len(w) : w[i] = f \/ w[i] = g
    BY <2>4
  <2>6. IsWire(w, sv[k].last)
    BY <2>3, <2>5, Zenon DEF IsWire
  <2> QED BY <2>4, <2>6
<1>6. PICK V1 : V1 = [sv EXCEPT ![k].recv = a]
  OBVIOUS
<1>7. SvLike(sv, V1)
  BY <1>1, <1>6, CountLike, Zenon
<1>11. PICK V2 : V2 = [V1 EXCEPT ![k].stream[n].got = 0]
  OBVIOUS
<1>8. SvLike(sv, V2)
  <2>1. AreServers(V1) => SvLike(V1, V2)
    BY <1>11, StreamCountLike, Zenon
  <2> QED BY <1>7, <2>1, SvThen
<1>12. PICK V3 : V3 = [V2 EXCEPT ![k].stream[n].recv = b]
  OBVIOUS
<1>9. SvLike(sv, V3)
  <2>1. AreServers(V2) => SvLike(V2, V3)
    BY <1>12, StreamCountLike, Zenon
  <2> QED BY <1>8, <2>1, SvThen
<1>10. sv' = V3
  BY <1>4, <1>6, <1>11, <1>12
<1> QED BY <1>3, <1>5, <1>9, <1>10, SentOnce2

LEMMA ShrunkLike ==
    ASSUME NEW s, Rec(s, StreamFields), NEW len, NEW t, t = Shrunk(s, len)
    PROVE  ServedLike(s, t)
<1>1. PICK b, c, d : b = s.send - len /\ c = s.down - 1 /\ d = IF s.down = 1 THEN "closed" ELSE s.st
  OBVIOUS
<1>2. t = [s EXCEPT !.send = b, !.down = c, !.st = d]
  BY <1>1, Zenon DEF Shrunk
<1>3. PICK x, y : x = [s EXCEPT !.send = b] /\ y = [x EXCEPT !.down = c]
  OBVIOUS
<1>4. t = [y EXCEPT !.st = d]
  BY <1>2, <1>3
<1>5. Rec(x, StreamFields)
  BY <1>3, Zenon DEF Rec, StreamFields
<1>6. Rec(y, StreamFields)
  BY <1>3, <1>5, Zenon DEF Rec, StreamFields
<1>7. Rec(t, StreamFields) /\ t.st = d
  BY <1>4, <1>6, Zenon DEF Rec, StreamFields
<1>8. d = "open" => s.st = "open"
  BY <1>1
<1> QED BY <1>7, <1>8, Zenon DEF ServedLike

LEMMA ServerSendsDataOnce ==
    ASSUME H2Once, NEW k \in Conns2, NEW n \in Streams, ServerSendsData(k, n)
    PROVE  H2Once'
<1>1. AreServers(sv)
  BY DEF H2Once, Shapes
<1>2. PICK s : s = sv[k].stream[n]
  OBVIOUS
<1>3. \E pad, trailers : SendsData(k, n, pad, trailers)
  BY Zenon DEF ServerSendsData
<1>4. PICK pad, trailers : SendsData(k, n, pad, trailers)
  BY <1>3, Zenon
<1>5. PICK fs, u : /\ u = <<Frame("data", n, 1, pad, s.down = 1 /\ ~trailers, Blank)>>
                   /\ fs = u \o (IF trailers THEN <<Frame("headers", n, 0, 0, TRUE, "ok")>> ELSE <<>>)
  OBVIOUS
<1>6. Send(k, fs)
  BY <1>2, <1>4, <1>5, Zenon DEF SendsData
<1>7. rt' = rt /\ cs' = cs /\ acted' = acted
  BY Zenon DEF ServerSendsData
<1>8. IsWire(fs, sv[k].last)
  <2>1. "data" \in FrameTypes \ {"goaway"} /\ "headers" \in FrameTypes \ {"goaway"}
    BY DEF FrameTypes
  <2>2. IsWire(u, sv[k].last)
    BY <1>5, <2>1, FrameIs, Zenon
  <2>3. IsWire(<<Frame("headers", n, 0, 0, TRUE, "ok")>>, sv[k].last)
    BY <2>1, FrameIs, Zenon
  <2> QED BY <1>5, <2>2, <2>3, ThenFrame, Zenon
<1>9. PICK a, z : a = sv[k].send - (1 + pad) /\ z = Shrunk(s, 1 + pad)
  OBVIOUS
<1>10. sv' = [sv EXCEPT ![k].send = a, ![k].stream[n] = z]
  BY <1>2, <1>4, <1>9, Zenon DEF SendsData
<1>11. PICK V : V = [sv EXCEPT ![k].send = a]
  OBVIOUS
<1>12. SvLike(sv, V)
  BY <1>1, <1>11, CountLike, Zenon
<1>13. V[k].stream[n] = s
  <2>1. PICK v : v = [sv[k] EXCEPT !.send = a]
    OBVIOUS
  <2>2. V = [sv EXCEPT ![k] = v]
    BY <1>11, <2>1
  <2>3. V[k] = v
    BY <1>1, <2>2 DEF AreServers
  <2>4. Rec(sv[k], SvFields)
    BY <1>1 DEF AreServers
  <2>5. v.stream = sv[k].stream
    BY <2>1, <2>4, Zenon DEF Rec, SvFields
  <2> QED BY <1>2, <2>3, <2>5
<1>14. sv' = [V EXCEPT ![k].stream[n] = z]
  BY <1>10, <1>11
<1>15. ServedLike(V[k].stream[n], z)
  <2>1. Rec(s, StreamFields)
    BY <1>1, <1>2 DEF AreServers
  <2>2. ServedLike(s, z)
    BY <1>9, <2>1, ShrunkLike
  <2> QED BY <1>13, <2>2
<1>16. SvLike(sv, sv')
  <2>1. AreServers(V)
    BY <1>12 DEF SvLike
  <2>2. PICK w : w = [V[k] EXCEPT !.stream[n] = z]
    OBVIOUS
  <2>3. ServerLike(V[k], w)
    BY <1>15, <2>1, <2>2, ServedUpdated
  <2>4. sv' = [V EXCEPT ![k] = w]
    BY <1>14, <2>2
  <2>5. SvLike(V, sv')
    BY <2>1, <2>3, <2>4, ServerUpdated
  <2> QED BY <1>12, <2>5, LikeBoth
<1> QED BY <1>6, <1>7, <1>8, <1>16, SentOnce2

(* A server acts on a stream it serves: nobody was told that it will not.  *)
LEMMA ActsOnce ==
    ASSUME H2Once, NEW k \in Conns2, NEW n \in Streams, Open(k, n), NEW fs, Send(k, fs), IsWire(fs, sv[k].last),
           SvLike(sv, sv'), rt' = rt, cs' = cs, acted' = acted \cup {<<cs[k][n].req, k, n>>}
    PROVE  H2Once'
<1>1. Shapes /\ RtsOK(rt) /\ WiresOK(wire, sv) /\ AllTold(cs) /\ Served /\ Acted /\ Refusals
  BY DEF H2Once
<1>2. InReach(k, n)
  BY DEF Open, InReach
<1>3. PICK q \in Requests : q = cs[k][n].req /\ Bound(q, k, n)
  BY <1>1, <1>2 DEF Served
<1>4. sv[k].last \in Int /\ IsWire(wire[k], sv[k].last)
  BY <1>1 DEF WiresOK
<1>5. \A j \in Conns2 : sv'[j].last = sv[j].last
  BY DEF SvLike, ServerLike
<1>6. WiresOK(wire', sv')
  <2>1. PICK w : w = wire[k] \o fs
    OBVIOUS
  <2>2. IsWire(w, sv[k].last)
    BY <1>4, <2>1, WireJoin
  <2>3. wire' = [wire EXCEPT ![k] = w]
    BY <2>1 DEF Send
  <2> QED BY <1>1, <1>4, <1>5, <2>2, <2>3, WiresUpdated
<1>7. SvMoves(sv, sv')
  BY LikeMoves
<1>8. Shapes'
  BY <1>1 DEF Shapes, SvLike
<1>9. \A p \in Requests, j \in Conns2, m \in Streams : Bound(p, j, m)' = Bound(p, j, m)
  BY DEF Bound
<1>10. Served'
  <2>1. SUFFICES ASSUME NEW j \in Conns2, NEW m \in Streams, InReach(j, m)'
                 PROVE  (cs[j][m].req \in Requests /\ Bound(cs[j][m].req, j, m))'
    BY DEF Served
  <2>2. InReach(j, m)
    BY <1>7, <2>1, ReachKept
  <2>3. cs[j][m].req \in Requests /\ Bound(cs[j][m].req, j, m)
    BY <1>1, <2>2 DEF Served
  <2> QED BY <2>3 DEF Bound
<1>11. Acted'
  <2>1. SUFFICES ASSUME NEW a \in acted'
                 PROVE  \E p \in Requests : \E j \in Conns2 : \E m \in Streams :
                           a = <<p, j, m>> /\ Bound(p, j, m)' /\ (sv'[j].last >= 0 => m <= sv'[j].last)
    BY DEF Acted
  <2>2. CASE a \in acted
    <3>1. PICK p \in Requests : \E j \in Conns2 : \E m \in Streams :
            a = <<p, j, m>> /\ Bound(p, j, m) /\ (sv[j].last >= 0 => m <= sv[j].last)
      BY <1>1, <2>2 DEF Acted
    <3> QED BY <1>5, <1>9, <3>1
  <2>3. CASE a = <<q, k, n>>
    <3>1. sv[k].last >= 0 => n <= sv[k].last
      BY <1>2, <1>4 DEF InReach
    <3> QED BY <1>3, <1>5, <1>9, <2>3, <3>1
  <2> QED BY <1>3, <2>2, <2>3
<1>12. Refusals'
  <2>1. SUFFICES ASSUME NEW j \in Conns2, NEW m \in Streams, cs[j][m].resc = <<"goaway">>
                 PROVE  ~InReach(j, m)' /\ \A p \in Requests : <<p, j, m>> \notin acted'
    BY DEF Refusals
  <2>2. ~InReach(j, m) /\ \A p \in Requests : <<p, j, m>> \notin acted
    BY <1>1, <2>1 DEF Refusals
  <2>3. ~(j = k /\ m = n)
    BY <1>2, <2>2
  <2>4. \A p \in Requests : <<p, j, m>> # <<q, k, n>>
    BY <2>3
  <2> QED BY <1>3, <1>7, <2>2, <2>4, ReachKept
<1> QED BY <1>1, <1>6, <1>8, <1>10, <1>11, <1>12 DEF H2Once

LEMMA ServerRespondsOnce ==
    ASSUME H2Once, NEW k \in Conns2, NEW n \in Streams, ServerResponds(k, n)
    PROVE  H2Once'
<1>1. AreServers(sv) /\ Open(k, n)
  BY DEF H2Once, Shapes, ServerResponds
<1>2. PICK v : Send(k, <<Frame("headers", n, 0, 0, sv[k].stream[n].down = 0, v)>>)
  BY Zenon DEF ServerResponds
<1>3. PICK fs : fs = <<Frame("headers", n, 0, 0, sv[k].stream[n].down = 0, v)>>
  OBVIOUS
<1>4. "headers" \in FrameTypes \ {"goaway"}
  BY DEF FrameTypes
<1>5. Send(k, fs) /\ IsWire(fs, sv[k].last)
  BY <1>2, <1>3, <1>4, FrameIs, Zenon
<1>6. PICK s, y, d : s = sv[k].stream[n] /\ y = Replied(s) /\ d = IF s.down = 0 THEN "closed" ELSE s.st
  OBVIOUS
<1>7. sv' = [sv EXCEPT ![k].stream[n] = y]
  BY <1>6, Zenon DEF ServerResponds
<1>8. PICK x : x = [s EXCEPT !.head = TRUE]
  OBVIOUS
<1>9. y = [x EXCEPT !.st = d]
  <2>1. y = [s EXCEPT !.head = TRUE, !.st = d]
    BY <1>6, Zenon DEF Replied
  <2> QED BY <1>8, <2>1
<1>10. Rec(s, StreamFields)
  BY <1>1, <1>6 DEF AreServers
<1>11. Rec(x, StreamFields)
  BY <1>8, <1>10, Zenon DEF Rec, StreamFields
<1>12. ServedLike(sv[k].stream[n], y)
  <2>1. d = "open" => s.st = "open"
    BY <1>6
  <2>2. Rec(y, StreamFields) /\ y.st = d
    BY <1>9, <1>11, Zenon DEF Rec, StreamFields
  <2> QED BY <1>6, <2>1, <2>2, Zenon DEF ServedLike
<1>13. PICK w : w = [sv[k] EXCEPT !.stream[n] = y]
  OBVIOUS
<1>14. ServerLike(sv[k], w)
  BY <1>1, <1>12, <1>13, ServedUpdated
<1>15. sv' = [sv EXCEPT ![k] = w]
  BY <1>7, <1>13
<1>16. SvLike(sv, sv')
  BY <1>1, <1>14, <1>15, ServerUpdated
<1>17. rt' = rt /\ cs' = cs /\ acted' = acted \cup {<<cs[k][n].req, k, n>>}
  BY Zenon DEF ServerResponds
<1> QED BY <1>1, <1>5, <1>16, <1>17, ActsOnce

LEMMA ServerBreaksOnce ==
    ASSUME H2Once, NEW k \in Conns2, NEW n \in Streams, ServerBreaks(k, n)
    PROVE  H2Once'
<1>1. AreServers(sv) /\ Open(k, n) /\ sv' = ServerResets(sv, k, n)
  BY DEF H2Once, Shapes, ServerBreaks
<1>2. \E t \in {"rst", "garbled"} : Send(k, <<Frame(t, n, 0, 0, FALSE, Blank)>>)
  BY Zenon DEF ServerBreaks
<1>3. PICK t \in {"rst", "garbled"} : Send(k, <<Frame(t, n, 0, 0, FALSE, Blank)>>)
  BY <1>2
<1>4. PICK fs : fs = <<Frame(t, n, 0, 0, FALSE, Blank)>>
  OBVIOUS
<1>5. t \in FrameTypes \ {"goaway"}
  BY DEF FrameTypes
<1>6. Send(k, fs) /\ IsWire(fs, sv[k].last)
  BY <1>3, <1>4, <1>5, FrameIs, Zenon
<1>7. SvLike(sv, sv')
  BY <1>1, ResetsLike
<1>8. rt' = rt /\ cs' = cs /\ acted' = acted \cup {<<cs[k][n].req, k, n>>}
  BY Zenon DEF ServerBreaks
<1> QED BY <1>1, <1>6, <1>7, <1>8, ActsOnce

(* A server that goes away names a stream below none it has acted on.      *)
LEMMA ServerGoesAwayOnce ==
    ASSUME H2Once, NEW k \in Conns2, ServerGoesAway(k)
    PROVE  H2Once'
<1>1. Shapes /\ RtsOK(rt) /\ WiresOK(wire, sv) /\ AllTold(cs) /\ Served /\ Acted /\ Refusals
  BY DEF H2Once
<1>2. sv[k].last < 0 /\ rt' = rt /\ cs' = cs /\ acted' = acted
  BY Zenon DEF ServerGoesAway
<1>3. PICK l \in 0..(cc[k].next - 1) :
        /\ \A a \in acted : a[2] = k => a[3] <= l
        /\ Send(k, <<Frame("goaway", l, 0, 0, FALSE, Blank)>>)
        /\ sv' = [sv EXCEPT ![k].last = l]
  BY Zenon DEF ServerGoesAway
<1>4. l \in Int /\ l >= 0
  OBVIOUS
<1>5. PICK v : v = [sv[k] EXCEPT !.last = l]
  OBVIOUS
<1>6. /\ Rec(sv[k], SvFields) /\ sv[k].stream = [m \in Streams |-> sv[k].stream[m]]
      /\ \A m \in Streams : Rec(sv[k].stream[m], StreamFields)
  BY <1>1 DEF Shapes, AreServers
<1>7. Rec(v, SvFields) /\ v.last = l /\ v.stream = sv[k].stream
  BY <1>5, <1>6, Zenon DEF Rec, SvFields
<1>8. sv' = [sv EXCEPT ![k] = v]
  BY <1>3, <1>5
<1>9. \A j \in Conns2 : sv'[j] = IF j = k THEN v ELSE sv[j]
  BY <1>1, <1>8 DEF Shapes, AreServers
<1>10. AreServers(sv')
  <2>1. sv' = [j \in Conns2 |-> sv'[j]]
    BY <1>1, <1>8 DEF Shapes, AreServers
  <2>2. ASSUME NEW j \in Conns2
        PROVE  /\ Rec(sv'[j], SvFields) /\ sv'[j].stream = [m \in Streams |-> sv'[j].stream[m]]
               /\ \A m \in Streams : Rec(sv'[j].stream[m], StreamFields)
    <3>1. CASE j = k
      <4>1. sv'[j] = v
        BY <1>9, <3>1
      <4> QED BY <1>6, <1>7, <4>1, Zenon
    <3>2. CASE j # k
      <4>1. sv'[j] = sv[j]
        BY <1>9, <3>2
      <4> QED BY <1>1, <4>1 DEF Shapes, AreServers
    <3> QED BY <3>1, <3>2
  <2> QED BY <2>1, <2>2, Zenon DEF AreServers
<1>11. WiresOK(wire', sv')
  <2>1. PICK f, w : f = Frame("goaway", l, 0, 0, FALSE, Blank) /\ w = wire[k] \o <<f>>
    OBVIOUS
  <2>2. f.t = "goaway" /\ f.n = l
    BY <2>1 DEF Frame
  <2>3. IsFrame(f, l)
    BY <1>4, <2>2 DEF IsFrame, FrameTypes
  <2>4. IsWire(<<f>>, l)
    BY <2>3, WireOf
  <2>5. sv[k].last \in Int /\ IsWire(wire[k], sv[k].last)
    BY <1>1 DEF WiresOK
  <2>6. IsWire(wire[k], l)
    BY <1>2, <2>5, WireCalm
  <2>7. IsWire(w, l)
    BY <2>1, <2>4, <2>6, WireJoin
  <2>8. wire' = [wire EXCEPT ![k] = w]
    BY <1>3, <2>1, Zenon DEF Send
  <2>9. sv'[k].last = l /\ \A j \in Conns2 : j # k => sv'[j].last = sv[j].last
    BY <1>7, <1>9
  <2> QED BY <1>1, <1>4, <2>7, <2>8, <2>9, WiresUpdated
<1>12. \A j \in Conns2, m \in Streams : InReach(j, m)' => InReach(j, m)
  <2>1. ASSUME NEW j \in Conns2, NEW m \in Streams, InReach(j, m)' PROVE InReach(j, m)
    <3>1. sv'[j].stream[m].st = "open" /\ (sv'[j].last < 0 \/ m <= sv'[j].last)
      BY <2>1 DEF InReach
    <3>2. CASE j = k
      <4>1. sv[j].stream[m].st = "open"
        BY <1>7, <1>9, <3>1, <3>2
      <4> QED BY <1>2, <3>2, <4>1 DEF InReach
    <3>3. CASE j # k
      <4>1. sv'[j] = sv[j]
        BY <1>9, <3>3
      <4> QED BY <3>1, <4>1 DEF InReach
    <3> QED BY <3>2, <3>3
  <2> QED BY <2>1
<1>13. \A p \in Requests, j \in Conns2, m \in Streams : Bound(p, j, m)' = Bound(p, j, m)
  BY <1>2 DEF Bound
<1>14. Served'
  <2>1. SUFFICES ASSUME NEW j \in Conns2, NEW m \in Streams, InReach(j, m)'
                 PROVE  (cs[j][m].req \in Requests /\ Bound(cs[j][m].req, j, m))'
    BY DEF Served
  <2>2. cs[j][m].req \in Requests /\ Bound(cs[j][m].req, j, m)
    BY <1>1, <1>12, <2>1 DEF Served
  <2> QED BY <1>2, <2>2 DEF Bound
<1>15. Acted'
  <2>1. SUFFICES ASSUME NEW a \in acted
                 PROVE  \E p \in Requests : \E j \in Conns2 : \E m \in Streams :
                           a = <<p, j, m>> /\ Bound(p, j, m)' /\ (sv'[j].last >= 0 => m <= sv'[j].last)
    BY <1>2 DEF Acted
  <2>2. PICK p \in Requests : \E j \in Conns2 : \E m \in Streams :
          a = <<p, j, m>> /\ Bound(p, j, m) /\ (sv[j].last >= 0 => m <= sv[j].last)
    BY <1>1 DEF Acted
  <2>3. PICK j \in Conns2 : \E m \in Streams :
          a = <<p, j, m>> /\ Bound(p, j, m) /\ (sv[j].last >= 0 => m <= sv[j].last)
    BY <2>2
  <2>4. PICK m \in Streams : a = <<p, j, m>> /\ Bound(p, j, m) /\ (sv[j].last >= 0 => m <= sv[j].last)
    BY <2>3
  <2>5. j = k => m <= l
    BY <1>3, <2>4
  <2>6. sv'[j].last >= 0 => m <= sv'[j].last
    <3>1. CASE j = k
      <4>1. sv'[j].last = l
        BY <1>7, <1>9, <3>1
      <4> QED BY <2>5, <3>1, <4>1
    <3>2. CASE j # k
      <4>1. sv'[j] = sv[j]
        BY <1>9, <3>2
      <4> QED BY <2>4, <4>1
    <3> QED BY <3>1, <3>2
  <2> QED BY <1>13, <2>4, <2>6
<1>16. Refusals'
  BY <1>1, <1>2, <1>12 DEF Refusals
<1>17. Shapes'
  BY <1>1, <1>2, <1>10 DEF Shapes
<1>18. RtsOK(rt)' /\ AllTold(cs)'
  BY <1>1, <1>2
<1> QED BY <1>11, <1>14, <1>15, <1>16, <1>17, <1>18 DEF H2Once

LEMMA H2OnceInit == H2Init => H2Once
<1> SUFFICES ASSUME H2Init PROVE H2Once
  OBVIOUS
<1>1. /\ rt = [q \in Requests |-> RtInit] /\ cs = [k \in Conns2 |-> [n \in Streams |-> CsInit]]
      /\ sv = [k \in Conns2 |-> SvInit] /\ wire = [k \in Conns2 |-> <<>>] /\ acted = {}
  BY DEF H2Init
<1>2. \A k \in Conns2, n \in Streams : cs[k][n] = CsInit /\ sv[k] = SvInit
  BY <1>1
<1>3. Rec(CsInit, CsFields) /\ CsInit.resc = <<>>
  BY DEF CsInit, Rec, CsFields
<1>4. AreStreams(cs)
  BY <1>1, <1>3 DEF AreStreams
<1>5. AreServers(sv)
  <2>1. \A k \in Conns2 : sv[k] = SvInit
    BY <1>1
  <2>2. sv = [k \in Conns2 |-> sv[k]]
    BY <1>1
  <2> QED BY <2>1, <2>2, SvInitFacts DEF AreServers
<1>6. RtsOK(rt)
  <2>1. Rec(RtInit, RtFields) /\ RtInit.pc = "get" /\ RtInit.conn = Nothing /\ RtInit.id = Nothing
    BY DEF RtInit, Rec, RtFields
  <2>2. RtOK(RtInit)
    BY <2>1 DEF RtOK, Early, Late
  <2> QED BY <1>1, <2>2 DEF RtsOK
<1>7. WiresOK(wire, sv)
  <2>1. \A k \in Conns2 : sv[k] = SvInit /\ wire[k] = <<>>
    BY <1>1
  <2>2. -1 \in Int
    OBVIOUS
  <2>3. \A k \in Conns2 : sv[k].last \in Int /\ IsWire(wire[k], sv[k].last)
    BY <2>1, <2>2, SvInitFacts, WireEmpty
  <2> QED BY <1>1, <2>3 DEF WiresOK
<1>8. AllTold(cs) /\ \A k \in Conns2, n \in Streams : cs[k][n].resc = <<>>
  BY <1>2, <1>3 DEF AllTold, Told
<1>9. \A k \in Conns2, n \in Streams : ~InReach(k, n)
  BY <1>2, SvInitFacts DEF InReach
<1>10. Served /\ Acted /\ Refusals
  <2>1. <<>> # <<"goaway">>
    OBVIOUS
  <2> QED BY <1>1, <1>8, <1>9, <2>1 DEF Served, Acted, Refusals
<1> QED BY <1>4, <1>5, <1>6, <1>7, <1>8, <1>10 DEF H2Once, Shapes

LEMMA H2OnceNext == H2Once /\ [H2Next]_h2Vars => H2Once'
<1> SUFFICES ASSUME H2Once, [H2Next]_h2Vars PROVE H2Once'
  OBVIOUS
<1>1. ASSUME NEW q \in Requests,
             \/ getClientConn(q) \/ DialReturns(q) \/ RoundTrip(q) \/ Result(q) \/ Canceled(q)
             \/ PeerReset(q) \/ BodyWritten(q) \/ ReadResponse(q) \/ CloseResponse(q)
             \/ awaitRequestCancel(q) \/ CancelFires(q)
      PROVE  H2Once'
  BY <1>1, GetClientConnOnce, DialReturnsOnce, RoundTrip2Once, ResultOnce, CanceledOnce, EndsOnce,
     ReadResponseOnce, CloseResponseOnce, AwaitCancelOnce
<1>2. ASSUME NEW k \in Conns2, dial(k) \/ addConnLocked(k) \/ ReadFrame(k) \/ ReadEnds(k) PROVE H2Once'
  BY <1>2, ConnStepOnce, ReadFrameOnce, ReadEndsOnce
<1>3. ASSUME NEW k \in Conns2, NEW n \in Streams, StartsBody(k, n) \/ writeRequestBody(k, n) PROVE H2Once'
  BY <1>3, StartsBodyOnce, WriteBodyOnce
<1>4. ASSUME H2Duty PROVE H2Once'
  BY <1>4, ServerSettingsOnce, ServerRespondsOnce, ServerSendsDataOnce, ServerGrantsOnce DEF H2Duty
<1>5. ASSUME H2Whims PROVE H2Once'
  BY <1>5, ServerBreaksOnce, Server100Once, ServerGoesAwayOnce, ConnStepOnce, ServerPingsOnce DEF H2Whims
<1>6. CASE UNCHANGED h2Vars
  <2>1. rt' = rt /\ cs' = cs /\ sv' = sv /\ wire' = wire /\ acted' = acted
    BY <1>6 DEF h2Vars
  <2>2. Shapes' /\ RtsOK(rt') /\ WiresOK(wire', sv') /\ AllTold(cs')
    BY <2>1 DEF H2Once, Shapes
  <2>3. /\ \A k \in Conns2, n \in Streams : InReach(k, n)' = InReach(k, n)
        /\ \A q \in Requests, k \in Conns2, n \in Streams : Bound(q, k, n)' = Bound(q, k, n)
    BY <2>1 DEF InReach, Bound
  <2>4. Served'
    BY <2>1, <2>3 DEF H2Once, Served
  <2>5. Acted'
    BY <2>1, <2>3 DEF H2Once, Acted
  <2>6. Refusals'
    BY <2>1, <2>3 DEF H2Once, Refusals
  <2> QED BY <2>2, <2>4, <2>5, <2>6 DEF H2Once
<1>7. CASE H2Next
  <2>1. CASE H2Client
    BY <1>1, <1>2, <1>3, <2>1 DEF H2Client
  <2> QED BY <1>4, <1>5, <1>7, <2>1 DEF H2Next
<1> QED BY <1>6, <1>7

LEMMA H2OnceEach == H2Once => OnceEach
<1> SUFFICES ASSUME H2Once, NEW a \in acted, NEW b \in acted, a[1] = b[1] PROVE a = b
  BY DEF OnceEach
<1>1. Acted
  BY DEF H2Once
<1>2. PICK q \in Requests, k \in Conns2, n \in Streams : a = <<q, k, n>> /\ Bound(q, k, n)
  BY <1>1 DEF Acted
<1>3. PICK p \in Requests, j \in Conns2, m \in Streams : b = <<p, j, m>> /\ Bound(p, j, m)
  BY <1>1 DEF Acted
<1>4. p = q
  BY <1>2, <1>3
<1> QED BY <1>2, <1>3, <1>4 DEF Bound

(* The two protocols share no state: a step of one is no step of the other. *)
LEMMA HttpSteps == [Next]_httpVars => [H1Next]_h1Vars /\ [H2Next]_h2Vars
<1> SUFFICES ASSUME [Next]_httpVars PROVE [H1Next]_h1Vars /\ [H2Next]_h2Vars
  OBVIOUS
<1>1. CASE Http1Client
  BY <1>1, Zenon DEF Http1Client, H1Next
<1>2. CASE Http1Surroundings
  BY <1>2, Zenon DEF Http1Surroundings, H1Next
<1>3. CASE Http2Duty
  BY <1>3, Zenon DEF Http2Duty, H2Next
<1>4. CASE Http2Whims
  BY <1>4, Zenon DEF Http2Whims, H2Next
<1>5. CASE UNCHANGED httpVars
  BY <1>5 DEF httpVars, h1Vars, h2Vars
<1> QED BY <1>1, <1>2, <1>3, <1>4, <1>5 DEF Next

(* Over every run, and whatever the settings, the servers and the faults:  *)
(* no request that must not be repeated reaches a server twice, over       *)
(* HTTP/1 (roundTrip, shouldRetryRequest) or HTTP/2 (RoundTripOpt's retry  *)
(* after GOAWAY).                                                          *)
THEOREM HttpNothingTwice == Spec => []NothingTwice
<1>1. Init => Once /\ H2Once
  BY OnceInit, H2OnceInit DEF Init
<1>2. Once /\ H2Once /\ [Next]_httpVars => Once' /\ H2Once'
  <2> SUFFICES ASSUME Once, H2Once, [Next]_httpVars PROVE Once' /\ H2Once'
    OBVIOUS
  <2>1. [H1Next]_h1Vars /\ [H2Next]_h2Vars
    BY HttpSteps
  <2> QED BY <2>1, OnceNext, H2OnceNext
<1>3. Once /\ H2Once => NothingTwice
  BY OnceSent, H2OnceEach DEF NothingTwice
<1> QED BY <1>1, <1>2, <1>3, PTL DEF Spec

(* Over every run, and whatever the settings, the servers and the faults:  *)
(* the lists of idle connections agree and keep their limits, no two       *)
(* callers have one connection, and no open connection that waits for a    *)
(* request is forgotten (tryPutIdleConn, getIdleConn, removeIdleConn and   *)
(* the readLoop of the HTTP/1 transport).                                  *)
THEOREM HttpPoolKept == Spec => []PoolKept
<1>1. Init => Once /\ Pooled
  BY OnceInit, PooledInit DEF Init
<1>2. Once /\ Pooled /\ [Next]_httpVars => Once' /\ Pooled'
  <2> SUFFICES ASSUME Once, Pooled, [Next]_httpVars PROVE Once' /\ Pooled'
    OBVIOUS
  <2>1. [H1Next]_h1Vars
    BY HttpSteps
  <2>2. H1Types
    BY DEF Once
  <2> QED BY <2>1, <2>2, OnceNext, PooledNext
<1>3. Once /\ Pooled => PoolKept
  BY PooledKept DEF PoolKept, Once
<1> QED BY <1>1, <1>2, <1>3, PTL DEF Spec
=============================================================================
