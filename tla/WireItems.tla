----------------------------- MODULE WireItems ------------------------------
(***************************************************************************)
(* The vocabulary in which a binary message is written down: an encoder is *)
(* the sequence of fields it pushes, a decoder the sequence of reads and   *)
(* checks it makes.  Both are translated from the code on their own, so    *)
(* that decoding what was encoded is a question and not a definition.      *)
(***************************************************************************)
EXTENDS Integers, Sequences

Huge == 2147483647      \* bound: stands for every 32-bit value above it
MaxU16 == 65535

(* A length or a count computed from fields already read: the sum of some  *)
(* less the sum of others, or a product, plus k, in unsigned arithmetic of *)
(* the given bits (0: an int, which may be negative).  "#left", "#read"    *)
(* and "#size" are the bytes left, read and given.                         *)
Expr(op, names, less, k, bits) ==
    [op |-> op, names |-> names, less |-> less, k |-> k, bits |-> bits]
N(k) == Expr("sum", {}, {}, k, 0)
V(name) == Expr("sum", {name}, {}, 0, 0)
Plus(names, k, bits) == Expr("sum", names, {}, k, bits)
Diff(names, less, k, bits) == Expr("sum", names, less, k, bits)
Times(names, less, bits) == Expr("product", names, less, 0, bits)
Left == V("#left")

Item(op, name, w) ==
    [op |-> op, name |-> name, key |-> name, w |-> w, little |-> FALSE,
     k |-> -1, sizes |-> {}, scope |-> "", sub |-> <<>>, from |-> N(0),
     n |-> N(0), lo |-> 0, hi |-> 0]

(* Fields of both sides: an integer of w bytes, several bit fields in w    *)
(* bytes (of a name, the bits from up on, at shift), w bytes as they are.  *)
U(w, name) == Item("int", name, w)
Us(w, names) == [i \in DOMAIN names |-> U(w, names[i])]
Lit(w, name, v) == [U(w, name) EXCEPT !.k = v]        \* v if it is sent
Part(name, up, shift, bits) ==
    [name |-> name, up |-> up, shift |-> shift, bits |-> bits, k |-> -1]
Bits(name, shift, bits) == Part(name, 0, shift, bits)
Fixed(name, shift, bits, v) == [Bits(name, shift, bits) EXCEPT !.k = v]
Pack(w, sub) == [Item("pack", "", w) EXCEPT !.sub = sub]
Blob(name, w) == [Item("take", name, w) EXCEPT !.n = N(w)]
Blobs(w, names) == [i \in DOMAIN names |-> Blob(names[i], w)]
Little(items) == [i \in DOMAIN items |-> [items[i] EXCEPT !.little = TRUE]]

(* Encoder: a length field (of a named body, of what comes "after" it or   *)
(* of "all" of the message, plus k), a body of any of the sizes, a group   *)
(* sent any of the numbers of times, a refusal to encode more than hi.     *)
LenOf(w, name, scope, k) ==
    [Item("len", name, w) EXCEPT !.scope = scope, !.k = k]
Body(name, cs) == [Item("take", name, 0) EXCEPT !.sizes = cs]
BodyAs(key, name, cs) == [Body(name, cs) EXCEPT !.key = key]
Many(name, cs, sub) ==
    [Item("many", name, 0) EXCEPT !.sizes = cs, !.sub = sub]
AtMost(hi) == [Item("limit", "", 0) EXCEPT !.hi = hi]
Few == {0, 1, 3}                        \* bound: sizes of a body

(* Decoder: n bytes, the bytes from..n of the whole input, the bytes up to *)
(* a NUL, a check that n bytes are left or that an expression is in lo..hi,*)
(* success when it is not, a buffer of n bytes made before they arrive, a  *)
(* window of the next n bytes as the input from there on, the value of an  *)
(* expression or the largest of it so far, a jump over w items when it is  *)
(* not in lo..hi, loops.                                                   *)
Take(name, n) == [Item("take", name, 0) EXCEPT !.n = n]
Slice(name, from, to) ==
    [Item("slice", name, 0) EXCEPT !.from = from, !.n = to]
Until(name) == Item("until", name, 0)
Ranged(op, e, lo, hi, w) ==
    [Item(op, "", w) EXCEPT !.n = e, !.lo = lo, !.hi = hi]
Test(e, lo, hi) == Ranged("test", e, lo, hi, 0)
Is(name, v) == Test(V(name), v, v)
Need(n) == Test(Left, n, Huge)
Refuse == Test(N(1), 0, 0)
Make(n) == [Item("make", "", 0) EXCEPT !.n = n]
Window(n) == [Item("window", "", 0) EXCEPT !.n = n]
Quit(e, lo, hi) == Ranged("quit", e, lo, hi, 0)
Finish == Quit(N(0), 1, 1)
Let(name, e) == [Item("let", name, 0) EXCEPT !.n = e]
Largest(name, e) == [Item("largest", name, 0) EXCEPT !.n = e]
If(e, lo, hi, items) == <<Ranged("unless", e, lo, hi, Len(items))>> \o items
Rest(name) == Take(name, Left)
Each(e, items) ==
    <<[Item("each", "", Len(items) + 1) EXCEPT !.n = e]>> \o items
    \o <<[Item("again", "", Len(items)) EXCEPT !.n = e]>>
Jump(w) == Ranged("unless", N(1), 0, 0, w)
While(e, lo, hi, items) ==
    If(e, lo, hi, items \o <<Jump(-Len(items) - 2)>>)

(* A message: does this code encode it, how, what a read past the end of   *)
(* the input does ("refused", "panic"), and how it is decoded.             *)
Format(own, enc, short, dec) ==
    [own |-> own, enc |-> enc, short |-> short, dec |-> dec]
Stream(enc, dec) == Format(TRUE, enc, {"refused"}, dec)
Sliced(enc, dec) == Format(TRUE, enc, {"panic"}, dec)
PeerStream(enc, dec) == Format(FALSE, enc, {"refused"}, dec)
PeerSliced(enc, dec) == Format(FALSE, enc, {"panic"}, dec)
Sent(enc) == Format(TRUE, enc, {}, <<>>)
=============================================================================
